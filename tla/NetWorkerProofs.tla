-------------------------- MODULE NetWorkerProofs --------------------------
(***************************************************************************)
(* No request is forgotten, none is answered twice, and what goes out goes *)
(* out in turn, for any requests and queue caps.  The first invariant says *)
(* more than its theorem: the five places an answer can wait in hold each  *)
(* request at most once between them, a request asked for once is never    *)
(* asked for again, and without a join handle there is no thread whose job *)
(* could be lost.  The second follows a request from its queue to the wire *)
(* and remembers who was told what off the wire.                           *)
(***************************************************************************)
EXTENDS NetWorker, FiniteSetTheorems, TLAPS

Distinct(q) == \A i, j \in 1..Len(q) : q[i] = q[j] => i = j

Addressees(messages) == [i \in 1..Len(messages) |-> messages[i].request]

(* Where the answer to r is: at most one of these, and one for a handler.  *)
InThread(r) == worker.job = r
InDropped(r) == ui.job = r
InPosted(r) == Waits(Addressees(posted), r)

AtMostOnePlace(r) ==
    /\ Waits(api, r) =>
           ~Waits(images, r) /\ ~InThread(r) /\ ~InDropped(r) /\ ~InPosted(r)
    /\ Waits(images, r) => ~InThread(r) /\ ~InDropped(r) /\ ~InPosted(r)
    /\ InThread(r) => ~InDropped(r) /\ ~InPosted(r)
    /\ InDropped(r) => ~InPosted(r)

Somewhere(r) ==
    \/ Waits(api, r) \/ Waits(images, r) \/ InThread(r) \/ InDropped(r)
    \/ InPosted(r)

Accounted ==
    /\ Distinct(api)
    /\ Distinct(images)
    /\ Distinct(Addressees(posted))
    /\ \A r \in Requests : AtMostOnePlace(r)
    /\ \A r \in Requests : r \in handlers <=> Somewhere(r)
    /\ \A r \in handlers : Waits(asked, r)
    /\ ~thread => worker.at = "absent"

NetIInv == NetTypeOK /\ QueuesBounded /\ (~Leaving => Accounted)
----------------------------------------------------------------------------
(* Sequences: what is in a queue after one more, and after its head went.  *)

LEMMA WaitsAppend ==
    ASSUME NEW S, NEW q \in Seq(S), NEW x \in S
    PROVE  /\ Append(q, x) \in Seq(S)
           /\ Len(Append(q, x)) = Len(q) + 1
           /\ \A r : Waits(Append(q, x), r) <=> Waits(q, r) \/ r = x
<1>1. Append(q, x) \in Seq(S) /\ Len(Append(q, x)) = Len(q) + 1
  OBVIOUS
<1>2. \A i \in 1..Len(q) : Append(q, x)[i] = q[i]
  OBVIOUS
<1>3. Append(q, x)[Len(q) + 1] = x
  OBVIOUS
<1>4. Len(q) \in Nat
  OBVIOUS
<1>5. ASSUME NEW r, Waits(Append(q, x), r)  PROVE Waits(q, r) \/ r = x
  BY <1>1, <1>2, <1>3, <1>4, <1>5 DEF Waits
<1>6. ASSUME NEW r, Waits(q, r)  PROVE Waits(Append(q, x), r)
  BY <1>1, <1>2, <1>4, <1>6 DEF Waits
<1>7. Waits(Append(q, x), x)
  BY <1>1, <1>3, <1>4 DEF Waits
<1> QED
  BY <1>1, <1>5, <1>6, <1>7

LEMMA DistinctAppend ==
    ASSUME NEW S, NEW q \in Seq(S), NEW x \in S, Distinct(q), ~Waits(q, x)
    PROVE  Distinct(Append(q, x))
<1>1. Len(Append(q, x)) = Len(q) + 1 /\ Len(q) \in Nat
  OBVIOUS
<1>2. \A i \in 1..Len(q) : Append(q, x)[i] = q[i]
  OBVIOUS
<1>3. Append(q, x)[Len(q) + 1] = x
  OBVIOUS
<1> QED
  BY <1>1, <1>2, <1>3 DEF Distinct, Waits

LEMMA HeadWaits ==
    ASSUME NEW S, NEW q \in Seq(S), q # <<>>
    PROVE  /\ Head(q) \in S
           /\ Head(q) = q[1]
           /\ Waits(q, Head(q))
           /\ Len(q) \in Nat \ {0}
<1>1. Head(q) \in S /\ Head(q) = q[1] /\ Len(q) \in Nat \ {0}
  OBVIOUS
<1> QED
  BY <1>1 DEF Waits

LEMMA WaitsTail ==
    ASSUME NEW S, NEW q \in Seq(S), q # <<>>, Distinct(q)
    PROVE  /\ Tail(q) \in Seq(S)
           /\ Len(Tail(q)) = Len(q) - 1
           /\ Distinct(Tail(q))
           /\ \A r : Waits(Tail(q), r) <=> Waits(q, r) /\ r # Head(q)
<1>1. /\ Tail(q) \in Seq(S)
      /\ Len(Tail(q)) = Len(q) - 1
      /\ Len(q) \in Nat \ {0}
      /\ Head(q) = q[1]
  OBVIOUS
<1>2. \A i \in 1..Len(Tail(q)) : Tail(q)[i] = q[i + 1]
  OBVIOUS
<1>3. Distinct(Tail(q))
  BY <1>1, <1>2 DEF Distinct
<1>4. ASSUME NEW r, Waits(Tail(q), r)  PROVE Waits(q, r) /\ r # Head(q)
  BY <1>1, <1>2, <1>4 DEF Waits, Distinct
<1>5. ASSUME NEW r, Waits(q, r), r # Head(q)  PROVE Waits(Tail(q), r)
  <2>1. PICK i \in 1..Len(q) : q[i] = r
    BY <1>5 DEF Waits
  <2>2. i # 1 /\ i - 1 \in 1..Len(Tail(q))
    BY <1>1, <1>5, <2>1
  <2> QED
    BY <1>1, <1>2, <2>1, <2>2 DEF Waits
<1> QED
  BY <1>1, <1>3, <1>4, <1>5
----------------------------------------------------------------------------
(* The addressees of the posted closures move as the closures do.          *)
Messages == [request : Requests, reply : Replies]

LEMMA AddresseesType ==
    ASSUME NEW messages \in Seq(Messages)
    PROVE  /\ Addressees(messages) \in Seq(Requests)
           /\ Len(Addressees(messages)) = Len(messages)
<1>1. Len(messages) \in Nat /\ \A i \in 1..Len(messages) : messages[i] \in Messages
  OBVIOUS
<1>2. Addressees(messages) \in [1..Len(messages) -> Requests]
  BY <1>1 DEF Addressees, Messages
<1> QED
  BY <1>1, <1>2

LEMMA AddresseesAppend ==
    ASSUME NEW messages \in Seq(Messages), NEW m \in Messages
    PROVE  Addressees(Append(messages, m)) = Append(Addressees(messages), m.request)
<1> DEFINE more == Append(messages, m)
           old == Addressees(messages)
<1>1. /\ Len(messages) \in Nat
      /\ Len(more) = Len(messages) + 1
      /\ more \in Seq(Messages)
      /\ \A i \in 1..Len(messages) : more[i] = messages[i]
      /\ more[Len(messages) + 1] = m
  OBVIOUS
<1>2. old \in Seq(Requests) /\ Len(old) = Len(messages)
  BY AddresseesType
<1>3. m.request \in Requests
  BY DEF Messages
<1>4. /\ Append(old, m.request) \in Seq(Requests)
      /\ Len(Append(old, m.request)) = Len(messages) + 1
      /\ \A i \in 1..Len(messages) : Append(old, m.request)[i] = old[i]
      /\ Append(old, m.request)[Len(messages) + 1] = m.request
  BY <1>2, <1>3
<1>5. Addressees(more) \in Seq(Requests) /\ Len(Addressees(more)) = Len(messages) + 1
  BY <1>1, AddresseesType
<1>6. \A i \in 1..Len(messages) + 1 : Addressees(more)[i] = Append(old, m.request)[i]
  <2>1. \A i \in 1..Len(messages) : Addressees(more)[i] = messages[i].request
    BY <1>1 DEF Addressees
  <2>2. Addressees(more)[Len(messages) + 1] = m.request
    BY <1>1 DEF Addressees
  <2>3. \A i \in 1..Len(messages) : old[i] = messages[i].request
    BY DEF Addressees
  <2> QED
    BY <1>1, <1>4, <2>1, <2>2, <2>3
<1> HIDE DEF more, old
<1> QED
  BY <1>1, <1>4, <1>5, <1>6 DEF more, old

LEMMA AddresseesTail ==
    ASSUME NEW messages \in Seq(Messages), messages # <<>>
    PROVE  /\ Addressees(messages) # <<>>
           /\ Addressees(Tail(messages)) = Tail(Addressees(messages))
           /\ Head(Addressees(messages)) = Head(messages).request
<1> DEFINE old == Addressees(messages)
<1>1. /\ Len(messages) \in Nat \ {0}
      /\ Tail(messages) \in Seq(Messages)
      /\ Len(Tail(messages)) = Len(messages) - 1
      /\ \A i \in 1..Len(messages) - 1 : Tail(messages)[i] = messages[i + 1]
      /\ Head(messages) = messages[1]
  OBVIOUS
<1>2. old \in Seq(Requests) /\ Len(old) = Len(messages)
  BY AddresseesType
<1>3. /\ old # <<>>
      /\ Tail(old) \in Seq(Requests)
      /\ Len(Tail(old)) = Len(messages) - 1
      /\ \A i \in 1..Len(messages) - 1 : Tail(old)[i] = old[i + 1]
      /\ Head(old) = old[1]
  BY <1>1, <1>2
<1>4. /\ Addressees(Tail(messages)) \in Seq(Requests)
      /\ Len(Addressees(Tail(messages))) = Len(messages) - 1
  BY <1>1, AddresseesType
<1>5. \A i \in 1..Len(messages) - 1 : Addressees(Tail(messages))[i] = Tail(old)[i]
  <2>1. \A i \in 1..Len(messages) - 1 :
            Addressees(Tail(messages))[i] = Tail(messages)[i].request
    BY <1>1 DEF Addressees
  <2>2. \A i \in 1..Len(messages) - 1 : old[i + 1] = messages[i + 1].request
    BY <1>1 DEF Addressees
  <2> QED
    BY <1>1, <1>3, <2>1, <2>2
<1>6. old[1] = messages[1].request
  BY <1>1 DEF Addressees
<1> HIDE DEF old
<1>7. Addressees(Tail(messages)) = Tail(old)
  BY <1>1, <1>3, <1>4, <1>5
<1> QED
  BY <1>1, <1>3, <1>6, <1>7 DEF old
----------------------------------------------------------------------------
(* Types.                                                                  *)

LEMMA PostType ==
    ASSUME NetTypeOK, NEW r \in Requests, NEW reply \in Replies, Post(r, reply)
    PROVE  posted' \in Seq(Messages)
<1>1. posted \in Seq(Messages)
  BY DEF NetTypeOK, Messages
<1>2. Message(r, reply) \in Messages
  BY DEF Message, Messages
<1> QED
  BY <1>1, <1>2 DEF Post

LEMMA TypeInit ==
    ASSUME NetInit
    PROVE  NetTypeOK
<1>1. NoRequest \notin Requests
  BY NetAssumption DEF Requests
<1>2. <<>> \in Seq(QueuedAsApi) /\ <<>> \in Seq(ImageRequests)
      /\ <<>> \in Seq(Requests) /\ <<>> \in Seq([request : Requests, reply : Replies])
  OBVIOUS
<1>3. MaxSpawnFailures \in Nat
  BY NetAssumption
<1>4. /\ worker = At("absent") /\ worker.at = "absent" /\ worker.job = NoRequest
      /\ worker \in [at : {"absent", "looking", "waiting", "taken", "busy",
                            "replying", "ended"},
                      job : Requests \cup {NoRequest}, reply : Replies]
  BY DEF NetInit, At, Replies
<1>5. /\ ui.at = "loop" /\ ui.job = NoRequest
      /\ ui \in [at : {"loop", "dropping", "ensuring", "notifying", "draining",
                        "waking", "taking", "joining", "gone"},
                  job : ImageRequests \cup {NoRequest}]
  BY DEF NetInit, UiAt
<1>6. outcome \in [Requests -> Replies \cup {"none", "refused"}]
  BY DEF NetInit
<1>7. failures \in 0..MaxSpawnFailures
  BY <1>3 DEF NetInit
<1>8. /\ api \in Seq(QueuedAsApi) /\ images \in Seq(ImageRequests)
      /\ posted \in Seq([request : Requests, reply : Replies])
      /\ asked \in Seq(Requests) /\ sent \in Seq(Requests)
  BY <1>2 DEF NetInit
<1>9. /\ configured \in BOOLEAN /\ handlers \subseteq Requests
      /\ shutdown \in BOOLEAN /\ exited \in BOOLEAN /\ thread \in BOOLEAN
      /\ cancelled \subseteq Requests /\ recalled \subseteq cancelled
      /\ interrupted \subseteq cancelled
  BY DEF NetInit
<1> QED
  BY <1>4, <1>5, <1>6, <1>7, <1>8, <1>9 DEF NetTypeOK

LEMMA TypeAsk ==
    ASSUME NetTypeOK, NEW r \in Requests, Ask(r)
    PROVE  NetTypeOK'
<1>1. New(r)
  BY DEF Ask, AskUnconfigured, RefuseLocal, RefuseApi, QueueApi, QueueImage
<1>2. asked' \in Seq(Requests)
  BY <1>1 DEF New, NetTypeOK
<1>3. NoRequest \notin Requests
  BY NetAssumption DEF Requests
<1>4. "cancelled" \in Replies
  BY DEF Replies
<1>5. CASE AskUnconfigured(r)
  <2>1. posted' \in Seq([request : Requests, reply : Replies])
    BY <1>4, <1>5, PostType DEF AskUnconfigured, Messages
  <2> QED
    BY <1>2, <1>5, <2>1 DEF AskUnconfigured, NetTypeOK, queues, progress
<1>6. CASE RefuseLocal(r)
  BY <1>2, <1>6 DEF RefuseLocal, NetTypeOK, queues, marks
<1>7. CASE RefuseApi(r)
  <2>1. posted' \in Seq([request : Requests, reply : Replies])
    BY <1>4, <1>7, PostType DEF RefuseApi, Messages
  <2> QED
    BY <1>2, <1>7, <2>1 DEF RefuseApi, NetTypeOK, queues, progress
<1>8. CASE QueueApi(r)
  <2>1. api' \in Seq(QueuedAsApi)
    BY <1>8 DEF QueueApi, NetTypeOK
  <2> QED
    BY <1>2, <1>8, <2>1 DEF QueueApi, NetTypeOK, progress, UiAt
<1>9. CASE QueueImage(r)
  <2>1. r \in ImageRequests /\ images \in Seq(ImageRequests)
    BY <1>9 DEF QueueImage, NetTypeOK
  <2>2. CASE Len(images) < ImageCap
    <3>1. images' \in Seq(ImageRequests) /\ ui' = UiAt("ensuring")
      BY <1>9, <2>1, <2>2, NetAssumption DEF QueueImage
    <3> QED
      BY <1>2, <1>9, <3>1 DEF QueueImage, NetTypeOK, progress, UiAt
  <2>3. CASE Len(images) >= ImageCap
    <3>1. images # <<>>
      BY <2>1, <2>3, NetAssumption
    <3>2. Head(images) \in ImageRequests /\ Tail(images) \in Seq(ImageRequests)
      BY <2>1, <3>1
    <3>3. images' \in Seq(ImageRequests) /\ ui' = [at |-> "dropping", job |-> Head(images)]
      BY <1>9, <2>1, <2>3, <3>2, NetAssumption DEF QueueImage
    <3>4. Head(images) # NoRequest
      BY <1>3, <3>2 DEF Requests
    <3> QED
      BY <1>2, <1>9, <3>2, <3>3, <3>4 DEF QueueImage, NetTypeOK, progress
  <2> QED
    BY <1>9, <2>2, <2>3 DEF QueueImage
<1> QED
  BY <1>5, <1>6, <1>7, <1>8, <1>9 DEF Ask

LEMMA TypeUi ==
    ASSUME NetTypeOK, UiStep \/ Leave \/ GiveUp \/ \E r \in Requests : Cancel(r)
    PROVE  NetTypeOK'
<1>0. At("looking").at = "looking" /\ At("looking").job = NoRequest
      /\ At("looking") \in [at : {"absent", "looking", "waiting", "taken", "busy",
                                   "replying", "ended"},
                             job : Requests \cup {NoRequest}, reply : Replies]
  BY DEF At, Replies
<1>1. CASE AnswerDropped
  <2>1. ui.job \in Requests /\ "cancelled" \in Replies
    BY <1>1, NetAssumption DEF AnswerDropped, NetTypeOK, Requests, Replies
  <2>2. posted' \in Seq([request : Requests, reply : Replies])
    BY <1>1, <2>1, PostType DEF AnswerDropped, Messages
  <2> QED
    BY <1>1, <2>2 DEF AnswerDropped, NetTypeOK, queues, records, progress, UiAt
<1>2. CASE EnsureThread
  <2>1. failures' \in 0..MaxSpawnFailures
    BY <1>2, NetAssumption DEF EnsureThread, NetTypeOK
  <2>2. worker' = worker \/ worker' = At("looking")
    BY <1>2 DEF EnsureThread
  <2>3. thread' \in BOOLEAN
    BY <1>2 DEF EnsureThread, NetTypeOK
  <2>4. ui' = UiAt("notifying")
    BY <1>2 DEF EnsureThread
  <2> QED
    BY <1>0, <1>2, <2>1, <2>2, <2>3, <2>4
    DEF EnsureThread, NetTypeOK, queues, records, progress, UiAt
<1>3. CASE Notify
  BY <1>0, <1>3 DEF Notify, Woken, NetTypeOK, queues, records, progress, UiAt
<1>4. CASE Deliver
  <2>1. /\ Tail(posted) \in Seq([request : Requests, reply : Replies])
        /\ Head(posted) \in [request : Requests, reply : Replies]
    <3> DEFINE M == [request : Requests, reply : Replies]
    <3>1. posted \in Seq(M) /\ posted # <<>>
      BY <1>4 DEF Deliver, NetTypeOK
    <3> HIDE DEF M
    <3>2. Tail(posted) \in Seq(M) /\ Head(posted) \in M
      BY <3>1
    <3> QED
      BY <3>2 DEF M
  <2>2. outcome' \in [Requests -> Replies \cup {"none", "refused"}]
    BY <1>4, <2>1 DEF Deliver, NetTypeOK
  <2> QED
    BY <1>4, <2>1, <2>2 DEF Deliver, NetTypeOK, queues, marks
<1>5. CASE Drain
  BY <1>5 DEF Drain, NetTypeOK, records, progress, UiAt
<1>6. CASE NotifyAll
  BY <1>0, <1>6 DEF NotifyAll, Woken, NetTypeOK, queues, records, progress, UiAt
<1>7. CASE TakeHandle
  BY <1>7 DEF TakeHandle, NetTypeOK, queues, records, progress, UiAt
<1>8. CASE Join
  BY <1>8 DEF Join, NetTypeOK, queues, records, progress, UiAt
<1>9. CASE Leave
  BY <1>9 DEF Leave, NetTypeOK, queues, UiAt
<1>10. CASE GiveUp
  BY <1>10 DEF GiveUp, NetTypeOK, queues, records, progress, UiAt
<1>11. ASSUME NEW r \in Requests, Cancel(r)  PROVE NetTypeOK'
  BY <1>11 DEF Cancel, NetTypeOK, queues
<1> QED
  BY <1>1, <1>2, <1>3, <1>4, <1>5, <1>6, <1>7, <1>8, <1>9, <1>10, <1>11 DEF UiStep

LEMMA TypeWorker ==
    ASSUME NetTypeOK, WorkerStep \/ WakeSpuriously
    PROVE  NetTypeOK'
<1> DEFINE W == [at : {"absent", "looking", "waiting", "taken", "busy",
                       "replying", "ended"},
                 job : Requests \cup {NoRequest}, reply : Replies]
<1>0. /\ \A place \in {"looking", "waiting", "ended"} :
             At(place) \in W /\ At(place).at = place /\ At(place).job = NoRequest
      /\ \A r \in Requests, place \in {"taken", "busy"} :
             /\ Holding(place, r) \in W
             /\ Holding(place, r).at = place
             /\ Holding(place, r).job = r
      /\ \A r \in Requests, reply \in Replies :
             /\ Replying(r, reply) \in W
             /\ Replying(r, reply).at = "replying"
             /\ Replying(r, reply).job = r
  BY DEF At, Holding, Replying, Replies
<1>9. NoRequest \notin Requests
  BY NetAssumption DEF Requests
<1>1. CASE Exit
  BY <1>0, <1>1 DEF Exit, NetTypeOK, records, progress
<1>2. CASE TakeApi
  <2>1. Head(api) \in Requests /\ Tail(api) \in Seq(QueuedAsApi)
    BY <1>2 DEF TakeApi, NetTypeOK, QueuedAsApi, Requests
  <2> QED
    BY <1>0, <1>2, <1>9, <2>1 DEF TakeApi, NetTypeOK, records, progress
<1>3. CASE TakeImage
  <2>1. Head(images) \in Requests /\ Tail(images) \in Seq(ImageRequests)
    BY <1>3 DEF TakeImage, NetTypeOK, Requests
  <2> QED
    BY <1>0, <1>3, <1>9, <2>1 DEF TakeImage, NetTypeOK, records, progress
<1>4. CASE Wait
  BY <1>0, <1>4 DEF Wait, NetTypeOK, queues, records, progress
<1>5. CASE WakeSpuriously
  BY <1>0, <1>5 DEF WakeSpuriously, NetTypeOK, queues, records, progress
<1>6. CASE Start
  <2>1. worker.job \in Requests /\ "cancelled" \in Replies
    BY <1>6 DEF Start, NetTypeOK, Replies
  <2>2. sent' \in Seq(Requests)
    <3>1. sent \in Seq(Requests) /\ Append(sent, worker.job) \in Seq(Requests)
      BY <2>1 DEF NetTypeOK
    <3> QED
      BY <1>6, <3>1 DEF Start
  <2>3. worker' \in W /\ worker'.job \in Requests /\ worker'.at \in {"busy", "replying"}
    BY <1>0, <1>6, <2>1 DEF Start
  <2> QED
    BY <1>6, <1>9, <2>2, <2>3 DEF Start, NetTypeOK, queues, marks
<1>7. CASE Settle
  <2>1. worker.job \in Requests /\ Settled(worker.job) \in Replies
    BY <1>7 DEF Settle, Settled, NetTypeOK, Replies
  <2>2. worker' \in W /\ worker'.job \in Requests /\ worker'.at = "replying"
    BY <1>0, <1>7, <2>1 DEF Settle
  <2> QED
    BY <1>7, <1>9, <2>2 DEF Settle, NetTypeOK, queues, records, progress
<1>8. CASE Reply
  <2>1. worker.job \in Requests /\ worker.reply \in Replies
    BY <1>8 DEF Reply, NetTypeOK
  <2>2. posted' \in Seq([request : Requests, reply : Replies])
    BY <1>8, <2>1, PostType DEF Reply, Messages
  <2> QED
    BY <1>0, <1>8, <2>2 DEF Reply, NetTypeOK, queues, records, progress
<1> QED
  BY <1>1, <1>2, <1>3, <1>4, <1>5, <1>6, <1>7, <1>8 DEF WorkerStep

LEMMA TypeNext ==
    ASSUME NetTypeOK, [NetNext]_netVars
    PROVE  NetTypeOK'
<1>1. CASE Gone \/ UNCHANGED netVars
  BY <1>1 DEF Gone, netVars, NetTypeOK
<1> QED
  BY <1>1, TypeAsk, TypeUi, TypeWorker DEF NetNext

(* Type correctness of the network worker, for every set of requests and   *)
(* every cap.                                                              *)
THEOREM NetTypeCorrect == NetSpec => []NetTypeOK
  BY TypeInit, TypeNext, PTL DEF NetSpec
----------------------------------------------------------------------------
(* Where the answers are.                                                  *)

(* Steps that move no request keep the account.                            *)
LEMMA SamePlaces ==
    ASSUME Accounted, UNCHANGED <<handlers, api, images, posted, asked>>,
           worker'.job = worker.job, ui'.job = ui.job,
           ~thread' => worker'.at = "absent"
    PROVE  Accounted'
<1>1. Addressees(posted)' = Addressees(posted)
  BY DEF Addressees
<1>2. \A r : /\ Waits(api, r)' <=> Waits(api, r)
             /\ Waits(images, r)' <=> Waits(images, r)
             /\ Waits(asked, r)' <=> Waits(asked, r)
             /\ InPosted(r)' <=> InPosted(r)
             /\ InThread(r)' <=> InThread(r)
             /\ InDropped(r)' <=> InDropped(r)
  BY <1>1 DEF Waits, InPosted, InThread, InDropped
<1>3. Distinct(api)' /\ Distinct(images)' /\ Distinct(Addressees(posted))'
  BY <1>1 DEF Accounted, Distinct
<1> QED
  BY <1>2, <1>3 DEF Accounted, AtMostOnePlace, Somewhere

(* A request that is new is nowhere yet.                                   *)
LEMMA NewIsNowhere ==
    ASSUME NetTypeOK, Accounted, NEW r \in Requests, New(r)
    PROVE  /\ r \notin handlers
           /\ ~Somewhere(r)
           /\ asked \in Seq(Requests)
           /\ \A x : Waits(asked', x) <=> Waits(asked, x) \/ x = r
<1>1. r \notin handlers
  BY DEF New, Accounted
<1>2. ~Somewhere(r)
  BY <1>1 DEF Accounted
<1>3. asked \in Seq(Requests) /\ asked' = Append(asked, r)
  BY DEF NetTypeOK, New
<1> QED
  BY <1>1, <1>2, <1>3, WaitsAppend

LEMMA PostFacts ==
    ASSUME NetTypeOK, Accounted, NEW r \in Requests, NEW reply \in Replies,
           Post(r, reply), ~InPosted(r)
    PROVE  /\ Distinct(Addressees(posted))'
           /\ \A x : InPosted(x)' <=> InPosted(x) \/ x = r
<1>1. posted \in Seq(Messages) /\ Message(r, reply) \in Messages
  BY DEF NetTypeOK, Messages, Message
<1>2. Addressees(posted)' = Append(Addressees(posted), r)
  <2>1. Addressees(posted') = Append(Addressees(posted), Message(r, reply).request)
    BY <1>1, AddresseesAppend DEF Post
  <2> QED
    BY <2>1 DEF Message, Addressees
<1>3. Addressees(posted) \in Seq(Requests)
  BY <1>1, AddresseesType
<1>4. Distinct(Append(Addressees(posted), r))
  BY <1>3, DistinctAppend DEF Accounted, InPosted
<1>5. \A x : Waits(Append(Addressees(posted), r), x) <=>
               Waits(Addressees(posted), x) \/ x = r
  BY <1>3, WaitsAppend
<1>6. \A x : InPosted(x)' <=> Waits(Append(Addressees(posted), r), x)
  BY <1>2 DEF InPosted, Waits
<1>7. Distinct(Addressees(posted))'
  BY <1>2, <1>4 DEF Distinct
<1> QED
  BY <1>5, <1>6, <1>7 DEF InPosted

LEMMA AccountAsk ==
    ASSUME NetTypeOK, QueuesBounded, Accounted, NEW r \in Requests, Ask(r)
    PROVE  Accounted' /\ QueuesBounded'
<1>1. New(r)
  BY DEF Ask, AskUnconfigured, RefuseLocal, RefuseApi, QueueApi, QueueImage
<1>2. /\ r \notin handlers /\ ~Somewhere(r)
      /\ \A x : Waits(asked', x) <=> Waits(asked, x) \/ x = r
  BY <1>1, NewIsNowhere
<1>3. CASE AskUnconfigured(r) \/ RefuseApi(r)
  <2>1. /\ Post(r, "cancelled") /\ handlers' = handlers \cup {r}
        /\ UNCHANGED <<api, images, worker, ui, thread>>
    BY <1>3 DEF AskUnconfigured, RefuseApi, queues
  <2>2. /\ Distinct(Addressees(posted))'
        /\ \A x : InPosted(x)' <=> InPosted(x) \/ x = r
    BY <1>2, <2>1, PostFacts DEF Somewhere, Replies
  <2>3. \A x : /\ Waits(api, x)' <=> Waits(api, x)
               /\ Waits(images, x)' <=> Waits(images, x)
               /\ InThread(x)' <=> InThread(x)
               /\ InDropped(x)' <=> InDropped(x)
    BY <2>1 DEF Waits, InThread, InDropped
  <2>4. Distinct(api)' /\ Distinct(images)'
    BY <2>1 DEF Accounted, Distinct
  <2>5. \A x : Waits(asked, x)' <=> Waits(asked, x) \/ x = r
    BY <1>2 DEF Waits
  <2> QED
    BY <1>2, <2>1, <2>2, <2>3, <2>4, <2>5
    DEF Accounted, AtMostOnePlace, Somewhere, QueuesBounded
<1>4. CASE RefuseLocal(r)
  <2>1. UNCHANGED <<handlers, api, images, worker, ui, thread, posted>>
    BY <1>4 DEF RefuseLocal, queues
  <2>2. Addressees(posted)' = Addressees(posted)
    BY <2>1 DEF Addressees
  <2>3. \A x : /\ Waits(api, x)' <=> Waits(api, x)
               /\ Waits(images, x)' <=> Waits(images, x)
               /\ InThread(x)' <=> InThread(x)
               /\ InDropped(x)' <=> InDropped(x)
               /\ InPosted(x)' <=> InPosted(x)
    BY <2>1, <2>2 DEF Waits, InThread, InDropped, InPosted
  <2>4. Distinct(api)' /\ Distinct(images)' /\ Distinct(Addressees(posted))'
    BY <2>1, <2>2 DEF Accounted, Distinct
  <2>5. \A x : Waits(asked, x)' <=> Waits(asked, x) \/ x = r
    BY <1>2 DEF Waits
  <2> QED
    BY <1>2, <2>1, <2>3, <2>4, <2>5
    DEF Accounted, AtMostOnePlace, Somewhere, QueuesBounded
<1>5. CASE QueueApi(r)
  <2>1. /\ api' = Append(api, r) /\ handlers' = handlers \cup {r}
        /\ UNCHANGED <<images, worker, thread, posted>>
        /\ ui' = UiAt("ensuring") /\ ui.at = "loop"
        /\ Len(api) < ApiCap /\ r \in QueuedAsApi
    BY <1>1, <1>5 DEF QueueApi, New, InEventLoop
  <2>2. api \in Seq(QueuedAsApi)
    BY DEF NetTypeOK
  <2>3. /\ Distinct(api)' /\ Len(api') = Len(api) + 1
        /\ \A x : Waits(api, x)' <=> Waits(api, x) \/ x = r
    <3>1. Distinct(Append(api, r))
      BY <1>2, <2>1, <2>2, DistinctAppend DEF Accounted, Somewhere
    <3>2. /\ Len(Append(api, r)) = Len(api) + 1
          /\ \A x : Waits(Append(api, r), x) <=> Waits(api, x) \/ x = r
      BY <2>1, <2>2, WaitsAppend
    <3>3. Distinct(api)' <=> Distinct(Append(api, r))
      BY <2>1 DEF Distinct
    <3>4. \A x : Waits(api, x)' <=> Waits(Append(api, r), x)
      BY <2>1 DEF Waits
    <3> QED
      BY <2>1, <3>1, <3>2, <3>3, <3>4
  <2>4. Addressees(posted)' = Addressees(posted)
    BY <2>1 DEF Addressees
  <2>5. ui'.job = ui.job
    BY <2>1 DEF UiAt, NetTypeOK
  <2>6. \A x : /\ Waits(images, x)' <=> Waits(images, x)
               /\ InThread(x)' <=> InThread(x)
               /\ InDropped(x)' <=> InDropped(x)
               /\ InPosted(x)' <=> InPosted(x)
    BY <2>1, <2>4, <2>5 DEF Waits, InThread, InDropped, InPosted
  <2>7. Distinct(images)' /\ Distinct(Addressees(posted))'
    BY <2>1, <2>4 DEF Accounted, Distinct
  <2>8. \A x : Waits(asked, x)' <=> Waits(asked, x) \/ x = r
    BY <1>2 DEF Waits
  <2>9. QueuesBounded'
    BY <2>1, <2>2, <2>3, NetAssumption DEF QueuesBounded
  <2> QED
    BY <1>2, <2>1, <2>3, <2>6, <2>7, <2>8, <2>9 DEF Accounted, AtMostOnePlace, Somewhere
<1>6. CASE QueueImage(r)
  <2>1. /\ handlers' = handlers \cup {r}
        /\ UNCHANGED <<api, worker, thread, posted>>
        /\ ui.at = "loop" /\ r \in ImageRequests
    BY <1>1, <1>6 DEF QueueImage, New, InEventLoop
  <2>2. images \in Seq(ImageRequests) /\ Len(images) \in Nat
    BY DEF NetTypeOK
  <2>3. Addressees(posted)' = Addressees(posted)
    BY <2>1 DEF Addressees
  <2>4. \A x : /\ Waits(api, x)' <=> Waits(api, x)
               /\ InThread(x)' <=> InThread(x)
               /\ InPosted(x)' <=> InPosted(x)
    BY <2>1, <2>3 DEF Waits, InThread, InPosted
  <2>5. Distinct(api)' /\ Distinct(Addressees(posted))'
    BY <2>1, <2>3 DEF Accounted, Distinct
  <2>6. \A x : Waits(asked, x)' <=> Waits(asked, x) \/ x = r
    BY <1>2 DEF Waits
  <2>7. ui.job = NoRequest /\ NoRequest \notin Requests /\ ~InDropped(r)
    BY <2>1, NetAssumption DEF NetTypeOK, Requests, InDropped
  <2>8. CASE Len(images) < ImageCap
    <3>1. images' = Append(images, r) /\ ui' = UiAt("ensuring")
      BY <1>6, <2>2, <2>8, NetAssumption DEF QueueImage
    <3>2. /\ Distinct(Append(images, r))
          /\ Len(Append(images, r)) = Len(images) + 1
          /\ \A x : Waits(Append(images, r), x) <=> Waits(images, x) \/ x = r
      BY <1>2, <2>1, <2>2, WaitsAppend, DistinctAppend DEF Accounted, Somewhere
    <3>3. /\ Distinct(images)'
          /\ \A x : Waits(images, x)' <=> Waits(images, x) \/ x = r
      BY <3>1, <3>2 DEF Distinct, Waits
    <3>4. \A x : InDropped(x)' <=> InDropped(x)
      BY <2>7, <3>1 DEF InDropped, UiAt
    <3>5. QueuesBounded'
      BY <2>1, <2>2, <2>8, <3>1, <3>2, NetAssumption DEF QueuesBounded
    <3> QED
      BY <1>2, <2>1, <2>4, <2>5, <2>6, <3>3, <3>4, <3>5
      DEF Accounted, AtMostOnePlace, Somewhere
  <2>9. CASE Len(images) >= ImageCap
    <3>0. images # <<>>
      BY <2>2, <2>9, NetAssumption
    <3>1. images' = Append(Tail(images), r) /\ ui'.job = Head(images)
      BY <1>6, <2>2, <2>9, NetAssumption DEF QueueImage
    <3>2. /\ Tail(images) \in Seq(ImageRequests)
          /\ Len(Tail(images)) = Len(images) - 1
          /\ Distinct(Tail(images))
          /\ \A x : Waits(Tail(images), x) <=> Waits(images, x) /\ x # Head(images)
      BY <2>2, <3>0, WaitsTail DEF Accounted
    <3>3. /\ Distinct(Append(Tail(images), r))
          /\ Len(Append(Tail(images), r)) = Len(images) - 1 + 1
          /\ \A x : Waits(Append(Tail(images), r), x) <=> Waits(Tail(images), x) \/ x = r
      <4> DEFINE t == Tail(images)
      <4>1. t \in Seq(ImageRequests) /\ Distinct(t) /\ Len(t) = Len(images) - 1
        BY <3>2
      <4>2. ~Waits(t, r)
        BY <1>2, <3>2 DEF Somewhere
      <4> HIDE DEF t
      <4>3. /\ Distinct(Append(t, r))
            /\ Len(Append(t, r)) = Len(t) + 1
            /\ \A x : Waits(Append(t, r), x) <=> Waits(t, x) \/ x = r
        BY <2>1, <4>1, <4>2, WaitsAppend, DistinctAppend
      <4> QED
        BY <4>1, <4>3 DEF t
    <3>4. Waits(images, Head(images)) /\ Head(images) \in Requests
      BY <2>2, <3>0, HeadWaits DEF Requests
    <3>5. /\ Distinct(images)'
          /\ \A x : Waits(images, x)' <=> (Waits(images, x) /\ x # Head(images)) \/ x = r
      BY <3>1, <3>2, <3>3 DEF Distinct, Waits
    <3>6. \A x : InDropped(x)' <=> x = Head(images)
      BY <3>1 DEF InDropped
    <3>7. \A x \in Requests : ~InDropped(x)
      BY <2>7 DEF InDropped
    <3>8. QueuesBounded'
      BY <2>1, <2>2, <3>1, <3>3, NetAssumption DEF QueuesBounded
    <3>9. Head(images) # r
      BY <1>2, <3>4 DEF Somewhere
    <3>10. \A x \in Requests : AtMostOnePlace(x)'
      BY <1>2, <2>4, <3>4, <3>5, <3>6, <3>9 DEF Accounted, AtMostOnePlace, Somewhere
    <3>11. \A x \in Requests : x \in handlers' <=> Somewhere(x)'
      BY <1>2, <2>1, <2>4, <3>4, <3>5, <3>6, <3>7 DEF Accounted, Somewhere
    <3>12. \A x \in handlers' : Waits(asked, x)'
      BY <2>1, <2>6 DEF Accounted
    <3>13. ~thread' => worker'.at = "absent"
      BY <2>1 DEF Accounted
    <3> QED
      BY <2>5, <3>5, <3>8, <3>10, <3>11, <3>12, <3>13 DEF Accounted
  <2> QED
    BY <2>2, <2>8, <2>9, NetAssumption
<1> QED
  BY <1>3, <1>4, <1>5, <1>6 DEF Ask

LEMMA AccountTakeApi ==
    ASSUME NetTypeOK, QueuesBounded, Accounted, TakeApi
    PROVE  Accounted' /\ QueuesBounded'
<1>1. /\ api' = Tail(api) /\ api # <<>> /\ worker.at = "looking"
      /\ worker'.job = Head(api) /\ worker'.at = "taken"
      /\ UNCHANGED <<images, posted, ui, handlers, asked, thread>>
  BY DEF TakeApi, Holding, records
<1>2. api \in Seq(QueuedAsApi)
  BY DEF NetTypeOK
<1>3. /\ Head(api) \in Requests /\ Waits(api, Head(api))
      /\ Len(api) \in Nat \ {0}
  BY <1>1, <1>2, HeadWaits DEF Requests, QueuedAsApi
<1>4. /\ Len(Tail(api)) = Len(api) - 1
      /\ Distinct(Tail(api))
      /\ \A x : Waits(Tail(api), x) <=> Waits(api, x) /\ x # Head(api)
  BY <1>1, <1>2, WaitsTail DEF Accounted
<1>5. /\ Distinct(api)'
      /\ \A x : Waits(api, x)' <=> Waits(api, x) /\ x # Head(api)
  BY <1>1, <1>4 DEF Distinct, Waits
<1>6. Addressees(posted)' = Addressees(posted)
  BY <1>1 DEF Addressees
<1>7. /\ Distinct(images)' /\ Distinct(Addressees(posted))'
      /\ \A x : /\ Waits(images, x)' <=> Waits(images, x)
                /\ Waits(asked, x)' <=> Waits(asked, x)
                /\ InPosted(x)' <=> InPosted(x)
                /\ InDropped(x)' <=> InDropped(x)
                /\ InThread(x)' <=> x = Head(api)
  <2>1. Distinct(images)' /\ Distinct(Addressees(posted))'
    BY <1>1, <1>6 DEF Accounted, Distinct
  <2>2. \A x : Waits(images, x)' <=> Waits(images, x)
    BY <1>1 DEF Waits
  <2>3. \A x : Waits(asked, x)' <=> Waits(asked, x)
    BY <1>1 DEF Waits
  <2>4. \A x : InPosted(x)' <=> InPosted(x)
    BY <1>6 DEF InPosted, Waits
  <2>5. \A x : InDropped(x)' <=> InDropped(x)
    BY <1>1 DEF InDropped
  <2>6. \A x : InThread(x)' <=> x = Head(api)
    BY <1>1 DEF InThread
  <2> QED
    BY <2>1, <2>2, <2>3, <2>4, <2>5, <2>6
<1>8. \A x \in Requests : ~InThread(x)
  BY <1>1, NetAssumption DEF NetTypeOK, InThread, Requests
<1>9. QueuesBounded'
  BY <1>1, <1>3, <1>4, NetAssumption DEF QueuesBounded, NetTypeOK
<1>10. thread
  BY <1>1 DEF Accounted
<1>11. ASSUME NEW x \in Requests
       PROVE  AtMostOnePlace(x)' /\ (x \in handlers' <=> Somewhere(x)')
  <2>1. AtMostOnePlace(x) /\ (x \in handlers <=> Somewhere(x)) /\ ~InThread(x)
    BY <1>8 DEF Accounted
  <2>2. CASE x = Head(api)
    <3>1. Waits(api, x)
      BY <1>3, <2>2
    <3> QED
      BY <1>1, <1>5, <1>7, <2>1, <2>2, <3>1 DEF AtMostOnePlace, Somewhere
  <2>3. CASE x # Head(api)
    BY <1>1, <1>5, <1>7, <2>1, <2>3 DEF AtMostOnePlace, Somewhere
  <2> QED
    BY <2>2, <2>3
<1>13. \A x \in handlers' : Waits(asked, x)'
  BY <1>1, <1>7 DEF Accounted
<1> QED
  BY <1>1, <1>5, <1>7, <1>9, <1>10, <1>11, <1>13 DEF Accounted

LEMMA AccountTakeImage ==
    ASSUME NetTypeOK, QueuesBounded, Accounted, TakeImage
    PROVE  Accounted' /\ QueuesBounded'
<1>1. /\ images' = Tail(images) /\ images # <<>> /\ worker.at = "looking"
      /\ worker'.job = Head(images) /\ worker'.at = "taken"
      /\ UNCHANGED <<api, posted, ui, handlers, asked, thread>>
  BY DEF TakeImage, Holding, records
<1>2. images \in Seq(ImageRequests)
  BY DEF NetTypeOK
<1>3. /\ Head(images) \in Requests /\ Waits(images, Head(images))
      /\ Len(images) \in Nat \ {0}
  BY <1>1, <1>2, HeadWaits DEF Requests, QueuedAsApi
<1>4. /\ Len(Tail(images)) = Len(images) - 1
      /\ Distinct(Tail(images))
      /\ \A x : Waits(Tail(images), x) <=> Waits(images, x) /\ x # Head(images)
  BY <1>1, <1>2, WaitsTail DEF Accounted
<1>5. /\ Distinct(images)'
      /\ \A x : Waits(images, x)' <=> Waits(images, x) /\ x # Head(images)
  BY <1>1, <1>4 DEF Distinct, Waits
<1>6. Addressees(posted)' = Addressees(posted)
  BY <1>1 DEF Addressees
<1>7. /\ Distinct(api)' /\ Distinct(Addressees(posted))'
      /\ \A x : /\ Waits(api, x)' <=> Waits(api, x)
                /\ Waits(asked, x)' <=> Waits(asked, x)
                /\ InPosted(x)' <=> InPosted(x)
                /\ InDropped(x)' <=> InDropped(x)
                /\ InThread(x)' <=> x = Head(images)
  <2>1. Distinct(api)' /\ Distinct(Addressees(posted))'
    BY <1>1, <1>6 DEF Accounted, Distinct
  <2>2. \A x : Waits(api, x)' <=> Waits(api, x)
    BY <1>1 DEF Waits
  <2>3. \A x : Waits(asked, x)' <=> Waits(asked, x)
    BY <1>1 DEF Waits
  <2>4. \A x : InPosted(x)' <=> InPosted(x)
    BY <1>6 DEF InPosted, Waits
  <2>5. \A x : InDropped(x)' <=> InDropped(x)
    BY <1>1 DEF InDropped
  <2>6. \A x : InThread(x)' <=> x = Head(images)
    BY <1>1 DEF InThread
  <2> QED
    BY <2>1, <2>2, <2>3, <2>4, <2>5, <2>6
<1>8. \A x \in Requests : ~InThread(x)
  BY <1>1, NetAssumption DEF NetTypeOK, InThread, Requests
<1>9. QueuesBounded'
  BY <1>1, <1>3, <1>4, NetAssumption DEF QueuesBounded, NetTypeOK
<1>10. thread
  BY <1>1 DEF Accounted
<1>11. ASSUME NEW x \in Requests
       PROVE  AtMostOnePlace(x)' /\ (x \in handlers' <=> Somewhere(x)')
  <2>1. AtMostOnePlace(x) /\ (x \in handlers <=> Somewhere(x)) /\ ~InThread(x)
    BY <1>8 DEF Accounted
  <2>2. CASE x = Head(images)
    <3>1. Waits(images, x)
      BY <1>3, <2>2
    <3> QED
      BY <1>1, <1>5, <1>7, <2>1, <2>2, <3>1 DEF AtMostOnePlace, Somewhere
  <2>3. CASE x # Head(images)
    BY <1>1, <1>5, <1>7, <2>1, <2>3 DEF AtMostOnePlace, Somewhere
  <2> QED
    BY <2>2, <2>3
<1>13. \A x \in handlers' : Waits(asked, x)'
  BY <1>1, <1>7 DEF Accounted
<1> QED
  BY <1>1, <1>5, <1>7, <1>9, <1>10, <1>11, <1>13 DEF Accounted

(* An answer becomes a closure: from the UI thread's hand or the worker's. *)
LEMMA AccountPost ==
    ASSUME NetTypeOK, QueuesBounded, Accounted, AnswerDropped \/ Reply
    PROVE  Accounted' /\ QueuesBounded'
<1>1. NoRequest \notin Requests
  BY NetAssumption DEF Requests
<1>2. UNCHANGED <<api, images, handlers, asked, thread>>
  BY DEF AnswerDropped, Reply, queues, records
<1>3. PICK r \in Requests :
        /\ InThread(r) \/ InDropped(r)
        /\ \E reply \in Replies : Post(r, reply)
        /\ \/ /\ r = worker.job /\ worker'.job = NoRequest /\ ui' = ui
               /\ worker.at = "replying"
           \/ r = ui.job /\ ui'.job = NoRequest /\ worker' = worker
  <2>1. CASE AnswerDropped
    <3>1. ui.job \in Requests /\ "cancelled" \in Replies
      BY <2>1 DEF AnswerDropped, NetTypeOK, Requests, Replies
    <3> QED
      BY <2>1, <3>1 DEF AnswerDropped, UiAt, InDropped
  <2>2. CASE Reply
    <3>1. worker.job \in Requests /\ worker.reply \in Replies
      BY <2>2 DEF Reply, NetTypeOK
    <3> QED
      BY <2>2, <3>1 DEF Reply, At, InThread
  <2> QED
    BY <2>1, <2>2
<1>4. ~InPosted(r)
  BY <1>3 DEF Accounted, AtMostOnePlace
<1>5. /\ Distinct(Addressees(posted))'
      /\ \A x : InPosted(x)' <=> InPosted(x) \/ x = r
  BY <1>3, <1>4, PostFacts
<1>6. /\ Distinct(api)' /\ Distinct(images)'
      /\ \A x : /\ Waits(api, x)' <=> Waits(api, x)
                /\ Waits(images, x)' <=> Waits(images, x)
                /\ Waits(asked, x)' <=> Waits(asked, x)
  <2>1. Distinct(api)' /\ Distinct(images)'
    BY <1>2 DEF Accounted, Distinct
  <2> QED
    BY <1>2, <2>1 DEF Waits
<1>7. \A x \in Requests : InThread(x)' \/ InDropped(x)' <=>
                            (InThread(x) \/ InDropped(x)) /\ x # r
  BY <1>1, <1>3 DEF InThread, InDropped, Accounted, AtMostOnePlace
<1>8. \A x \in Requests : (InThread(x)' => InThread(x)) /\ (InDropped(x)' => InDropped(x))
  BY <1>1, <1>3 DEF InThread, InDropped
<1>9. \A x \in Requests : AtMostOnePlace(x)'
  <2> SUFFICES ASSUME NEW x \in Requests  PROVE AtMostOnePlace(x)'
    OBVIOUS
  <2>1. AtMostOnePlace(x)
    BY DEF Accounted
  <2>2. /\ InPosted(x)' <=> InPosted(x) \/ x = r
        /\ Waits(api, x)' <=> Waits(api, x)
        /\ Waits(images, x)' <=> Waits(images, x)
        /\ InThread(x)' \/ InDropped(x)' <=> (InThread(x) \/ InDropped(x)) /\ x # r
        /\ InThread(x)' => InThread(x)
        /\ InDropped(x)' => InDropped(x)
    BY <1>5, <1>6, <1>7, <1>8
  <2>3. CASE x = r
    <3>1. InThread(x) \/ InDropped(x)
      BY <1>3, <2>3
    <3> QED
      BY <2>1, <2>2, <2>3, <3>1 DEF AtMostOnePlace
  <2>4. CASE x # r
    BY <2>1, <2>2, <2>4 DEF AtMostOnePlace
  <2> QED
    BY <2>3, <2>4
<1>10. \A x \in Requests : x \in handlers' <=> Somewhere(x)'
  BY <1>2, <1>3, <1>5, <1>6, <1>7 DEF Accounted, Somewhere
<1>11. ~thread' => worker'.at = "absent"
  BY <1>2, <1>3 DEF Accounted
<1>12. QueuesBounded'
  BY <1>2 DEF QueuesBounded
<1>13. \A x \in handlers' : Waits(asked, x)'
  BY <1>2, <1>6 DEF Accounted
<1> QED
  BY <1>5, <1>6, <1>9, <1>10, <1>11, <1>12, <1>13 DEF Accounted

LEMMA AccountDeliver ==
    ASSUME NetTypeOK, QueuesBounded, Accounted, Deliver
    PROVE  Accounted' /\ QueuesBounded'
<1> DEFINE r == Head(posted).request
<1>1. /\ posted \in Seq(Messages) /\ posted # <<>> /\ posted' = Tail(posted)
      /\ handlers' = handlers \ {r}
      /\ UNCHANGED <<api, images, asked, thread, worker, ui>>
  BY DEF Deliver, NetTypeOK, Messages, queues
<1>2. /\ Addressees(posted) \in Seq(Requests) /\ Addressees(posted) # <<>>
      /\ Addressees(posted') = Tail(Addressees(posted))
      /\ Head(Addressees(posted)) = r
  BY <1>1, AddresseesType, AddresseesTail
<1> HIDE DEF r
<1>3. /\ Distinct(Addressees(posted'))
      /\ \A x : Waits(Addressees(posted'), x) <=> Waits(Addressees(posted), x) /\ x # r
  <2> DEFINE a == Addressees(posted)
  <2>1. a \in Seq(Requests) /\ a # <<>> /\ Distinct(a) /\ Head(a) = r
    BY <1>2 DEF Accounted
  <2> HIDE DEF a
  <2>2. Distinct(Tail(a)) /\ \A x : Waits(Tail(a), x) <=> Waits(a, x) /\ x # r
    BY <2>1, WaitsTail
  <2> QED
    BY <1>2, <2>2 DEF a
<1>4. r \in Requests /\ InPosted(r)
  BY <1>2, HeadWaits DEF InPosted
<1>5. /\ Distinct(Addressees(posted))'
      /\ \A x : InPosted(x)' <=> InPosted(x) /\ x # r
  BY <1>3 DEF Addressees, InPosted
<1>6. /\ Distinct(api)' /\ Distinct(images)' /\ QueuesBounded'
      /\ \A x : /\ Waits(api, x)' <=> Waits(api, x)
                /\ Waits(images, x)' <=> Waits(images, x)
                /\ Waits(asked, x)' <=> Waits(asked, x)
                /\ InThread(x)' <=> InThread(x)
                /\ InDropped(x)' <=> InDropped(x)
  <2>1. Distinct(api)' /\ Distinct(images)' /\ QueuesBounded'
    BY <1>1 DEF Accounted, Distinct, QueuesBounded
  <2>2. \A x : Waits(asked, x)' <=> Waits(asked, x)
    BY <1>1 DEF Waits
  <2>3. \A x : /\ Waits(api, x)' <=> Waits(api, x)
               /\ Waits(images, x)' <=> Waits(images, x)
    BY <1>1 DEF Waits
  <2>4. \A x : /\ InThread(x)' <=> InThread(x)
               /\ InDropped(x)' <=> InDropped(x)
    BY <1>1 DEF InThread, InDropped
  <2> QED
    BY <2>1, <2>2, <2>3, <2>4
<1>7. ASSUME NEW x \in Requests
      PROVE  AtMostOnePlace(x)' /\ (x \in handlers' <=> Somewhere(x)')
  <2>1. AtMostOnePlace(x) /\ (x \in handlers <=> Somewhere(x))
    BY DEF Accounted
  <2>2. CASE x = r
    <3>1. InPosted(x)
      BY <1>4, <2>2
    <3> QED
      BY <1>1, <1>5, <1>6, <2>1, <2>2, <3>1 DEF AtMostOnePlace, Somewhere
  <2>3. CASE x # r
    BY <1>1, <1>5, <1>6, <2>1, <2>3 DEF AtMostOnePlace, Somewhere
  <2> QED
    BY <2>2, <2>3
<1>9. \A x \in handlers' : Waits(asked, x)'
  BY <1>1, <1>6 DEF Accounted
<1>10. ~thread' => worker'.at = "absent"
  BY <1>1 DEF Accounted
<1> QED
  BY <1>5, <1>6, <1>7, <1>9, <1>10 DEF Accounted

(* The worker's own steps and the wakeups leave the request where it is.   *)
LEMMA AccountStays ==
    ASSUME NetTypeOK, QueuesBounded, Accounted,
           \/ EnsureThread \/ Notify \/ Exit \/ Wait \/ WakeSpuriously
           \/ Start \/ Settle \/ Gone \/ UNCHANGED netVars
           \/ \E r \in Requests : Cancel(r)
    PROVE  Accounted' /\ QueuesBounded'
<1>1. UNCHANGED <<handlers, api, images, posted, asked>>
  BY DEF EnsureThread, Notify, Exit, Wait, WakeSpuriously, Start, Settle, Cancel,
         Gone, netVars, queues, records
<1>2. ui'.job = ui.job
  BY DEF EnsureThread, Notify, Exit, Wait, WakeSpuriously, Start, Settle, Cancel,
         Gone, netVars, NetTypeOK, UiAt
<1>3. worker'.job = worker.job /\ (~thread' => worker'.at = "absent")
  <2>1. CASE EnsureThread
    BY <2>1 DEF EnsureThread, At, Accounted, NetTypeOK
  <2>2. CASE Notify
    BY <2>2 DEF Notify, Woken, At, Accounted, NetTypeOK
  <2>3. CASE Exit
    BY <2>3 DEF Exit, At, Accounted, NetTypeOK
  <2>4. CASE Wait \/ WakeSpuriously
    BY <2>4 DEF Wait, WakeSpuriously, At, Accounted, NetTypeOK
  <2>5. CASE Start \/ Settle
    BY <2>5 DEF Start, Settle, Holding, Replying, Accounted
  <2>6. CASE Gone \/ UNCHANGED netVars \/ \E r \in Requests : Cancel(r)
    BY <2>6 DEF Gone, netVars, Cancel, Accounted
  <2> QED
    BY <2>1, <2>2, <2>3, <2>4, <2>5, <2>6
<1> QED
  BY <1>1, <1>2, <1>3, SamePlaces DEF QueuesBounded
----------------------------------------------------------------------------
(* While the application leaves, only the bounds matter.                   *)
LEMMA Departure ==
    ASSUME NetTypeOK, QueuesBounded, NetNext, Leaving
    PROVE  QueuesBounded' /\ Leaving'
<1>1. ~InEventLoop /\ \A r : ~New(r)
  BY DEF Leaving, InEventLoop, New
<1>2. \A r \in Requests : ~Ask(r) /\ ~Cancel(r)
  BY <1>1 DEF Ask, AskUnconfigured, RefuseLocal, RefuseApi, QueueApi, QueueImage, Cancel
<1>3. CASE UiStep
  <2>1. CASE Drain
    BY <2>1, NetAssumption DEF Drain, QueuesBounded, Leaving, UiAt
  <2>2. CASE NotifyAll \/ TakeHandle \/ Join
    BY <2>2 DEF NotifyAll, TakeHandle, Join, QueuesBounded, Leaving, UiAt, queues
  <2> QED
    BY <1>1, <1>3, <2>1, <2>2
    DEF UiStep, AnswerDropped, EnsureThread, Notify, Deliver, Leaving
<1>4. CASE WorkerStep
  <2>1. CASE TakeApi
    <3>1. api \in Seq(QueuedAsApi) /\ api # <<>> /\ api' = Tail(api)
          /\ UNCHANGED <<images, ui>>
      BY <2>1 DEF TakeApi, NetTypeOK
    <3>2. Len(api) \in Nat /\ Len(api') = Len(api) - 1
      BY <3>1
    <3> QED
      BY <3>1, <3>2, NetAssumption DEF QueuesBounded, Leaving
  <2>2. CASE TakeImage
    <3>1. images \in Seq(ImageRequests) /\ images # <<>> /\ images' = Tail(images)
          /\ UNCHANGED <<api, ui>>
      BY <2>2 DEF TakeImage, NetTypeOK
    <3>2. Len(images) \in Nat /\ Len(images') = Len(images) - 1
      BY <3>1
    <3> QED
      BY <3>1, <3>2, NetAssumption DEF QueuesBounded, Leaving
  <2>3. CASE Exit \/ Wait \/ Start \/ Settle \/ Reply
    BY <2>3 DEF Exit, Wait, Start, Settle, Reply, queues, QueuesBounded, Leaving
  <2> QED
    BY <1>4, <2>1, <2>2, <2>3 DEF WorkerStep
<1>5. CASE WakeSpuriously \/ GiveUp \/ Gone
  BY <1>5 DEF WakeSpuriously, GiveUp, Gone, netVars, queues, QueuesBounded, Leaving, UiAt
<1>6. ~Leave
  BY <1>1 DEF Leave
<1> QED
  BY <1>2, <1>3, <1>4, <1>5, <1>6 DEF NetNext

LEMMA AccountInit ==
    ASSUME NetInit
    PROVE  NetIInv
<1>1. NetTypeOK
  BY TypeInit
<1>2. QueuesBounded
  BY NetAssumption DEF NetInit, QueuesBounded
<1>3. Addressees(posted) \in Seq(Requests) /\ Len(Addressees(posted)) = 0
  <2>1. posted \in Seq(Messages) /\ Len(posted) = 0
    BY DEF NetInit
  <2> QED
    BY <2>1, AddresseesType
<1>4. NoRequest \notin Requests
  BY NetAssumption DEF Requests
<1>5. \A x \in Requests : ~Somewhere(x)
  BY <1>3, <1>4
  DEF NetInit, Somewhere, Waits, InPosted, InThread, InDropped, At, UiAt
<1>6. Distinct(api) /\ Distinct(images) /\ Distinct(Addressees(posted))
  BY <1>3 DEF NetInit, Distinct
<1>7. \A x \in Requests : AtMostOnePlace(x)
  BY <1>5 DEF AtMostOnePlace, Somewhere
<1> QED
  BY <1>1, <1>2, <1>5, <1>6, <1>7 DEF NetIInv, Accounted, NetInit, At

LEMMA AccountNext ==
    ASSUME NetIInv, [NetNext]_netVars
    PROVE  NetIInv'
<1>1. NetTypeOK'
  BY TypeNext DEF NetIInv
<1>2. CASE Leaving
  <2>1. CASE UNCHANGED netVars
    BY <1>1, <1>2, <2>1 DEF NetIInv, netVars, QueuesBounded, Leaving
  <2>2. CASE NetNext
    BY <1>1, <1>2, <2>2, Departure DEF NetIInv
  <2> QED
    BY <2>1, <2>2
<1>3. CASE ~Leaving
  <2>1. NetTypeOK /\ QueuesBounded /\ Accounted
    BY <1>3 DEF NetIInv
  <2>2. CASE Leave
    BY <1>1, <2>1, <2>2 DEF Leave, queues, QueuesBounded, Leaving, UiAt, NetIInv
  <2>3. ~Drain /\ ~NotifyAll /\ ~TakeHandle /\ ~Join /\ ~GiveUp
    BY <1>3 DEF Leaving, Drain, NotifyAll, TakeHandle, Join, GiveUp
  <2>4. CASE \E r \in Requests : Ask(r)
    BY <1>1, <2>1, <2>4, AccountAsk DEF NetIInv
  <2>5. CASE TakeApi \/ TakeImage \/ AnswerDropped \/ Reply \/ Deliver
    BY <1>1, <2>1, <2>5, AccountTakeApi, AccountTakeImage, AccountPost, AccountDeliver
    DEF NetIInv
  <2>6. CASE \/ EnsureThread \/ Notify \/ Exit \/ Wait \/ WakeSpuriously
             \/ Start \/ Settle \/ Gone \/ UNCHANGED netVars
             \/ \E r \in Requests : Cancel(r)
    BY <1>1, <2>1, <2>6, AccountStays DEF NetIInv
  <2> QED
    BY <2>2, <2>3, <2>4, <2>5, <2>6 DEF NetNext, UiStep, WorkerStep
<1> QED
  BY <1>2, <1>3

LEMMA SpecNetIInv == NetSpec => []NetIInv
  BY AccountInit, AccountNext, PTL DEF NetSpec
----------------------------------------------------------------------------
(* One place and no other, counted.                                        *)
LEMMA PlacesCounted ==
    ASSUME NetTypeOK, Accounted, NEW r \in Requests
    PROVE  Cardinality(AnswerPlaces(r)) = IF r \in handlers THEN 1 ELSE 0
<1> DEFINE inApi == {"api"} \X Positions(api, r)
           inImages == {"images"} \X Positions(images, r)
           inPosted == {"posted"} \X {i \in 1..Len(posted) : posted[i].request = r}
           inThread == {<<"thread", 0>> : t \in {t \in {worker} : t.job = r}}
           inDropped == {<<"dropped", 0>> : t \in {t \in {ui} : t.job = r}}
<1>1. AnswerPlaces(r) = inApi \cup inImages \cup inPosted \cup inThread \cup inDropped
  BY DEF AnswerPlaces
<1>2. /\ ~Waits(api, r) => inApi = {}
      /\ Waits(api, r) => \E p : inApi = {p}
  <2>1. \A i, j \in Positions(api, r) : i = j
    BY DEF Positions, Accounted, Distinct
  <2>2. ~Waits(api, r) => Positions(api, r) = {}
    BY DEF Positions, Waits
  <2>3. Waits(api, r) => \E i : Positions(api, r) = {i}
    BY <2>1 DEF Positions, Waits
  <2>4. \A i : Positions(api, r) = {i} => inApi = {<<"api", i>>}
    OBVIOUS
  <2> QED
    BY <2>2, <2>3, <2>4
<1>3. /\ ~Waits(images, r) => inImages = {}
      /\ Waits(images, r) => \E p : inImages = {p}
  <2>1. \A i, j \in Positions(images, r) : i = j
    BY DEF Positions, Accounted, Distinct
  <2>2. ~Waits(images, r) => Positions(images, r) = {}
    BY DEF Positions, Waits
  <2>3. Waits(images, r) => \E i : Positions(images, r) = {i}
    BY <2>1 DEF Positions, Waits
  <2>4. \A i : Positions(images, r) = {i} => inImages = {<<"images", i>>}
    OBVIOUS
  <2> QED
    BY <2>2, <2>3, <2>4
<1>4. /\ ~InPosted(r) => inPosted = {}
      /\ InPosted(r) => \E p : inPosted = {p}
  <2> DEFINE P == {i \in 1..Len(posted) : posted[i].request = r}
  <2>0. posted \in Seq(Messages)
    BY DEF NetTypeOK, Messages
  <2>1. /\ Len(Addressees(posted)) = Len(posted)
        /\ \A i \in 1..Len(posted) : Addressees(posted)[i] = posted[i].request
    BY <2>0, AddresseesType DEF Addressees
  <2>2. \A i, j \in P : i = j
    BY <2>1 DEF Accounted, Distinct
  <2>3. ~InPosted(r) => P = {}
    BY <2>1 DEF InPosted, Waits
  <2>4. InPosted(r) => \E i : P = {i}
    <3>1. InPosted(r) => \E i : i \in P
      BY <2>1 DEF InPosted, Waits
    <3> HIDE DEF P
    <3> QED
      BY <2>2, <3>1
  <2> HIDE DEF P
  <2>5. \A i : P = {i} => {"posted"} \X P = {<<"posted", i>>}
    OBVIOUS
  <2>6. inPosted = {"posted"} \X P
    BY DEF P
  <2> QED
    BY <2>3, <2>4, <2>5, <2>6
<1>5. /\ ~InThread(r) => inThread = {}
      /\ InThread(r) => inThread = {<<"thread", 0>>}
  BY DEF InThread
<1>6. /\ ~InDropped(r) => inDropped = {}
      /\ InDropped(r) => inDropped = {<<"dropped", 0>>}
  BY DEF InDropped
<1> HIDE DEF inApi, inImages, inPosted, inThread, inDropped
<1>7. AtMostOnePlace(r) /\ (r \in handlers <=> Somewhere(r))
  BY DEF Accounted
<1>8. CASE r \notin handlers
  <2>1. AnswerPlaces(r) = {}
    BY <1>1, <1>2, <1>3, <1>4, <1>5, <1>6, <1>7, <1>8 DEF Somewhere
  <2> QED
    BY <1>8, <2>1, FS_EmptySet
<1>9. CASE r \in handlers
  <2>1. \E p : AnswerPlaces(r) = {p}
    <3>1. CASE Waits(api, r)
      BY <1>1, <1>2, <1>3, <1>4, <1>5, <1>6, <1>7, <3>1 DEF AtMostOnePlace
    <3>2. CASE Waits(images, r)
      BY <1>1, <1>2, <1>3, <1>4, <1>5, <1>6, <1>7, <3>2 DEF AtMostOnePlace
    <3>3. CASE InThread(r)
      BY <1>1, <1>2, <1>3, <1>4, <1>5, <1>6, <1>7, <3>3 DEF AtMostOnePlace
    <3>4. CASE InDropped(r)
      BY <1>1, <1>2, <1>3, <1>4, <1>5, <1>6, <1>7, <3>4 DEF AtMostOnePlace
    <3>5. CASE InPosted(r)
      BY <1>1, <1>2, <1>3, <1>4, <1>5, <1>6, <1>7, <3>5 DEF AtMostOnePlace
    <3> QED
      BY <1>7, <1>9, <3>1, <3>2, <3>3, <3>4, <3>5 DEF Somewhere
  <2> QED
    BY <1>9, <2>1, FS_Singleton
<1> QED
  BY <1>8, <1>9

(* Neither queue outgrows its cap, whatever the caps are.                  *)
THEOREM QueuesStayBounded == NetSpec => []QueuesBounded
<1>1. NetIInv => QueuesBounded
  BY DEF NetIInv
<1> QED
  BY <1>1, SpecNetIInv, PTL

(* Every registered handler has exactly one answer on its way and nobody   *)
(* else has any, until the student quits.                                  *)
THEOREM NobodyForgotten == NetSpec => []EveryHandlerHasOneAnswer
<1>1. NetIInv => EveryHandlerHasOneAnswer
  BY PlacesCounted DEF NetIInv, EveryHandlerHasOneAnswer
<1> QED
  BY <1>1, SpecNetIInv, PTL
----------------------------------------------------------------------------
(* What goes out, goes out in turn.  A request precedes another when it    *)
(* was asked for first; the invariant follows a request from its queue     *)
(* through the worker's hands to the wire, and every one ahead of it       *)
(* precedes it.  It holds while the application leaves as well.            *)

Precedes(q, a, b) ==
    \E k, l \in 1..Len(q) : k < l /\ q[k] = a /\ q[l] = b

Ordered(q, s) == \A i, j \in 1..Len(q) : i < j => Precedes(s, q[i], q[j])

(* Everybody in the queue r goes through comes after r.                    *)
AheadOfItsQueue(r) ==
    \A x \in Requests :
        /\ r \notin ImageRequests /\ Waits(api, x) => Precedes(asked, r, x)
        /\ r \in ImageRequests /\ Waits(images, x) => Precedes(asked, r, x)

Taken(r) == worker.at = "taken" /\ worker.job = r

Lined ==
    /\ Ordered(api, asked)
    /\ Ordered(images, asked)
    /\ \A r \in Requests : Waits(sent, r) \/ Taken(r) => AheadOfItsQueue(r)
    /\ \A a, r \in Requests :
           Waits(sent, a) /\ Taken(r) /\ SameQueue(a, r) => Precedes(asked, a, r)
    /\ InTurn

(* Who was ever asked for: nobody else is queued, taken, sent or told.     *)
Known ==
    \A r \in Requests :
        \/ Waits(api, r) \/ Waits(images, r) \/ InThread(r) \/ Waits(sent, r)
        \/ outcome[r] # "none"
        => Waits(asked, r)

(* A result comes off the wire, and none for whom the token stopped.       *)
ResultPosted(r) == Waits(posted, Message(r, "result"))
ResultInHand(r) ==
    worker.at = "replying" /\ worker.reply = "result" /\ worker.job = r

FromTheWire ==
    /\ worker.at = "busy" => Waits(sent, worker.job)
    /\ \A r \in Requests :
           ResultInHand(r) \/ ResultPosted(r) \/ outcome[r] = "result" =>
               Waits(sent, r)

Stopped ==
    /\ (recalled \cup interrupted) \cap LocalJobs = {}
    /\ \A r \in recalled : ~Waits(sent, r)
    /\ \A r \in interrupted :
           ~ResultInHand(r) /\ ~ResultPosted(r) /\ outcome[r] # "result"

(* Until the student quits: what waits has not been sent, and a handler    *)
(* was told nothing yet.                                                   *)
NotYet ==
    /\ \A r \in Unstarted : ~Waits(sent, r)
    /\ \A r \in handlers : outcome[r] = "none"

SentIInv == Known /\ Lined /\ FromTheWire /\ Stopped /\ (~Leaving => NotYet)
----------------------------------------------------------------------------
(* The order of a queue, after one more and after its head went.           *)

LEMMA PrecedesAppend ==
    ASSUME NEW S, NEW q \in Seq(S), NEW x \in S
    PROVE  /\ \A a, b : Precedes(q, a, b) => Precedes(Append(q, x), a, b)
           /\ \A a : Waits(q, a) => Precedes(Append(q, x), a, x)
<1>1. /\ Len(q) \in Nat /\ Len(Append(q, x)) = Len(q) + 1
      /\ \A i \in 1..Len(q) : Append(q, x)[i] = q[i]
      /\ Append(q, x)[Len(q) + 1] = x
  OBVIOUS
<1>2. ASSUME NEW a, NEW b, Precedes(q, a, b)  PROVE Precedes(Append(q, x), a, b)
  BY <1>1, <1>2 DEF Precedes
<1>3. ASSUME NEW a, Waits(q, a)  PROVE Precedes(Append(q, x), a, x)
  BY <1>1, <1>3 DEF Precedes, Waits
<1> QED
  BY <1>2, <1>3

LEMMA OrderedAppend ==
    ASSUME NEW S, NEW q \in Seq(S), NEW x \in S, NEW s, Ordered(q, s),
           \A a : Waits(q, a) => Precedes(s, a, x)
    PROVE  Ordered(Append(q, x), s)
<1>1. /\ Len(q) \in Nat /\ Len(Append(q, x)) = Len(q) + 1
      /\ \A i \in 1..Len(q) : Append(q, x)[i] = q[i]
      /\ Append(q, x)[Len(q) + 1] = x
  OBVIOUS
<1> SUFFICES ASSUME NEW i \in 1..Len(q) + 1, NEW j \in 1..Len(q) + 1, i < j
             PROVE  Precedes(s, Append(q, x)[i], Append(q, x)[j])
  BY <1>1 DEF Ordered
<1>2. i \in 1..Len(q)
  BY <1>1
<1>3. CASE j = Len(q) + 1
  BY <1>1, <1>2, <1>3 DEF Waits
<1>4. CASE j # Len(q) + 1
  BY <1>1, <1>2, <1>4 DEF Ordered
<1> QED
  BY <1>3, <1>4

LEMMA OrderedTail ==
    ASSUME NEW S, NEW q \in Seq(S), NEW s, q # <<>>, Ordered(q, s)
    PROVE  /\ Tail(q) \in Seq(S)
           /\ Ordered(Tail(q), s)
           /\ \A x : Waits(Tail(q), x) => Waits(q, x) /\ Precedes(s, Head(q), x)
<1>1. /\ Tail(q) \in Seq(S)
      /\ Len(Tail(q)) = Len(q) - 1
      /\ Len(q) \in Nat \ {0}
      /\ Head(q) = q[1]
  OBVIOUS
<1>2. \A i \in 1..Len(Tail(q)) : Tail(q)[i] = q[i + 1]
  OBVIOUS
<1>3. Ordered(Tail(q), s)
  BY <1>1, <1>2 DEF Ordered
<1>4. ASSUME NEW x, Waits(Tail(q), x)  PROVE Waits(q, x) /\ Precedes(s, Head(q), x)
  <2>1. PICK i \in 1..Len(Tail(q)) : q[i + 1] = x
    BY <1>2, <1>4 DEF Waits
  <2>2. 1 \in 1..Len(q) /\ i + 1 \in 1..Len(q) /\ 1 < i + 1
    BY <1>1
  <2> QED
    BY <1>1, <2>1, <2>2 DEF Waits, Ordered
<1> QED
  BY <1>1, <1>3, <1>4

LEMMA OrderedEmpty == \A s : Ordered(<<>>, s) /\ \A r : ~Waits(<<>>, r)
  BY DEF Ordered, Waits

(* A longer history orders whatever the shorter one ordered.               *)
LEMMA LinedInLongerHistory ==
    ASSUME Lined,
           \A a, b : Precedes(asked, a, b) => Precedes(asked', a, b),
           UNCHANGED <<api, images, sent>>,
           \A r \in Requests : Taken(r)' => Taken(r)
    PROVE  Lined'
<1>1. Ordered(api, asked)' /\ Ordered(images, asked)'
  BY DEF Lined, Ordered
<1>2. \A r : /\ Waits(api, r)' <=> Waits(api, r)
             /\ Waits(images, r)' <=> Waits(images, r)
             /\ Waits(sent, r)' <=> Waits(sent, r)
  BY DEF Waits
<1>3. \A r \in Requests : AheadOfItsQueue(r) => AheadOfItsQueue(r)'
  BY <1>2 DEF AheadOfItsQueue
<1>4. \A r \in Requests : Waits(sent, r)' \/ Taken(r)' => AheadOfItsQueue(r)'
  BY <1>2, <1>3 DEF Lined
<1>5. \A a, r \in Requests :
          Waits(sent, a)' /\ Taken(r)' /\ SameQueue(a, r) => Precedes(asked', a, r)
  BY <1>2 DEF Lined
<1>6. InTurn'
  <2>1. \A i, j \in 1..Len(sent) :
            i < j /\ SameQueue(sent[i], sent[j]) => Precedes(asked, sent[i], sent[j])
    BY DEF Lined, InTurn, Precedes
  <2>2. \A i, j \in 1..Len(sent) :
            i < j /\ SameQueue(sent[i], sent[j]) => Precedes(asked', sent[i], sent[j])
    BY <2>1
  <2> QED
    BY <2>2 DEF InTurn, Precedes, SameQueue
<1> QED
  BY <1>1, <1>4, <1>5, <1>6 DEF Lined, SameQueue

(* A new request goes to the end of its queue, behind everybody known.     *)
LEMMA LinedAsk ==
    ASSUME NetTypeOK, Known, Lined, NEW r \in Requests, Ask(r)
    PROVE  Lined'
<1>1. /\ asked \in Seq(Requests) /\ asked' = Append(asked, r)
      /\ worker' = worker /\ sent' = sent
      /\ api \in Seq(QueuedAsApi) /\ images \in Seq(ImageRequests)
  BY DEF Ask, AskUnconfigured, RefuseLocal, RefuseApi, QueueApi, QueueImage, New,
         NetTypeOK, progress
<1>2. /\ \A a, b : Precedes(asked, a, b) => Precedes(asked', a, b)
      /\ \A a : Waits(asked, a) => Precedes(asked', a, r)
  BY <1>1, PrecedesAppend
<1>3. \A x : Taken(x)' <=> Taken(x)
  BY <1>1 DEF Taken
<1>4. CASE UNCHANGED <<api, images>>
  BY <1>1, <1>2, <1>3, <1>4, LinedInLongerHistory
<1>5. \A x \in Requests : Waits(sent, x) \/ Taken(x) => Precedes(asked', x, r)
  BY <1>2 DEF Known, Taken, InThread
<1>6. \A i, j \in 1..Len(sent) :
          i < j /\ SameQueue(sent[i], sent[j]) => Precedes(asked', sent[i], sent[j])
  <2>1. \A i, j \in 1..Len(sent) :
            i < j /\ SameQueue(sent[i], sent[j]) => Precedes(asked, sent[i], sent[j])
    BY DEF Lined, InTurn, Precedes
  <2> QED
    BY <1>2, <2>1
<1>7. InTurn'
  BY <1>1, <1>6 DEF InTurn, Precedes, SameQueue
<1>8. \A x : Waits(sent, x)' <=> Waits(sent, x)
  BY <1>1 DEF Waits
<1>9. \A a, x \in Requests :
          Waits(sent, a)' /\ Taken(x)' /\ SameQueue(a, x) => Precedes(asked', a, x)
  BY <1>2, <1>3, <1>8 DEF Lined
<1>10. CASE QueueApi(r)
  <2>1. r \in QueuedAsApi /\ api' = Append(api, r) /\ images' = images
    BY <1>10 DEF QueueApi
  <2>2. \A x : Waits(api, x) => x \in Requests /\ Precedes(asked', x, r)
    <3>1. \A x : Waits(api, x) => x \in Requests
      BY <1>1 DEF Waits, QueuedAsApi, Requests
    <3> QED
      BY <1>2, <3>1 DEF Known
  <2>3. Ordered(api, asked') /\ Ordered(images, asked')
    BY <1>2 DEF Lined, Ordered
  <2>4. Ordered(api', asked')
    BY <1>1, <2>1, <2>2, <2>3, OrderedAppend
  <2>5. /\ \A x : Waits(api', x) <=> Waits(api, x) \/ x = r
        /\ \A x : Waits(images', x) <=> Waits(images, x)
    BY <1>1, <2>1, WaitsAppend
  <2>6. \A x \in Requests : Waits(sent, x)' \/ Taken(x)' => AheadOfItsQueue(x)'
    <3> SUFFICES ASSUME NEW x \in Requests, Waits(sent, x) \/ Taken(x)
                 PROVE  AheadOfItsQueue(x)'
      BY <1>3, <1>8
    <3>1. AheadOfItsQueue(x) /\ Precedes(asked', x, r)
      BY <1>5 DEF Lined
    <3>2. \A y \in Requests :
              /\ x \notin ImageRequests /\ Waits(api', y) => Precedes(asked', x, y)
              /\ x \in ImageRequests /\ Waits(images', y) => Precedes(asked', x, y)
      BY <1>2, <2>5, <3>1 DEF AheadOfItsQueue
    <3> QED
      BY <3>2 DEF AheadOfItsQueue, Waits, Precedes
  <2>7. Ordered(api, asked)' /\ Ordered(images, asked)'
    BY <2>1, <2>3, <2>4 DEF Ordered
  <2> QED
    BY <1>7, <1>9, <2>6, <2>7 DEF Lined, SameQueue
<1>11. CASE QueueImage(r)
  <2>1. /\ r \in ImageRequests /\ api' = api
        /\ \/ images' = Append(images, r)
           \/ images # <<>> /\ images' = Append(Tail(images), r)
    <3>1. Len(images) >= ImageCap => images # <<>>
      BY <1>1, NetAssumption
    <3> QED
      BY <1>11, <3>1 DEF QueueImage
  <2>2. \A x : Waits(images, x) => x \in Requests /\ Precedes(asked', x, r)
    <3>1. \A x : Waits(images, x) => x \in Requests
      BY <1>1 DEF Waits, Requests
    <3> QED
      BY <1>2, <3>1 DEF Known
  <2>3. Ordered(api, asked') /\ Ordered(images, asked')
    BY <1>2 DEF Lined, Ordered
  <2>4. /\ Ordered(images', asked')
        /\ \A x : Waits(images', x) => Waits(images, x) \/ x = r
    <3>1. CASE images' = Append(images, r)
      BY <1>1, <2>1, <2>2, <2>3, <3>1, OrderedAppend, WaitsAppend
    <3>2. CASE images # <<>> /\ images' = Append(Tail(images), r)
      <4>1. /\ Tail(images) \in Seq(ImageRequests)
            /\ Ordered(Tail(images), asked')
            /\ \A x : Waits(Tail(images), x) => Waits(images, x)
        BY <1>1, <2>3, <3>2, OrderedTail
      <4>2. Ordered(Append(Tail(images), r), asked')
        BY <2>1, <2>2, <4>1, OrderedAppend
      <4>3. \A x : Waits(Append(Tail(images), r), x) => Waits(images, x) \/ x = r
        <5>1. \A x : Waits(Append(Tail(images), r), x) <=> Waits(Tail(images), x) \/ x = r
          BY <2>1, <4>1, WaitsAppend
        <5> QED
          BY ONLY <4>1, <5>1
      <4> QED
        BY <3>2, <4>2, <4>3
    <3> QED
      BY <2>1, <3>1, <3>2
  <2>5. \A x : Waits(api', x) <=> Waits(api, x)
    BY <2>1
  <2>6. \A x \in Requests : Waits(sent, x)' \/ Taken(x)' => AheadOfItsQueue(x)'
    <3> SUFFICES ASSUME NEW x \in Requests, Waits(sent, x) \/ Taken(x)
                 PROVE  AheadOfItsQueue(x)'
      BY <1>3, <1>8
    <3>1. AheadOfItsQueue(x) /\ Precedes(asked', x, r)
      BY <1>5 DEF Lined
    <3>2. \A y \in Requests :
              /\ x \notin ImageRequests /\ Waits(api', y) => Precedes(asked', x, y)
              /\ x \in ImageRequests /\ Waits(images', y) => Precedes(asked', x, y)
      BY <1>2, <2>4, <2>5, <3>1 DEF AheadOfItsQueue
    <3> QED
      BY <3>2 DEF AheadOfItsQueue, Waits, Precedes
  <2>7. Ordered(api, asked)' /\ Ordered(images, asked)'
    BY <2>1, <2>3, <2>4 DEF Ordered
  <2> QED
    BY <1>7, <1>9, <2>6, <2>7 DEF Lined, SameQueue
<1> QED
  BY <1>4, <1>10, <1>11
  DEF Ask, AskUnconfigured, RefuseLocal, RefuseApi, queues

(* The head of a queue precedes what it leaves behind and comes after what *)
(* went before it.                                                         *)
LEMMA LinedTake ==
    ASSUME NetTypeOK, Lined, TakeApi \/ TakeImage
    PROVE  Lined'
<1> DEFINE r == worker'.job
<1>1. /\ asked' = asked /\ sent' = sent
      /\ api \in Seq(QueuedAsApi) /\ images \in Seq(ImageRequests)
      /\ \A x : Taken(x)' <=> x = r
      /\ \A x : Waits(sent, x)' <=> Waits(sent, x)
      /\ InTurn'
  <2>1. asked' = asked /\ sent' = sent
    BY DEF TakeApi, TakeImage, records, progress
  <2>2. worker'.at = "taken"
    BY DEF TakeApi, TakeImage, Holding
  <2>3. InTurn'
    BY <2>1 DEF Lined, InTurn, SameQueue
  <2> QED
    BY <2>1, <2>2, <2>3 DEF Taken, Waits, NetTypeOK
<1>2. CASE TakeApi
  <2>1. api # <<>> /\ api' = Tail(api) /\ images' = images /\ r = Head(api)
    BY <1>2 DEF TakeApi, Holding
  <2>2. r \in QueuedAsApi /\ Waits(api, r)
    BY <1>1, <2>1, HeadWaits
  <2>3. r \in Requests /\ r \notin ImageRequests
    BY <2>2, NetAssumption DEF QueuedAsApi, Requests
  <2> HIDE DEF r
  <2>4. /\ Ordered(api', asked)
        /\ \A x : Waits(api', x) => Waits(api, x) /\ Precedes(asked, r, x)
    BY <1>1, <2>1, OrderedTail DEF Lined
  <2>5. \A x : Waits(images', x) <=> Waits(images, x)
    BY <2>1
  <2>6. \A x \in Requests : Waits(sent, x) \/ x = r => AheadOfItsQueue(x)'
    <3> SUFFICES ASSUME NEW x \in Requests, Waits(sent, x) \/ x = r
                 PROVE  \A y \in Requests :
                     /\ x \notin ImageRequests /\ Waits(api', y) => Precedes(asked, x, y)
                     /\ x \in ImageRequests /\ Waits(images', y) => Precedes(asked, x, y)
      BY <1>1 DEF AheadOfItsQueue, Waits, Precedes
    <3>1. CASE x = r
      BY <2>3, <2>4, <3>1
    <3>2. CASE Waits(sent, x)
      BY <2>4, <2>5, <3>2 DEF Lined, AheadOfItsQueue
    <3> QED
      BY <3>1, <3>2
  <2>7. \A a, x \in Requests :
            Waits(sent, a) /\ x = r /\ SameQueue(a, x) => Precedes(asked, a, x)
    BY <2>2, <2>3 DEF Lined, AheadOfItsQueue, SameQueue
  <2>8. Ordered(api, asked)' /\ Ordered(images, asked)'
    BY <1>1, <2>1, <2>4 DEF Ordered, Lined
  <2> QED
    BY <1>1, <2>6, <2>7, <2>8 DEF Lined, SameQueue
<1>3. CASE TakeImage
  <2>1. images # <<>> /\ images' = Tail(images) /\ api' = api /\ r = Head(images)
    BY <1>3 DEF TakeImage, Holding
  <2>2. r \in ImageRequests /\ Waits(images, r)
    BY <1>1, <2>1, HeadWaits
  <2>3. r \in Requests
    BY <2>2 DEF Requests
  <2> HIDE DEF r
  <2>4. /\ Ordered(images', asked)
        /\ \A x : Waits(images', x) => Waits(images, x) /\ Precedes(asked, r, x)
    BY <1>1, <2>1, OrderedTail DEF Lined
  <2>5. \A x : Waits(api', x) <=> Waits(api, x)
    BY <2>1
  <2>6. \A x \in Requests : Waits(sent, x) \/ x = r => AheadOfItsQueue(x)'
    <3> SUFFICES ASSUME NEW x \in Requests, Waits(sent, x) \/ x = r
                 PROVE  \A y \in Requests :
                     /\ x \notin ImageRequests /\ Waits(api', y) => Precedes(asked, x, y)
                     /\ x \in ImageRequests /\ Waits(images', y) => Precedes(asked, x, y)
      BY <1>1 DEF AheadOfItsQueue, Waits, Precedes
    <3>1. CASE x = r
      BY <2>2, <2>4, <3>1
    <3>2. CASE Waits(sent, x)
      BY <2>4, <2>5, <3>2 DEF Lined, AheadOfItsQueue
    <3> QED
      BY <3>1, <3>2
  <2>7. \A a, x \in Requests :
            Waits(sent, a) /\ x = r /\ SameQueue(a, x) => Precedes(asked, a, x)
    BY <2>2, <2>3 DEF Lined, AheadOfItsQueue, SameQueue
  <2>8. Ordered(api, asked)' /\ Ordered(images, asked)'
    BY <1>1, <2>1, <2>4 DEF Ordered, Lined
  <2> QED
    BY <1>1, <2>6, <2>7, <2>8 DEF Lined, SameQueue
<1> QED
  BY <1>2, <1>3

(* What the worker starts comes after everything it sent before.           *)
LEMMA LinedStart ==
    ASSUME NetTypeOK, Lined, Start
    PROVE  Lined'
<1> DEFINE r == worker.job
<1>1. /\ UNCHANGED <<asked, api, images>>
      /\ sent \in Seq(Requests) /\ r \in Requests /\ Taken(r)
  BY DEF Start, NetTypeOK, queues, Taken
<1>2. \A x : ~Taken(x)'
  BY DEF Start, Holding, Replying, Taken
<1>3. CASE sent' = sent
  BY <1>1, <1>2, <1>3, LinedInLongerHistory
<1>4. CASE sent' = Append(sent, r)
  <2> HIDE DEF r
  <2>1. \A x : Waits(sent', x) <=> Waits(sent, x) \/ x = r
    BY <1>1, <1>4, WaitsAppend
  <2>2. \A x \in Requests : Waits(sent, x)' => AheadOfItsQueue(x)'
    <3>1. \A x \in Requests : Waits(sent, x) \/ x = r => AheadOfItsQueue(x)
      BY <1>1 DEF Lined
    <3>2. \A x : AheadOfItsQueue(x)' <=> AheadOfItsQueue(x)
      BY <1>1 DEF AheadOfItsQueue, Waits, Precedes
    <3>3. \A x : Waits(sent, x)' <=> Waits(sent', x)
      BY DEF Waits
    <3> QED
      BY <2>1, <3>1, <3>2, <3>3
  <2>3. Ordered(api, asked)' /\ Ordered(images, asked)'
    BY <1>1 DEF Ordered, Lined
  <2>4. \A i, j \in 1..Len(sent) + 1 :
            i < j /\ SameQueue(sent'[i], sent'[j]) =>
                Precedes(asked, sent'[i], sent'[j])
    <3>1. /\ Len(sent) \in Nat
          /\ \A i \in 1..Len(sent) : sent'[i] = sent[i] /\ sent[i] \in Requests
          /\ sent'[Len(sent) + 1] = r
      BY <1>1, <1>4
    <3> SUFFICES ASSUME NEW i \in 1..Len(sent) + 1, NEW j \in 1..Len(sent) + 1,
                        i < j, SameQueue(sent'[i], sent'[j])
                 PROVE  Precedes(asked, sent'[i], sent'[j])
      OBVIOUS
    <3>2. i \in 1..Len(sent)
      BY <3>1
    <3>3. CASE j = Len(sent) + 1
      <4>1. Waits(sent, sent[i]) /\ sent[i] \in Requests
        BY <3>1, <3>2 DEF Waits
      <4> QED
        BY <1>1, <3>1, <3>2, <3>3, <4>1 DEF Lined
    <3>4. CASE j # Len(sent) + 1
      <4>1. j \in 1..Len(sent)
        BY <3>1, <3>4
      <4> QED
        BY <3>1, <3>2, <4>1 DEF Lined, InTurn, Precedes
    <3> QED
      BY <3>3, <3>4
  <2>5. Len(sent') = Len(sent) + 1
    BY <1>1, <1>4
  <2>6. InTurn'
    BY <1>1, <2>4, <2>5 DEF InTurn, Precedes, SameQueue
  <2> QED
    BY <1>2, <2>2, <2>3, <2>6 DEF Lined
<1> QED
  BY <1>3, <1>4 DEF Start

LEMMA LinedDrain ==
    ASSUME Lined, Drain
    PROVE  Lined'
<1>1. api' = <<>> /\ images' = <<>> /\ UNCHANGED <<asked, sent, worker>>
  BY DEF Drain, records, progress
<1>2. \A x : ~Waits(api', x) /\ ~Waits(images', x)
  BY <1>1, OrderedEmpty
<1>3. Ordered(api, asked)' /\ Ordered(images, asked)'
  BY <1>1 DEF Ordered
<1>4. \A x : AheadOfItsQueue(x)'
  BY <1>1 DEF AheadOfItsQueue, Waits
<1>5. InTurn'
  BY <1>1 DEF Lined, InTurn, SameQueue
<1>6. \A a, x \in Requests :
          Waits(sent, a)' /\ Taken(x)' /\ SameQueue(a, x) => Precedes(asked, a, x)'
  BY <1>1 DEF Lined, Waits, Taken, Precedes
<1> QED
  BY <1>3, <1>4, <1>5, <1>6 DEF Lined, SameQueue
----------------------------------------------------------------------------
(* What was told: the closures posted, and what they carry.                *)

LEMMA ResultAfterPost ==
    ASSUME NetTypeOK, NEW r \in Requests, NEW reply \in Replies, Post(r, reply)
    PROVE  \A x : ResultPosted(x)' <=> ResultPosted(x) \/ (x = r /\ reply = "result")
<1>1. /\ posted \in Seq(Messages) /\ Message(r, reply) \in Messages
      /\ posted' = Append(posted, Message(r, reply))
  BY DEF NetTypeOK, Messages, Message, Post
<1>2. \A m : Waits(posted', m) <=> Waits(posted, m) \/ m = Message(r, reply)
  BY <1>1, WaitsAppend
<1>3. \A x : (Message(x, "result") = Message(r, reply)) <=> (x = r /\ reply = "result")
  BY DEF Message
<1>4. \A x : ResultPosted(x)' <=> Waits(posted', Message(x, "result"))
  BY DEF ResultPosted, Waits, Message
<1> QED
  BY <1>2, <1>3, <1>4 DEF ResultPosted

LEMMA ResultAfterDelivery ==
    ASSUME NetTypeOK, posted # <<>>, posted' = Tail(posted)
    PROVE  /\ Head(posted) \in Messages
           /\ \A x : ResultPosted(x)' => ResultPosted(x)
           /\ Head(posted).reply = "result" => ResultPosted(Head(posted).request)
<1>1. posted \in Seq(Messages)
  BY DEF NetTypeOK, Messages
<1>2. Head(posted) \in Messages /\ Waits(posted, Head(posted))
  BY <1>1, HeadWaits
<1>3. \A m : Waits(Tail(posted), m) => Waits(posted, m)
  <2>1. /\ Len(posted) \in Nat \ {0} /\ Len(Tail(posted)) = Len(posted) - 1
        /\ \A i \in 1..Len(posted) - 1 : Tail(posted)[i] = posted[i + 1]
    BY <1>1
  <2> QED
    BY <2>1 DEF Waits
<1>4. \A x : ResultPosted(x)' <=> Waits(Tail(posted), Message(x, "result"))
  BY DEF ResultPosted, Waits, Message
<1>5. Head(posted).reply = "result" =>
          Head(posted) = Message(Head(posted).request, "result")
  BY <1>2 DEF Messages, Message
<1> QED
  BY <1>2, <1>3, <1>4, <1>5 DEF ResultPosted

LEMMA ResultIsPosted ==
    ASSUME NetTypeOK, NEW x, ResultPosted(x)
    PROVE  InPosted(x)
<1>1. posted \in Seq(Messages)
  BY DEF NetTypeOK, Messages
<1>2. PICK i \in 1..Len(posted) : posted[i] = Message(x, "result")
  BY DEF ResultPosted, Waits
<1>3. Addressees(posted)[i] = x /\ Len(Addressees(posted)) = Len(posted)
  BY <1>1, <1>2, AddresseesType DEF Addressees, Message
<1> QED
  BY <1>2, <1>3 DEF InPosted, Waits
----------------------------------------------------------------------------
(* One lemma for each kind of step.                                        *)

(* Threads that start, sleep, wake or end hold no request.                 *)
LEMMA SentQuiet ==
    ASSUME NetTypeOK, SentIInv, Leaving => Leaving',
           UNCHANGED <<api, images, asked, sent, posted, outcome, handlers,
                       recalled, interrupted>>,
           \/ worker' = worker
           \/ worker' \in {At("looking"), At("waiting"), At("ended")}
    PROVE  SentIInv'
<1>0. NoRequest \notin Requests
  BY NetAssumption DEF Requests
<1>1. \A r \in Requests :
          /\ Taken(r)' => Taken(r)
          /\ InThread(r)' => InThread(r)
          /\ ResultInHand(r)' => ResultInHand(r)
  BY <1>0 DEF At, Taken, InThread, ResultInHand
<1>2. worker'.at = "busy" => worker.at = "busy" /\ worker'.job = worker.job
  BY DEF At
<1>3. \A x : /\ Waits(api, x)' <=> Waits(api, x)
             /\ Waits(images, x)' <=> Waits(images, x)
             /\ Waits(asked, x)' <=> Waits(asked, x)
             /\ Waits(sent, x)' <=> Waits(sent, x)
             /\ ResultPosted(x)' <=> ResultPosted(x)
  BY DEF Waits, ResultPosted, Message
<1>4. Known'
  BY <1>1, <1>3 DEF SentIInv, Known
<1>5. Lined'
  BY <1>1, LinedInLongerHistory DEF SentIInv, Precedes
<1>6. FromTheWire'
  BY <1>1, <1>2, <1>3 DEF SentIInv, FromTheWire, Waits
<1>7. Stopped'
  <2>1. Stopped
    BY DEF SentIInv
  <2>2. \A r \in recalled' : ~Waits(sent, r)'
    BY <1>3, <2>1 DEF Stopped
  <2>3. interrupted \subseteq Requests
    BY DEF NetTypeOK
  <2>4. \A r \in interrupted' :
            ~ResultInHand(r)' /\ ~ResultPosted(r)' /\ outcome'[r] # "result"
    BY <1>1, <1>3, <2>1, <2>3 DEF Stopped
  <2> QED
    BY <2>1, <2>2, <2>4 DEF Stopped
<1>8. ASSUME ~Leaving'  PROVE NotYet'
  <2>1. NotYet
    BY <1>8 DEF SentIInv
  <2>2. \A r \in Unstarted' : r \in Unstarted
    BY <1>1, <1>3 DEF Unstarted, Taken
  <2>3. \A r \in Unstarted' : ~Waits(sent, r)'
    BY <1>3, <2>1, <2>2 DEF NotYet
  <2> QED
    BY <2>1, <2>3 DEF NotYet
<1> QED
  BY <1>4, <1>5, <1>6, <1>7, <1>8 DEF SentIInv

(* A new request has been neither sent nor told anything.                  *)
LEMMA SentAsk ==
    ASSUME NetTypeOK, Accounted, SentIInv, NEW r \in Requests, Ask(r)
    PROVE  SentIInv'
<1>1. /\ New(r) /\ ~Leaving /\ ~Waits(asked, r)
      /\ worker' = worker /\ sent' = sent
      /\ UNCHANGED <<recalled, interrupted>>
      /\ handlers' \subseteq handlers \cup {r}
      /\ \/ outcome' = outcome
         \/ outcome' = [outcome EXCEPT ![r] = "refused"] /\ handlers' = handlers
  BY DEF Ask, AskUnconfigured, RefuseLocal, RefuseApi, QueueApi, QueueImage, New,
         progress, marks, InEventLoop, Leaving
<1>2. /\ asked \in Seq(Requests) /\ asked' = Append(asked, r)
      /\ api \in Seq(QueuedAsApi) /\ images \in Seq(ImageRequests)
      /\ outcome \in [Requests -> Replies \cup {"none", "refused"}]
  BY <1>1 DEF New, NetTypeOK
<1>3. Known /\ Lined /\ FromTheWire /\ Stopped /\ NotYet
  BY <1>1 DEF SentIInv
<1>4. /\ \A x : Waits(asked', x) <=> Waits(asked, x) \/ x = r
      /\ r \notin handlers
  BY <1>1, NewIsNowhere
<1>5. \A x : /\ Waits(api', x) => Waits(api, x) \/ x = r
             /\ Waits(images', x) => Waits(images, x) \/ x = r
  <2>1. CASE UNCHANGED <<api, images>>
    BY <2>1
  <2>2. CASE QueueApi(r)
    <3>1. r \in QueuedAsApi /\ api' = Append(api, r) /\ images' = images
      BY <2>2 DEF QueueApi
    <3> QED
      BY <1>2, <3>1, WaitsAppend
  <2>3. CASE QueueImage(r)
    <3>1. /\ r \in ImageRequests /\ api' = api
          /\ \/ images' = Append(images, r)
             \/ images # <<>> /\ images' = Append(Tail(images), r)
      <4>1. Len(images) >= ImageCap => images # <<>>
        BY <1>2, NetAssumption
      <4> QED
        BY <2>3, <4>1 DEF QueueImage
    <3>2. CASE images' = Append(images, r)
      BY <1>2, <3>1, <3>2, WaitsAppend
    <3>3. CASE images # <<>> /\ images' = Append(Tail(images), r)
      <4>1. /\ Tail(images) \in Seq(ImageRequests)
            /\ \A x : Waits(Tail(images), x) => Waits(images, x)
        BY <1>2, <3>3, WaitsTail DEF Accounted
      <4>2. \A x : Waits(images', x) <=> Waits(Tail(images), x) \/ x = r
        BY <3>1, <3>3, <4>1, WaitsAppend
      <4> QED
        BY <3>1, <4>1, <4>2
    <3> QED
      BY <3>1, <3>2, <3>3
  <2> QED
    BY <2>1, <2>2, <2>3 DEF Ask, AskUnconfigured, RefuseLocal, RefuseApi, queues
<1>6. \A x : ResultPosted(x)' <=> ResultPosted(x)
  <2>1. CASE posted' = posted
    BY <2>1 DEF ResultPosted, Waits, Message
  <2>2. CASE Post(r, "cancelled")
    <3>1. "cancelled" \in Replies /\ "cancelled" # "result"
      BY DEF Replies
    <3> QED
      BY <2>2, <3>1, ResultAfterPost
  <2> QED
    BY <2>1, <2>2
    DEF Ask, AskUnconfigured, RefuseLocal, RefuseApi, QueueApi, QueueImage
<1>7. \A x : /\ ResultInHand(x)' <=> ResultInHand(x)
             /\ Taken(x)' <=> Taken(x)
             /\ InThread(x)' <=> InThread(x)
  BY <1>1 DEF ResultInHand, Taken, InThread
<1>8. \A x \in Requests :
          /\ outcome'[x] = "result" => outcome[x] = "result"
          /\ outcome'[x] # "none" => outcome[x] # "none" \/ x = r
          /\ x \in handlers' => outcome'[x] = outcome[x]
  BY <1>1, <1>2, <1>4
<1>9. \A x : /\ Waits(asked, x)' <=> Waits(asked', x)
             /\ Waits(api, x)' <=> Waits(api', x)
             /\ Waits(images, x)' <=> Waits(images', x)
             /\ Waits(sent, x)' <=> Waits(sent, x)
  BY <1>1 DEF Waits
<1>10. Known'
  BY <1>3, <1>4, <1>5, <1>7, <1>8, <1>9 DEF Known
<1>11. Lined'
  BY <1>3, LinedAsk
<1>12. FromTheWire'
  <2>1. worker'.at = "busy" => Waits(sent', worker'.job)
    BY <1>1, <1>3 DEF FromTheWire
  <2>2. \A x \in Requests :
            ResultInHand(x)' \/ ResultPosted(x)' \/ outcome'[x] = "result" =>
                Waits(sent, x)'
    BY <1>3, <1>6, <1>7, <1>8, <1>9 DEF FromTheWire
  <2> QED
    BY <2>1, <2>2 DEF FromTheWire, Waits
<1>13. Stopped'
  <2>1. interrupted \subseteq Requests
    BY DEF NetTypeOK
  <2>2. \A x \in interrupted' :
            ~ResultInHand(x)' /\ ~ResultPosted(x)' /\ outcome'[x] # "result"
    BY <1>1, <1>3, <1>6, <1>7, <1>8, <2>1 DEF Stopped
  <2>3. \A x \in recalled' : ~Waits(sent, x)'
    BY <1>1, <1>3, <1>9 DEF Stopped
  <2> QED
    BY <1>1, <1>3, <2>2, <2>3 DEF Stopped
<1>14. NotYet'
  <2>1. ~Waits(sent, r)
    BY <1>1, <1>3 DEF Known
  <2>2. \A x \in Unstarted' : x \in Unstarted \/ x = r
    BY <1>5, <1>7, <1>9 DEF Unstarted, Taken
  <2>3. \A x \in Unstarted' : ~Waits(sent, x)'
    BY <1>3, <1>9, <2>1, <2>2 DEF NotYet
  <2>4. \A x \in handlers' : outcome'[x] = "none"
    <3>1. outcome[r] = "none"
      BY <1>1, <1>3 DEF Known
    <3>2. handlers' \subseteq Requests
      BY <1>1 DEF NetTypeOK
    <3> QED
      BY <1>1, <1>3, <1>8, <3>1, <3>2 DEF NotYet
  <2> QED
    BY <2>3, <2>4 DEF NotYet
<1> QED
  BY <1>10, <1>11, <1>12, <1>13, <1>14 DEF SentIInv

LEMMA SentTake ==
    ASSUME NetTypeOK, SentIInv, TakeApi \/ TakeImage
    PROVE  SentIInv'
<1> DEFINE r == worker'.job
<1>1. /\ UNCHANGED <<asked, sent, posted, outcome, handlers, recalled,
                     interrupted, ui>>
      /\ worker'.at = "taken"
      /\ Leaving' <=> Leaving
  BY DEF TakeApi, TakeImage, records, progress, Holding, Leaving
<1>2. /\ Waits(api, r) \/ Waits(images, r)
      /\ \A x : /\ Waits(api', x) => Waits(api, x)
                /\ Waits(images', x) => Waits(images, x)
  <2>1. api \in Seq(QueuedAsApi) /\ images \in Seq(ImageRequests)
    BY DEF NetTypeOK
  <2>2. CASE TakeApi
    <3>1. api # <<>> /\ api' = Tail(api) /\ images' = images /\ r = Head(api)
      BY <2>2 DEF TakeApi, Holding
    <3> QED
      BY <2>1, <3>1, HeadWaits, OrderedTail DEF SentIInv, Lined
  <2>3. CASE TakeImage
    <3>1. images # <<>> /\ images' = Tail(images) /\ api' = api /\ r = Head(images)
      BY <2>3 DEF TakeImage, Holding
    <3> QED
      BY <2>1, <3>1, HeadWaits, OrderedTail DEF SentIInv, Lined
  <2> QED
    BY <2>2, <2>3
<1> HIDE DEF r
<1>3. \A x : /\ Waits(asked, x)' <=> Waits(asked, x)
             /\ Waits(sent, x)' <=> Waits(sent, x)
             /\ Waits(api, x)' <=> Waits(api', x)
             /\ Waits(images, x)' <=> Waits(images', x)
             /\ ResultPosted(x)' <=> ResultPosted(x)
             /\ InThread(x)' <=> x = r
             /\ Taken(x)' <=> x = r
             /\ ~ResultInHand(x)'
  BY <1>1 DEF Waits, ResultPosted, Message, InThread, Taken, ResultInHand, r
<1>4. Known'
  BY <1>1, <1>2, <1>3 DEF SentIInv, Known
<1>5. Lined'
  BY LinedTake DEF SentIInv
<1>6. FromTheWire'
  BY <1>1, <1>3 DEF SentIInv, FromTheWire
<1>7. Stopped'
  BY <1>1, <1>3 DEF SentIInv, Stopped
<1>8. ASSUME ~Leaving'  PROVE NotYet'
  <2>1. NotYet
    BY <1>1, <1>8 DEF SentIInv
  <2>2. \A x \in Unstarted' : x \in Unstarted
    BY <1>2, <1>3 DEF Unstarted, Taken
  <2>3. \A x \in Unstarted' : ~Waits(sent, x)'
    BY <1>3, <2>1, <2>2 DEF NotYet
  <2> QED
    BY <1>1, <2>1, <2>3 DEF NotYet
<1> QED
  BY <1>4, <1>5, <1>6, <1>7, <1>8 DEF SentIInv

(* The token is looked at before the request goes out.                     *)
LEMMA SentStart ==
    ASSUME NetTypeOK, SentIInv, ~Leaving => Accounted, Start
    PROVE  SentIInv'
<1> DEFINE r == worker.job
<1>1. /\ UNCHANGED <<api, images, asked, posted, outcome, handlers, recalled,
                     interrupted, ui>>
      /\ r \in Requests /\ Taken(r) /\ InThread(r) /\ sent \in Seq(Requests)
      /\ worker'.job = r
      /\ Leaving' <=> Leaving
  BY DEF Start, NetTypeOK, queues, marks, Taken, InThread, Holding, Replying, Leaving
<1>2. \/ r \in cancelled /\ sent' = sent /\ worker' = Replying(r, "cancelled")
      \/ r \notin cancelled /\ sent' = Append(sent, r) /\ worker' = Holding("busy", r)
  BY DEF Start
<1> HIDE DEF r
<1>3. /\ \A x : Waits(sent, x) => Waits(sent', x)
      /\ \A x : Waits(sent', x) => Waits(sent, x) \/ (x = r /\ r \notin cancelled)
      /\ worker'.at = "busy" => Waits(sent', r)
      /\ \A x : ~ResultInHand(x)' /\ ~Taken(x)'
  <2>1. CASE sent' = sent /\ worker' = Replying(r, "cancelled")
    BY <2>1 DEF Replying, ResultInHand, Taken
  <2>2. CASE /\ r \notin cancelled /\ sent' = Append(sent, r)
             /\ worker' = Holding("busy", r)
    <3>1. \A x : Waits(sent', x) <=> Waits(sent, x) \/ x = r
      BY <1>1, <2>2, WaitsAppend
    <3> QED
      BY <2>2, <3>1 DEF Holding, ResultInHand, Taken
  <2> QED
    BY <1>2, <2>1, <2>2
<1>4. \A x : /\ Waits(asked, x)' <=> Waits(asked, x)
             /\ Waits(sent, x)' <=> Waits(sent', x)
             /\ Waits(api, x)' <=> Waits(api, x)
             /\ Waits(images, x)' <=> Waits(images, x)
             /\ ResultPosted(x)' <=> ResultPosted(x)
             /\ InThread(x)' <=> x = r
  BY <1>1 DEF Waits, ResultPosted, Message, InThread
<1>5. Known'
  <2>1. Known /\ Waits(asked, r)
    BY <1>1 DEF SentIInv, Known
  <2> QED
    BY <1>1, <1>3, <1>4, <2>1 DEF Known
<1>6. Lined'
  BY LinedStart DEF SentIInv
<1>7. FromTheWire'
  <2>1. worker'.at = "busy" => Waits(sent, worker.job)'
    BY <1>1, <1>3 DEF Waits
  <2>2. \A x \in Requests :
            ResultInHand(x)' \/ ResultPosted(x)' \/ outcome'[x] = "result" =>
                Waits(sent, x)'
    BY <1>1, <1>3, <1>4 DEF SentIInv, FromTheWire
  <2> QED
    BY <2>1, <2>2 DEF FromTheWire
<1>8. Stopped'
  <2>1. recalled \subseteq cancelled
    BY DEF NetTypeOK
  <2> QED
    BY <1>1, <1>3, <1>4, <2>1 DEF SentIInv, Stopped
<1>9. ASSUME ~Leaving'  PROVE NotYet'
  <2>1. NotYet /\ Accounted
    BY <1>1, <1>9 DEF SentIInv
  <2>2. ~Waits(api, r) /\ ~Waits(images, r)
    BY <1>1, <2>1 DEF Accounted, AtMostOnePlace
  <2>3. \A x \in Unstarted' : x \in Unstarted /\ x # r
    BY <1>3, <1>4, <2>2 DEF Unstarted, Taken
  <2>4. \A x \in Unstarted' : ~Waits(sent, x)'
    BY <1>3, <1>4, <2>1, <2>3 DEF NotYet
  <2> QED
    BY <1>1, <2>1, <2>4 DEF NotYet
<1> QED
  BY <1>5, <1>6, <1>7, <1>8, <1>9 DEF SentIInv

(* The token is looked at again when the transport returns.                *)
LEMMA SentSettle ==
    ASSUME NetTypeOK, SentIInv, Settle
    PROVE  SentIInv'
<1> DEFINE r == worker.job
<1>1. /\ UNCHANGED <<api, images, asked, sent, posted, outcome, handlers,
                     recalled, interrupted, ui>>
      /\ worker.at = "busy" /\ r \in Requests /\ InThread(r)
      /\ worker' = Replying(r, Settled(r))
      /\ Leaving' <=> Leaving
  BY DEF Settle, NetTypeOK, queues, records, progress, InThread, Leaving
<1> HIDE DEF r
<1>2. \A x : /\ Waits(asked, x)' <=> Waits(asked, x)
             /\ Waits(sent, x)' <=> Waits(sent, x)
             /\ Waits(api, x)' <=> Waits(api, x)
             /\ Waits(images, x)' <=> Waits(images, x)
             /\ ResultPosted(x)' <=> ResultPosted(x)
             /\ InThread(x)' <=> x = r
             /\ ~Taken(x)'
             /\ ResultInHand(x)' => x = r /\ Settled(r) = "result"
  BY <1>1 DEF Waits, ResultPosted, Message, InThread, Taken, ResultInHand, Replying
<1>3. Known'
  BY <1>1, <1>2 DEF SentIInv, Known
<1>4. Lined'
  <2>1. \A x \in Requests : Taken(x)' => Taken(x)
    BY <1>2
  <2> QED
    BY <1>1, <2>1, LinedInLongerHistory DEF SentIInv, Precedes
<1>5. FromTheWire'
  <2>1. Waits(sent, r) /\ worker'.at # "busy"
    BY <1>1 DEF SentIInv, FromTheWire, Replying, r
  <2> QED
    BY <1>1, <1>2, <2>1 DEF SentIInv, FromTheWire
<1>6. Stopped'
  <2>1. Stopped /\ interrupted \subseteq cancelled
    BY DEF SentIInv, NetTypeOK
  <2>2. r \in interrupted => Settled(r) = "cancelled"
    BY <2>1 DEF Settled, Stopped
  <2> QED
    BY <1>1, <1>2, <2>1, <2>2 DEF Stopped
<1>7. ASSUME ~Leaving'  PROVE NotYet'
  <2>1. NotYet
    BY <1>1, <1>7 DEF SentIInv
  <2>2. \A x \in Unstarted' : x \in Unstarted
    BY <1>2 DEF Unstarted, Taken
  <2> QED
    BY <1>1, <1>2, <2>1, <2>2 DEF NotYet
<1> QED
  BY <1>3, <1>4, <1>5, <1>6, <1>7 DEF SentIInv

(* What is posted is a cancellation, or the result in the worker's hand.   *)
LEMMA SentPost ==
    ASSUME NetTypeOK, SentIInv, AnswerDropped \/ Reply
    PROVE  SentIInv'
<1>0. NoRequest \notin Requests
  BY NetAssumption DEF Requests
<1>1. /\ UNCHANGED <<api, images, asked, sent, outcome, handlers, recalled,
                     interrupted>>
      /\ Leaving' <=> Leaving
  BY DEF AnswerDropped, Reply, queues, records, progress, UiAt, Leaving
<1>2. worker' = worker \/ worker' = At("looking")
  BY DEF AnswerDropped, Reply
<1>3. \A x \in Requests :
          ResultPosted(x)' => ResultPosted(x) \/ ResultInHand(x)
  <2>1. CASE AnswerDropped
    <3>1. /\ ui.job \in Requests /\ "cancelled" \in Replies
          /\ Post(ui.job, "cancelled")
      BY <2>1 DEF AnswerDropped, NetTypeOK, Requests, Replies
    <3> QED
      BY <3>1, ResultAfterPost
  <2>2. CASE Reply
    <3>1. /\ worker.job \in Requests /\ worker.reply \in Replies
          /\ Post(worker.job, worker.reply) /\ worker.at = "replying"
      BY <2>2 DEF Reply, NetTypeOK
    <3> QED
      BY <3>1, ResultAfterPost DEF ResultInHand
  <2> QED
    BY <2>1, <2>2
<1>4. \A x : /\ Waits(asked, x)' <=> Waits(asked, x)
             /\ Waits(sent, x)' <=> Waits(sent, x)
             /\ Waits(api, x)' <=> Waits(api, x)
             /\ Waits(images, x)' <=> Waits(images, x)
  BY <1>1 DEF Waits
<1>5. /\ \A x \in Requests : /\ InThread(x)' => InThread(x)
                             /\ Taken(x)' => Taken(x)
                             /\ ResultInHand(x)' => ResultInHand(x)
      /\ worker'.at = "busy" => worker' = worker
  BY <1>0, <1>2 DEF At, InThread, Taken, ResultInHand
<1>6. Known'
  BY <1>1, <1>4, <1>5 DEF SentIInv, Known
<1>7. Lined'
  BY <1>1, <1>5, LinedInLongerHistory DEF SentIInv, Precedes
<1>8. FromTheWire'
  <2>1. worker'.at = "busy" => Waits(sent, worker.job)'
    BY <1>1, <1>5 DEF SentIInv, FromTheWire, Waits
  <2>2. \A x \in Requests :
            ResultInHand(x)' \/ ResultPosted(x)' \/ outcome'[x] = "result" =>
                Waits(sent, x)'
    BY <1>1, <1>3, <1>4, <1>5 DEF SentIInv, FromTheWire
  <2> QED
    BY <2>1, <2>2 DEF FromTheWire
<1>9. Stopped'
  <2>1. interrupted \subseteq Requests
    BY DEF NetTypeOK
  <2> QED
    BY <1>1, <1>3, <1>4, <1>5, <2>1 DEF SentIInv, Stopped
<1>10. ASSUME ~Leaving'  PROVE NotYet'
  <2>1. NotYet
    BY <1>1, <1>10 DEF SentIInv
  <2>2. \A x \in Unstarted' : x \in Unstarted
    BY <1>4, <1>5 DEF Unstarted, Taken
  <2> QED
    BY <1>1, <1>4, <2>1, <2>2 DEF NotYet
<1> QED
  BY <1>6, <1>7, <1>8, <1>9, <1>10 DEF SentIInv

LEMMA SentDeliver ==
    ASSUME NetTypeOK, Accounted, SentIInv, Deliver
    PROVE  SentIInv'
<1> DEFINE r == Head(posted).request
<1>1. /\ UNCHANGED <<api, images, asked, sent, recalled, interrupted, worker, ui>>
      /\ handlers' = handlers \ {r}
      /\ ~Leaving
      /\ outcome' = IF r \in handlers
                    THEN [outcome EXCEPT ![r] = Head(posted).reply] ELSE outcome
      /\ posted # <<>> /\ posted' = Tail(posted)
  BY DEF Deliver, queues, marks, InEventLoop, Leaving
<1>2. /\ r \in Requests
      /\ \A x : ResultPosted(x)' => ResultPosted(x)
      /\ Head(posted).reply = "result" => ResultPosted(r)
  BY <1>1, ResultAfterDelivery DEF Messages
<1>3. /\ r \in handlers => Waits(asked, r)
      /\ handlers \subseteq Requests
      /\ outcome \in [Requests -> Replies \cup {"none", "refused"}]
  BY DEF Accounted, NetTypeOK
<1> HIDE DEF r
<1>4. \A x \in Requests :
          /\ outcome'[x] = "result" => outcome[x] = "result" \/ ResultPosted(x)
          /\ outcome'[x] # "none" => outcome[x] # "none" \/ Waits(asked, x)
          /\ x # r => outcome'[x] = outcome[x]
  BY <1>1, <1>2, <1>3
<1>5. \A x : /\ Waits(asked, x)' <=> Waits(asked, x)
             /\ Waits(sent, x)' <=> Waits(sent, x)
             /\ Waits(api, x)' <=> Waits(api, x)
             /\ Waits(images, x)' <=> Waits(images, x)
             /\ InThread(x)' <=> InThread(x)
             /\ Taken(x)' <=> Taken(x)
             /\ ResultInHand(x)' <=> ResultInHand(x)
  BY <1>1 DEF Waits, InThread, Taken, ResultInHand
<1>6. Known /\ Lined /\ FromTheWire /\ Stopped /\ NotYet
  BY <1>1 DEF SentIInv
<1>7. Known'
  BY <1>4, <1>5, <1>6 DEF Known
<1>8. Lined'
  BY <1>1, <1>5, <1>6, LinedInLongerHistory DEF Precedes
<1>9. FromTheWire'
  <2>1. worker'.at = "busy" => Waits(sent, worker.job)'
    BY <1>1, <1>6 DEF FromTheWire, Waits
  <2>2. \A x \in Requests :
            ResultInHand(x)' \/ ResultPosted(x)' \/ outcome'[x] = "result" =>
                Waits(sent, x)'
    BY <1>2, <1>4, <1>5, <1>6 DEF FromTheWire
  <2> QED
    BY <2>1, <2>2 DEF FromTheWire
<1>10. Stopped'
  <2>1. interrupted \subseteq Requests
    BY DEF NetTypeOK
  <2> QED
    BY <1>1, <1>2, <1>4, <1>5, <1>6, <2>1 DEF Stopped
<1>11. NotYet'
  <2>1. \A x \in Unstarted' : x \in Unstarted
    BY <1>5 DEF Unstarted, Taken
  <2>2. \A x \in Unstarted' : ~Waits(sent, x)'
    BY <1>5, <1>6, <2>1 DEF NotYet
  <2>3. \A x \in handlers' : outcome'[x] = "none"
    BY <1>1, <1>3, <1>4, <1>6 DEF NotYet
  <2> QED
    BY <2>2, <2>3 DEF NotYet
<1> QED
  BY <1>7, <1>8, <1>9, <1>10, <1>11 DEF SentIInv

(* A token is set for a handler: its request waits unsent, is on the wire  *)
(* with nobody told, or has its answer already.                            *)
LEMMA SentCancel ==
    ASSUME NetTypeOK, Accounted, SentIInv, ~Leaving, NEW C,
           C \subseteq handlers, C \cap LocalJobs = {},
           recalled' = recalled \cup (C \cap Unstarted),
           interrupted' = interrupted \cup (C \cap OnTheWire),
           handlers' \subseteq handlers,
           UNCHANGED <<api, images, asked, sent, posted, outcome, worker>>
    PROVE  SentIInv'
<1>1. Known /\ Lined /\ FromTheWire /\ Stopped /\ NotYet
  BY DEF SentIInv
<1>2. \A x : /\ Waits(asked, x)' <=> Waits(asked, x)
             /\ Waits(sent, x)' <=> Waits(sent, x)
             /\ Waits(api, x)' <=> Waits(api, x)
             /\ Waits(images, x)' <=> Waits(images, x)
             /\ ResultPosted(x)' <=> ResultPosted(x)
             /\ InThread(x)' <=> InThread(x)
             /\ Taken(x)' <=> Taken(x)
             /\ ResultInHand(x)' <=> ResultInHand(x)
  BY DEF Waits, ResultPosted, Message, InThread, Taken, ResultInHand
<1>3. Known'
  BY <1>1, <1>2 DEF Known
<1>4. Lined'
  BY <1>1, <1>2, LinedInLongerHistory DEF Precedes
<1>5. FromTheWire'
  <2>1. worker'.at = "busy" => Waits(sent, worker.job)'
    BY <1>1 DEF FromTheWire, Waits
  <2> QED
    BY <1>1, <1>2, <2>1 DEF FromTheWire
<1>6. Stopped'
  <2>1. \A x \in recalled' : ~Waits(sent, x)'
    BY <1>1, <1>2 DEF Stopped, NotYet
  <2>2. ASSUME NEW x \in C \cap OnTheWire
        PROVE  ~ResultInHand(x) /\ ~ResultPosted(x) /\ outcome[x] # "result"
    <3>1. x \in Requests /\ worker.at = "busy" /\ InThread(x)
      BY DEF OnTheWire, InThread
    <3>2. ~InPosted(x)
      BY <3>1 DEF Accounted, AtMostOnePlace
    <3>3. outcome[x] = "none"
      BY <1>1 DEF NotYet
    <3> QED
      BY <3>1, <3>2, <3>3, ResultIsPosted DEF ResultInHand
  <2>3. \A x \in interrupted' :
            ~ResultInHand(x)' /\ ~ResultPosted(x)' /\ outcome'[x] # "result"
    BY <1>1, <1>2, <2>2 DEF Stopped
  <2> QED
    BY <1>1, <2>1, <2>3 DEF Stopped
<1>7. NotYet'
  <2>1. \A x \in Unstarted' : x \in Unstarted
    BY <1>2 DEF Unstarted, Taken
  <2> QED
    BY <1>1, <1>2, <2>1 DEF NotYet
<1> QED
  BY <1>3, <1>4, <1>5, <1>6, <1>7 DEF SentIInv

(* The waiting jobs are dropped; what was on its way stays.                *)
LEMMA SentDrain ==
    ASSUME NetTypeOK, SentIInv, Drain
    PROVE  SentIInv'
<1>1. /\ api' = <<>> /\ images' = <<>> /\ Leaving'
      /\ UNCHANGED <<asked, sent, posted, outcome, worker, recalled, interrupted>>
  BY DEF Drain, records, progress, Leaving, UiAt
<1>2. \A x : /\ Waits(asked, x)' <=> Waits(asked, x)
             /\ Waits(sent, x)' <=> Waits(sent, x)
             /\ ~Waits(api, x)'
             /\ ~Waits(images, x)'
             /\ ResultPosted(x)' <=> ResultPosted(x)
             /\ InThread(x)' <=> InThread(x)
             /\ ResultInHand(x)' <=> ResultInHand(x)
  BY <1>1, OrderedEmpty DEF Waits, ResultPosted, Message, InThread, ResultInHand
<1>3. Known'
  BY <1>1, <1>2 DEF SentIInv, Known
<1>4. Lined'
  BY LinedDrain DEF SentIInv
<1>5. FromTheWire'
  <2>1. worker'.at = "busy" => Waits(sent, worker.job)'
    BY <1>1 DEF SentIInv, FromTheWire, Waits
  <2> QED
    BY <1>1, <1>2, <2>1 DEF SentIInv, FromTheWire
<1>6. Stopped'
  BY <1>1, <1>2 DEF SentIInv, Stopped
<1> QED
  BY <1>1, <1>3, <1>4, <1>5, <1>6 DEF SentIInv

LEMMA SentInit ==
    ASSUME NetInit
    PROVE  SentIInv
<1>1. /\ api = <<>> /\ images = <<>> /\ sent = <<>> /\ posted = <<>>
      /\ worker.at = "absent" /\ worker.job = NoRequest
      /\ recalled = {} /\ interrupted = {} /\ handlers = {}
      /\ outcome = [x \in Requests |-> "none"]
  BY DEF NetInit, At
<1>2. NoRequest \notin Requests
  BY NetAssumption DEF Requests
<1>3. \A x : /\ ~Waits(api, x) /\ ~Waits(images, x) /\ ~Waits(sent, x)
             /\ ~ResultPosted(x) /\ ~Taken(x) /\ ~ResultInHand(x)
  BY <1>1 DEF Waits, ResultPosted, Taken, ResultInHand
<1>4. Known
  BY <1>1, <1>2, <1>3 DEF Known, InThread
<1>5. Lined
  BY <1>1, <1>3 DEF Lined, Ordered, InTurn
<1>6. FromTheWire /\ Stopped /\ NotYet
  BY <1>1, <1>3 DEF FromTheWire, Stopped, NotYet
<1> QED
  BY <1>4, <1>5, <1>6 DEF SentIInv

LEMMA SentNext ==
    ASSUME NetIInv, SentIInv, [NetNext]_netVars
    PROVE  SentIInv'
<1>1. NetTypeOK /\ (~Leaving => Accounted)
  BY DEF NetIInv
<1>2. Leaving /\ NetNext => Leaving'
  BY <1>1, Departure DEF NetIInv
<1>3. CASE UNCHANGED netVars
  BY <1>1, <1>3, SentQuiet DEF netVars, Leaving
<1>4. ASSUME NEW r \in Requests, Ask(r)  PROVE SentIInv'
  <2>1. ~Leaving
    BY <1>4 DEF Ask, AskUnconfigured, RefuseLocal, RefuseApi, QueueApi, QueueImage,
                New, InEventLoop, Leaving
  <2> QED
    BY <1>1, <1>4, <2>1, SentAsk
<1>5. ASSUME NEW r \in Requests, Cancel(r)  PROVE SentIInv'
  <2>1. ~Leaving
    BY <1>5 DEF Cancel, InEventLoop, Leaving
  <2>2. /\ {r} \subseteq handlers /\ {r} \cap LocalJobs = {}
        /\ recalled' = recalled \cup ({r} \cap Unstarted)
        /\ interrupted' = interrupted \cup ({r} \cap OnTheWire)
        /\ UNCHANGED <<handlers, api, images, asked, sent, posted, outcome, worker>>
    BY <1>5 DEF Cancel, queues
  <2> QED
    BY <1>1, <2>1, <2>2, SentCancel
<1>6. CASE Leave
  <2> DEFINE C == handlers \cap ApiRequests
  <2>1. ~Leaving
    BY <1>6 DEF Leave, InEventLoop, Leaving
  <2>2. /\ recalled' = recalled \cup (C \cap Unstarted)
        /\ interrupted' = interrupted \cup (C \cap OnTheWire)
        /\ handlers' \subseteq handlers
        /\ UNCHANGED <<api, images, asked, sent, posted, outcome, worker>>
    BY <1>6 DEF Leave, queues
  <2>3. C \subseteq handlers /\ C \cap LocalJobs = {}
    BY NetAssumption
  <2> HIDE DEF C
  <2> QED
    BY <1>1, <2>1, <2>2, <2>3, SentCancel
<1>7. CASE \/ EnsureThread \/ Notify \/ NotifyAll \/ TakeHandle \/ Join
           \/ Exit \/ Wait \/ WakeSpuriously \/ GiveUp \/ Gone
  <2>1. UNCHANGED <<api, images, asked, sent, posted, outcome, handlers,
                    recalled, interrupted>>
    BY <1>7 DEF EnsureThread, Notify, NotifyAll, TakeHandle, Join, Exit, Wait,
                WakeSpuriously, GiveUp, Gone, netVars, queues, records, progress
  <2>2. \/ worker' = worker
        \/ worker' \in {At("looking"), At("waiting"), At("ended")}
    BY <1>7 DEF EnsureThread, Notify, NotifyAll, TakeHandle, Join, Exit, Wait,
                WakeSpuriously, GiveUp, Gone, netVars, Woken
  <2>3. Leaving => Leaving'
    BY <1>2, <1>7 DEF NetNext, UiStep, WorkerStep
  <2> QED
    BY <1>1, <2>1, <2>2, <2>3, SentQuiet
<1>8. CASE Deliver
  <2>1. ~Leaving
    BY <1>8 DEF Deliver, InEventLoop, Leaving
  <2> QED
    BY <1>1, <1>8, <2>1, SentDeliver
<1>9. CASE TakeApi \/ TakeImage \/ Start \/ Settle \/ Reply \/ AnswerDropped \/ Drain
  BY <1>1, <1>9, SentTake, SentStart, SentSettle, SentPost, SentDrain
<1> QED
  BY <1>3, <1>4, <1>5, <1>6, <1>7, <1>8, <1>9 DEF NetNext, UiStep, WorkerStep

(* Requests of one queue go out in the order they were asked for, and a    *)
(* request whose token was set before its turn, or while the transport had *)
(* it, is never sent or never answered with a result.                      *)
THEOREM SentInTheOrderAsked == NetSpec => []SentAsAsked
<1>1. NetIInv /\ SentIInv => SentAsAsked
  <2> SUFFICES ASSUME NetIInv, SentIInv  PROVE SentAsAsked
    OBVIOUS
  <2>1. posted \in Seq(Messages) /\ recalled \subseteq Requests
        /\ interrupted \subseteq Requests
    BY DEF NetIInv, NetTypeOK, Messages
  <2>2. ASSUME NEW r \in Requests, ~ResultPosted(r), outcome[r] # "result"
        PROVE  "result" \notin Told(r)
    <3>1. ASSUME NEW i \in 1..Len(posted), posted[i].request = r
          PROVE  posted[i].reply # "result"
      <4>1. posted[i] \in Messages
        BY <2>1
      <4>2. posted[i].reply = "result" => posted[i] = Message(r, "result")
        BY <3>1, <4>1 DEF Messages, Message
      <4> QED
        BY <2>2, <4>2 DEF ResultPosted, Waits
    <3> QED
      BY <2>2, <3>1 DEF Told
  <2>3. \A r \in recalled \cup interrupted :
            ~ResultPosted(r) /\ outcome[r] # "result"
    BY <2>1 DEF SentIInv, Stopped, FromTheWire
  <2>4. CancelledIsFinal
    BY <2>1, <2>2, <2>3 DEF CancelledIsFinal, SentIInv, Stopped
  <2> QED
    BY <2>4 DEF SentIInv, Lined, SentAsAsked
<1> QED
  BY <1>1, SpecNetIInv, SentInit, SentNext, PTL DEF NetSpec
=============================================================================
