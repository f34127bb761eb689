----------------------------- MODULE NetWorker -----------------------------
(***************************************************************************)
(* The network worker of the native application and its UI-thread side:    *)
(* app_net registers a handler and submits a job, one lazily spawned       *)
(* thread takes jobs from two bounded queues, and every reply comes back   *)
(* as a closure the event loop runs.  Three things move independently:     *)
(* the UI thread, the worker thread and the condition variable, and each   *)
(* critical section of the queue mutex is one step.                        *)
(*                                                                         *)
(* Abstracted: what a request asks and what a reply says, beyond its being *)
(* the transport's or a cancellation; statistics; a poisoned mutex and a   *)
(* panic on the worker thread.  A NetWorker that app_net has not made yet  *)
(* is one with empty queues and no thread.                                 *)
(***************************************************************************)
EXTENDS Integers, Sequences, FiniteSets

CONSTANTS
    ApiRequests, ImageRequests, LocalJobs,
    NoRequest,
    ApiCap,             \* API_QUEUE_CAP
    ImageCap,           \* IMAGE_QUEUE_CAP
    MaxSpawnFailures    \* bound: times the thread cannot be started

ASSUME NetAssumption ==
    /\ ApiCap \in Nat \ {0}
    /\ ImageCap \in Nat \ {0}
    /\ MaxSpawnFailures \in Nat
    /\ ApiRequests \cap ImageRequests = {}
    /\ ApiRequests \cap LocalJobs = {}
    /\ ImageRequests \cap LocalJobs = {}
    /\ NoRequest \notin ApiRequests \cup ImageRequests \cup LocalJobs

VARIABLES
    configured, \* is there an endpoint (Runtime.origin)?
    handlers,   \* Runtime.handlers and local_handlers
    api, images,        \* Queues.api, Queues.images
    shutdown, exited,   \* Queues.shutdown, Queues.exited
    thread,     \* does NetWorker.thread hold a join handle?
    failures,   \* times the thread could not be started
    worker,     \* the worker thread: where it is, its job, the reply it holds
    ui,         \* the UI thread: where it is, the image it has to answer
    posted,     \* closures handed to the event loop, oldest first
    cancelled,  \* requests whose CancelToken is set
    asked, sent, \* history: requests in the order asked; in the order started
    recalled,   \* history: cancelled before the worker started them
    interrupted,    \* history: cancelled while the transport had them
    outcome     \* history: what each handler was told

queues == <<api, images, shutdown, exited>>
marks == <<recalled, interrupted>>
progress == <<sent, recalled, interrupted, outcome>>
records == <<asked, progress>>
netVars == <<configured, handlers, api, images, shutdown, exited, thread,
             failures, worker, ui, posted, cancelled, asked, sent, recalled,
             interrupted, outcome>>
----------------------------------------------------------------------------
Requests == ApiRequests \cup ImageRequests \cup LocalJobs

(* "result": what the transport or the local work gave, error or not.      *)
Replies == {"result", "cancelled"}

(* Local jobs wait in the API queue (images::local_marker).                *)
QueuedAsApi == ApiRequests \cup LocalJobs

At(place) == [at |-> place, job |-> NoRequest, reply |-> "cancelled"]
Holding(place, r) == [at |-> place, job |-> r, reply |-> "cancelled"]
Replying(r, reply) == [at |-> "replying", job |-> r, reply |-> reply]

UiAt(place) == [at |-> place, job |-> NoRequest]

Message(r, reply) == [request |-> r, reply |-> reply]

(* slint::invoke_from_event_loop: the closure runs after those before it.  *)
Post(r, reply) == posted' = Append(posted, Message(r, reply))

InEventLoop == ui.at = "loop"
Leaving == ui.at \in {"draining", "waking", "taking", "joining", "gone"}

Waits(q, r) == \E i \in 1..Len(q) : q[i] = r
----------------------------------------------------------------------------
NetInit ==
    /\ configured \in BOOLEAN
    /\ handlers = {}
    /\ api = <<>>
    /\ images = <<>>
    /\ shutdown = FALSE
    /\ exited = FALSE
    /\ thread = FALSE
    /\ failures = 0
    /\ worker = At("absent")
    /\ ui = UiAt("loop")
    /\ posted = <<>>
    /\ cancelled = {}
    /\ asked = <<>>
    /\ sent = <<>>
    /\ recalled = {}
    /\ interrupted = {}
    /\ outcome = [r \in Requests |-> "none"]
----------------------------------------------------------------------------
(* Requests leave the controllers: app_net::submit and submit_local up to  *)
(* the end of the critical section in NetWorker::submit.                   *)

New(r) ==
    /\ InEventLoop
    /\ r \in Requests
    /\ ~Waits(asked, r)
    /\ asked' = Append(asked, r)

(* No endpoint: the answer is posted, never given inside the call.         *)
AskUnconfigured(r) ==
    /\ New(r)
    /\ ~configured
    /\ r \notin LocalJobs
    /\ handlers' = handlers \cup {r}
    /\ Post(r, "cancelled")
    /\ UNCHANGED <<configured, queues, thread, failures, worker, ui, cancelled,
                   progress>>

(* submit_local gives its caller the refusal and forgets the handler.      *)
RefuseLocal(r) ==
    /\ New(r)
    /\ r \in LocalJobs
    /\ ~configured \/ shutdown \/ Len(api) >= ApiCap
    /\ outcome' = [outcome EXCEPT ![r] = "refused"]
    /\ UNCHANGED <<configured, handlers, queues, thread, failures, worker, ui,
                   posted, cancelled, sent, marks>>

RefuseApi(r) ==
    /\ New(r)
    /\ configured
    /\ r \in ApiRequests
    /\ shutdown \/ Len(api) >= ApiCap
    /\ handlers' = handlers \cup {r}
    /\ Post(r, "cancelled")
    /\ UNCHANGED <<configured, queues, thread, failures, worker, ui, cancelled,
                   progress>>

\* slip: the queue takes one call too many
QueueApiOneMore(r) ==
    /\ New(r)
    /\ configured
    /\ r \in QueuedAsApi
    /\ ~shutdown
    /\ Len(api) <= ApiCap
    /\ handlers' = handlers \cup {r}
    /\ api' = Append(api, r)
    /\ ui' = UiAt("ensuring")
    /\ UNCHANGED <<configured, images, shutdown, exited, thread, failures,
                   worker, posted, cancelled, progress>>

QueueApi(r) ==
    /\ New(r)
    /\ configured
    /\ r \in QueuedAsApi
    /\ ~shutdown
    /\ Len(api) < ApiCap
    /\ handlers' = handlers \cup {r}
    /\ api' = Append(api, r)
    /\ ui' = UiAt("ensuring")
    /\ UNCHANGED <<configured, images, shutdown, exited, thread, failures,
                   worker, posted, cancelled, progress>>

\* slip: a full image queue forgets its oldest fetch without answering it
QueueImageSilently(r) ==
    /\ New(r)
    /\ configured
    /\ r \in ImageRequests
    /\ ~shutdown
    /\ handlers' = handlers \cup {r}
    /\ images' = Append(IF Len(images) >= ImageCap THEN Tail(images)
                        ELSE images, r)
    /\ ui' = UiAt("ensuring")
    /\ UNCHANGED <<configured, api, shutdown, exited, thread, failures, worker,
                   posted, cancelled, progress>>

\* slip: the fetch is queued among the API calls
QueueImageAsApi(r) ==
    /\ New(r)
    /\ configured
    /\ r \in ImageRequests
    /\ ~shutdown
    /\ Len(api) < ApiCap
    /\ handlers' = handlers \cup {r}
    /\ api' = Append(api, r)
    /\ ui' = UiAt("ensuring")
    /\ UNCHANGED <<configured, images, shutdown, exited, thread, failures,
                   worker, posted, cancelled, progress>>

(* A full image queue gives up its oldest fetch, answered after the lock.  *)
QueueImage(r) ==
    /\ New(r)
    /\ configured
    /\ r \in ImageRequests
    /\ ~shutdown
    /\ handlers' = handlers \cup {r}
    /\ \/ /\ Len(images) < ImageCap
          /\ images' = Append(images, r)
          /\ ui' = UiAt("ensuring")
       \/ /\ Len(images) >= ImageCap
          /\ images' = Append(Tail(images), r)
          /\ ui' = [at |-> "dropping", job |-> Head(images)]
    /\ UNCHANGED <<configured, api, shutdown, exited, thread, failures, worker,
                   posted, cancelled, progress>>

AnswerDropped ==
    /\ ui.at = "dropping"
    /\ Post(ui.job, "cancelled")
    /\ ui' = UiAt("ensuring")
    /\ UNCHANGED <<configured, handlers, queues, thread, failures, worker,
                   cancelled, records>>

(* ensure_thread; a failure to spawn is only logged.                       *)
EnsureThread ==
    /\ ui.at = "ensuring"
    /\ ui' = UiAt("notifying")
    /\ \/ /\ thread
          /\ UNCHANGED <<thread, failures, worker>>
       \/ /\ ~thread
          /\ thread' = TRUE
          /\ worker' = At("looking")
          /\ UNCHANGED failures
       \/ /\ ~thread
          /\ failures < MaxSpawnFailures
          /\ failures' = failures + 1
          /\ UNCHANGED <<thread, worker>>
    /\ UNCHANGED <<configured, handlers, queues, posted, cancelled, records>>

\* slip: nobody is notified
NotWoken == worker

Woken == IF worker.at = "waiting" THEN At("looking") ELSE worker

(* wake.notify_one: one waiting thread, or nobody.                         *)
Notify ==
    /\ ui.at = "notifying"
    /\ worker' = Woken
    /\ ui' = UiAt("loop")
    /\ UNCHANGED <<configured, handlers, queues, thread, failures, posted,
                   cancelled, records>>
----------------------------------------------------------------------------
(* The worker thread: one turn of the loop in run.                         *)

Running == ui.at # "gone"

Exit ==
    /\ Running
    /\ worker.at = "looking"
    /\ shutdown
    /\ exited' = TRUE
    /\ worker' = At("ended")
    /\ UNCHANGED <<configured, handlers, api, images, shutdown, thread,
                   failures, ui, posted, cancelled, records>>

\* slip: the newest call goes first
TakeNewestApi ==
    /\ Running
    /\ worker.at = "looking"
    /\ ~shutdown
    /\ api # <<>>
    /\ api' = SubSeq(api, 1, Len(api) - 1)
    /\ worker' = Holding("taken", api[Len(api)])
    /\ UNCHANGED <<configured, handlers, images, shutdown, exited, thread,
                   failures, ui, posted, cancelled, records>>

TakeApi ==
    /\ Running
    /\ worker.at = "looking"
    /\ ~shutdown
    /\ api # <<>>
    /\ api' = Tail(api)
    /\ worker' = Holding("taken", Head(api))
    /\ UNCHANGED <<configured, handlers, images, shutdown, exited, thread,
                   failures, ui, posted, cancelled, records>>

TakeImage ==
    /\ Running
    /\ worker.at = "looking"
    /\ ~shutdown
    /\ api = <<>>
    /\ images # <<>>
    /\ images' = Tail(images)
    /\ worker' = Holding("taken", Head(images))
    /\ UNCHANGED <<configured, handlers, api, shutdown, exited, thread,
                   failures, ui, posted, cancelled, records>>

(* The mutex is released and the wait begins in one step.                  *)
Wait ==
    /\ Running
    /\ worker.at = "looking"
    /\ ~shutdown
    /\ api = <<>>
    /\ images = <<>>
    /\ worker' = At("waiting")
    /\ UNCHANGED <<configured, handlers, queues, thread, failures, ui, posted,
                   cancelled, records>>

(* Condvar::wait may return without a notification.                        *)
WakeSpuriously ==
    /\ Running
    /\ worker.at = "waiting"
    /\ worker' = At("looking")
    /\ UNCHANGED <<configured, handlers, queues, thread, failures, ui, posted,
                   cancelled, records>>

\* slip: the token is looked at only once the transport has answered
StartUnchecked ==
    /\ Running
    /\ worker.at = "taken"
    /\ sent' = Append(sent, worker.job)
    /\ worker' = Holding("busy", worker.job)
    /\ UNCHANGED <<configured, handlers, queues, thread, failures, ui, posted,
                   cancelled, asked, marks, outcome>>

(* A job cancelled before its turn is answered unsent.                     *)
Start ==
    /\ Running
    /\ worker.at = "taken"
    /\ \/ /\ worker.job \in cancelled
          /\ worker' = Replying(worker.job, "cancelled")
          /\ UNCHANGED sent
       \/ /\ worker.job \notin cancelled
          /\ sent' = Append(sent, worker.job)
          /\ worker' = Holding("busy", worker.job)
    /\ UNCHANGED <<configured, handlers, queues, thread, failures, ui, posted,
                   cancelled, asked, marks, outcome>>

\* slip: the token is not looked at again
SettledUnchecked(r) == "result"

(* What the transport returned, unless the token was set meanwhile; a      *)
(* local job delivers its own result.                                      *)
Settled(r) ==
    IF r \in cancelled /\ r \notin LocalJobs THEN "cancelled" ELSE "result"

Settle ==
    /\ Running
    /\ worker.at = "busy"
    /\ worker' = Replying(worker.job, Settled(worker.job))
    /\ UNCHANGED <<configured, handlers, queues, thread, failures, ui, posted,
                   cancelled, records>>

(* The reply closure: post-processing, then a closure for the event loop.  *)
Reply ==
    /\ Running
    /\ worker.at = "replying"
    /\ Post(worker.job, worker.reply)
    /\ worker' = At("looking")
    /\ UNCHANGED <<configured, handlers, queues, thread, failures, ui,
                   cancelled, records>>
----------------------------------------------------------------------------
(* Back on the UI thread.                                                  *)

(* app_net::deliver and submit_local's closure.                            *)
Deliver ==
    /\ InEventLoop
    /\ posted # <<>>
    /\ posted' = Tail(posted)
    /\ handlers' = handlers \ {Head(posted).request}
    /\ outcome' = IF Head(posted).request \in handlers
                  THEN [outcome EXCEPT ![Head(posted).request] =
                            Head(posted).reply]
                  ELSE outcome
    /\ UNCHANGED <<configured, queues, thread, failures, worker, ui, cancelled,
                   asked, sent, marks>>

Unstarted ==
    {r \in Requests : \/ Waits(api, r) \/ Waits(images, r)
                      \/ worker.at = "taken" /\ worker.job = r}
OnTheWire == {r \in Requests : worker.at = "busy" /\ worker.job = r}

(* A view is closed and its token set (SkribblController::close).          *)
Cancel(r) ==
    /\ InEventLoop
    /\ r \in handlers \ (LocalJobs \cup cancelled)
    /\ cancelled' = cancelled \cup {r}
    /\ recalled' = recalled \cup ({r} \cap Unstarted)
    /\ interrupted' = interrupted \cup ({r} \cap OnTheWire)
    /\ UNCHANGED <<configured, handlers, queues, thread, failures, worker, ui,
                   posted, asked, sent, outcome>>

(* main after the event loop: SocialController::shutdown sets its tokens,  *)
(* app_net::shutdown drops the handlers.                                   *)
Leave ==
    /\ InEventLoop
    /\ ui' = UiAt("draining")
    /\ cancelled' = cancelled \cup (handlers \cap ApiRequests)
    /\ recalled' = recalled \cup (handlers \cap ApiRequests \cap Unstarted)
    /\ interrupted' =
           interrupted \cup (handlers \cap ApiRequests \cap OnTheWire)
    /\ handlers' = {}
    /\ UNCHANGED <<configured, queues, thread, failures, worker, posted, asked,
                   sent, outcome>>

\* slip: the queues keep their jobs and the thread is not told
DrainOnly ==
    /\ ui.at = "draining"
    /\ api' = <<>>
    /\ images' = <<>>
    /\ ui' = UiAt("waking")
    /\ UNCHANGED <<configured, handlers, shutdown, exited, thread, failures,
                   worker, posted, cancelled, records>>

(* NetWorker::shutdown: the waiting jobs are dropped unanswered.           *)
Drain ==
    /\ ui.at = "draining"
    /\ shutdown' = TRUE
    /\ api' = <<>>
    /\ images' = <<>>
    /\ ui' = UiAt("waking")
    /\ UNCHANGED <<configured, handlers, exited, thread, failures, worker,
                   posted, cancelled, records>>

(* wake.notify_all                                                         *)
NotifyAll ==
    /\ ui.at = "waking"
    /\ worker' = Woken
    /\ ui' = UiAt("taking")
    /\ UNCHANGED <<configured, handlers, queues, thread, failures, posted,
                   cancelled, records>>

TakeHandle ==
    /\ ui.at = "taking"
    /\ thread' = FALSE
    /\ ui' = UiAt(IF thread THEN "joining" ELSE "gone")
    /\ UNCHANGED <<configured, handlers, queues, failures, worker, posted,
                   cancelled, records>>

(* The second shutdown, from Drop, finds no handle and changes nothing.    *)
Join ==
    /\ ui.at = "joining"
    /\ exited
    /\ ui' = UiAt("gone")
    /\ UNCHANGED <<configured, handlers, queues, thread, failures, worker,
                   posted, cancelled, records>>

(* SHUTDOWN_WAIT has passed; the thread ends with the process.             *)
GiveUp ==
    /\ ui.at = "joining"
    /\ ~exited
    /\ ui' = UiAt("gone")
    /\ UNCHANGED <<configured, handlers, queues, thread, failures, worker,
                   posted, cancelled, records>>

Gone == ui.at = "gone" /\ UNCHANGED netVars
----------------------------------------------------------------------------
UiStep ==
    \/ AnswerDropped \/ EnsureThread \/ Notify \/ Deliver
    \/ Drain \/ NotifyAll \/ TakeHandle \/ Join

WorkerStep ==
    Exit \/ TakeApi \/ TakeImage \/ Wait \/ Start \/ Settle \/ Reply

Ask(r) ==
    \/ AskUnconfigured(r) \/ RefuseLocal(r) \/ RefuseApi(r)
    \/ QueueApi(r) \/ QueueImage(r)

NetNext ==
    \/ \E r \in Requests : Ask(r) \/ Cancel(r)
    \/ UiStep
    \/ WorkerStep
    \/ WakeSpuriously
    \/ Leave
    \/ GiveUp
    \/ Gone

NetSpec == NetInit /\ [][NetNext]_netVars

(* The event loop and the thread keep running, and a transport call ends   *)
(* (it has a timeout).  Nobody has to ask, cancel or quit, and neither a   *)
(* spurious wakeup nor the shutdown timeout is counted on.                 *)
NetFairSpec == NetSpec /\ WF_netVars(UiStep) /\ WF_netVars(WorkerStep)
----------------------------------------------------------------------------
(* Type and domain of every variable.                                      *)
NetTypeOK ==
    /\ configured \in BOOLEAN
    /\ handlers \subseteq Requests
    /\ api \in Seq(QueuedAsApi)
    /\ images \in Seq(ImageRequests)
    /\ shutdown \in BOOLEAN
    /\ exited \in BOOLEAN
    /\ thread \in BOOLEAN
    /\ failures \in 0..MaxSpawnFailures
    /\ worker \in [at : {"absent", "looking", "waiting", "taken", "busy",
                         "replying", "ended"},
                   job : Requests \cup {NoRequest}, reply : Replies]
    /\ (worker.job = NoRequest) <=>
           (worker.at \in {"absent", "looking", "waiting", "ended"})
    /\ ui \in [at : {"loop", "dropping", "ensuring", "notifying", "draining",
                     "waking", "taking", "joining", "gone"},
               job : ImageRequests \cup {NoRequest}]
    /\ (ui.job = NoRequest) <=> (ui.at # "dropping")
    /\ posted \in Seq([request : Requests, reply : Replies])
    /\ cancelled \subseteq Requests
    /\ asked \in Seq(Requests)
    /\ sent \in Seq(Requests)
    /\ recalled \subseteq cancelled
    /\ interrupted \subseteq cancelled
    /\ outcome \in [Requests -> Replies \cup {"none", "refused"}]

(* The places from which a request's answer can still come.                *)
Positions(q, r) == {i \in 1..Len(q) : q[i] = r}

AnswerPlaces(r) ==
    ({"api"} \X Positions(api, r))
    \cup ({"images"} \X Positions(images, r))
    \cup ({"posted"} \X {i \in 1..Len(posted) : posted[i].request = r})
    \cup {<<"thread", 0>> : t \in {t \in {worker} : t.job = r}}
    \cup {<<"dropped", 0>> : t \in {t \in {ui} : t.job = r}}

(* Until the student quits, every handler has exactly one answer on its    *)
(* way, wherever the threads stand, and nobody else has one: no request is *)
(* forgotten by a full queue, a cancellation or a refusal, and none is     *)
(* answered twice.                                                         *)
EveryHandlerHasOneAnswer ==
    ~Leaving =>
        \A r \in Requests :
            Cardinality(AnswerPlaces(r)) = IF r \in handlers THEN 1 ELSE 0

(* Neither queue ever holds more than its cap.                             *)
QueuesBounded == Len(api) <= ApiCap /\ Len(images) <= ImageCap

Told(r) ==
    {outcome[r]} \cup {posted[i].reply : i \in
                          {i \in 1..Len(posted) : posted[i].request = r}}

(* A request cancelled while it waits never goes on the wire, though the   *)
(* token is set without the queue's lock; and neither that one nor one     *)
(* cancelled while the transport has it is answered with a result.         *)
CancelledIsFinal ==
    /\ \A r \in recalled : ~Waits(sent, r)
    /\ \A r \in recalled \cup interrupted : "result" \notin Told(r)

SameQueue(a, b) == a \in ImageRequests <=> b \in ImageRequests

(* Within a queue the requests go out in the order they were asked for.    *)
InTurn ==
    \A i, j \in 1..Len(sent) :
        i < j /\ SameQueue(sent[i], sent[j]) =>
            \E k, l \in 1..Len(asked) :
                k < l /\ asked[k] = sent[i] /\ asked[l] = sent[j]

(* What goes out, goes out in turn, and nothing goes out or is answered    *)
(* that was taken back before (take_next, cancel, Dispatcher::resolve).    *)
SentAsAsked == CancelledIsFinal /\ InTurn

(* No wakeup is lost: once the thread was started every handler runs or is *)
(* dropped by the quitting application; and quitting ends by joining the   *)
(* thread, without counting on SHUTDOWN_WAIT.                              *)
AnsweredOnceStarted ==
    \A r \in Requests : (thread /\ r \in handlers) ~> (r \notin handlers)
QuitCompletes == (ui.at = "draining") ~> (ui.at = "gone")
NothingIsLeftWaiting == AnsweredOnceStarted /\ QuitCompletes
=============================================================================
