----------------------------- MODULE AccountServer -----------------------------
(***************************************************************************)
(* The accounts of the Worker: how a sync creates or updates one, proves   *)
(* who it is, is throttled and flagged, and leaves its totals; the admin   *)
(* call that hashes the remaining device secrets; and the nightly purge of *)
(* what was kept for abuse detection.  Every statement of a call is a step *)
(* of its own.  The window of the throttle is open throughout, minutes are *)
(* small numbers, and of an account's secret only matters whether it is    *)
(* stored as a hash.                                                       *)
(***************************************************************************)
EXTENDS Integers, FiniteSets

CONSTANTS
    Accounts,        \* the ids that sync
    Codes,           \* the friend codes they come with
    NoCode,
    Standalone,      \* the reasons that flag by themselves (STANDALONE_FLAG_REASONS)
    Weak,            \* the reasons that flag in company
    SignupLimit,     \* NEW_ACCOUNT_RATE_LIMIT_MAX_PER_IP
    MaxTotal,        \* bound: lifetime minutes, and the sum of the days
    AccountSlots,    \* the calls the Worker can be handling at once
    MaxAccountCalls, \* bound: the calls made
    MaxAccountFaults \* bound: statements that fail

ASSUME AccountAssumption ==
    /\ MaxTotal \in Nat /\ SignupLimit \in Nat
    /\ MaxAccountCalls \in Nat /\ MaxAccountFaults \in Nat
    /\ Standalone \cap Weak = {} /\ NoCode \notin Codes

VARIABLES
    users,      \* the table users: an account's code is NoCode while it has no row
    days,       \* the sum of the account's daily_stats
    events,     \* user_flag_events: reasons, and whether past the retention
    signups,    \* the counter of the window in RATE_LIMIT_KV
    keyed,      \* whether the Worker has its secret for hashing
    accountCalls, accountsMade, accountFaults,
    meddled     \* ghost: two calls overlapped

accountTables == <<users, days, events, signups, keyed>>
accountGhosts == <<accountsMade, accountFaults, meddled>>
accountVars == <<accountTables, accountCalls, accountGhosts>>

Reasons == Standalone \cup Weak
NoRow == [code |-> NoCode, hashed |-> FALSE, lifetime |-> 0, flagged |-> FALSE]
Exists(u) == users[u].code # NoCode
----------------------------------------------------------------------------
(* What a sync brings: a friend code, the lifetime total the client knows, *)
(* the sum of the days it sends, and the reasons it gives to be flagged.   *)
AccountCall(op, user, code, lifetime, sum, reasons) ==
    [op |-> op, user |-> user, code |-> code, lifetime |-> lifetime, sum |-> sum,
     reasons |-> reasons, at |-> "read", known |-> FALSE, count |-> 0, found |-> {}]
Syncs ==
    {AccountCall("sync", u, c, l, m, r) :
        u \in Accounts, c \in Codes, l \in 0..MaxTotal, m \in 0..MaxTotal,
        r \in {{}} \cup {{x} : x \in Reasons}}
Nightly == AccountCall("purge", "cron", NoCode, 0, 0, {})
Admin == AccountCall("migrate", "admin", NoCode, 0, 0, {})
NoAccountCall == [op |-> "none", at |-> "idle"]

AccountInit ==
    /\ users = [u \in Accounts |-> NoRow]
    /\ days = [u \in Accounts |-> 0]
    /\ events = [u \in Accounts |-> [r \in Reasons |-> "no"]]
    /\ signups = 0
    /\ keyed \in BOOLEAN
    /\ accountCalls = [i \in AccountSlots |-> NoAccountCall]
    /\ accountsMade = 0 /\ accountFaults = 0 /\ meddled = FALSE

AccountsQuiet == \A i \in AccountSlots : accountCalls[i].at = "idle"
AccountAt(i, op, place) == accountCalls[i].op = op /\ accountCalls[i].at = place
AccountGo(i, place) == accountCalls' = [accountCalls EXCEPT ![i].at = place]
AccountEnd(i) == accountCalls' = [accountCalls EXCEPT ![i] = NoAccountCall]

AccountReceive(i, request) ==
    /\ accountCalls[i].at = "idle" /\ accountsMade < MaxAccountCalls
    /\ accountCalls' = [accountCalls EXCEPT ![i] = request]
    /\ accountsMade' = accountsMade + 1
    /\ meddled' = (meddled \/ ~AccountsQuiet)
    /\ UNCHANGED <<accountTables, accountFaults>>
----------------------------------------------------------------------------
(* upsertUser reads the row and verifyDeviceSecret checks the secret: a    *)
(* hashed one cannot be checked without the Worker's own secret, a plain   *)
(* one is hashed on this occasion when it can be.                          *)
SyncReadsUser(i) ==
    LET u == accountCalls[i].user IN
    /\ AccountAt(i, "sync", "read")
    /\ IF Exists(u) /\ users[u].hashed /\ ~keyed THEN AccountEnd(i)
       ELSE accountCalls' = [accountCalls EXCEPT ![i].known = Exists(u),
                               ![i].at = IF ~Exists(u) THEN "throttle"
                                         ELSE IF ~users[u].hashed /\ keyed THEN "hash"
                                         ELSE "code"]
    /\ UNCHANGED accountTables

HashSecret(i) ==
    LET u == accountCalls[i].user IN
    /\ AccountAt(i, "sync", "hash")
    /\ users' = [users EXCEPT ![u].hashed = TRUE]
    /\ AccountGo(i, "code")
    /\ UNCHANGED <<days, events, signups, keyed>>

(* checkAndIncrementNewAccountRateLimit: a read and a put.                 *)
ReadThrottle(i) ==
    /\ AccountAt(i, "sync", "throttle")
    /\ accountCalls' = [accountCalls EXCEPT ![i].count = signups + 1, ![i].at = "put"]
    /\ UNCHANGED accountTables

\* slip: the limit is compared with the count before this one
AllowedBefore(count) == count - 1 <= SignupLimit

Allowed(count) == count <= SignupLimit

PutThrottle(i) ==
    /\ AccountAt(i, "sync", "put")
    /\ signups' = accountCalls[i].count
    /\ IF Allowed(accountCalls[i].count) THEN AccountGo(i, "code") ELSE AccountEnd(i)
    /\ UNCHANGED <<users, days, events, keyed>>

Owner(code, u) == \E v \in Accounts \ {u} : users[v].code = code

CheckCode(i) ==
    LET c == accountCalls[i] IN
    /\ AccountAt(i, "sync", "code")
    /\ IF Owner(c.code, c.user) THEN AccountEnd(i) ELSE AccountGo(i, "write")
    /\ UNCHANGED accountTables

(* UPDATE or INSERT.  The columns are unique, so a code or a row that came *)
(* into being since makes the statement fail.                              *)
WriteUser(i) ==
    LET c == accountCalls[i] IN
    /\ AccountAt(i, "sync", "write")
    /\ IF Owner(c.code, c.user) \/ c.known # Exists(c.user)
       THEN AccountEnd(i) /\ UNCHANGED users
       ELSE /\ users' = [users EXCEPT ![c.user] =
                 IF c.known THEN [@ EXCEPT !.code = c.code, !.lifetime = c.lifetime]
                 ELSE [code |-> c.code, hashed |-> keyed, lifetime |-> c.lifetime,
                       flagged |-> FALSE]]
            /\ AccountGo(i, IF c.reasons = {} THEN "stats" ELSE "record")
    /\ UNCHANGED <<days, events, signups, keyed>>
----------------------------------------------------------------------------
(* maybeFlagUser: store the reason, then look at all that are stored.  A   *)
(* reason that is stored already keeps its date.                           *)
RecordFlagSignal(i) ==
    LET c == accountCalls[i] IN
    /\ AccountAt(i, "sync", "record")
    /\ events' = [events EXCEPT ![c.user] =
                    [r \in Reasons |-> IF r \in c.reasons /\ @[r] = "no" THEN "new"
                                       ELSE @[r]]]
    /\ AccountGo(i, "count")
    /\ UNCHANGED <<users, days, signups, keyed>>

Stored(u) == {r \in Reasons : events[u][r] # "no"}
ShouldFlag(found) == found \cap Standalone # {} \/ Cardinality(found) >= 2

ReadReasons(i) ==
    LET u == accountCalls[i].user IN
    /\ AccountAt(i, "sync", "count")
    /\ AccountGo(i, IF ShouldFlag(Stored(u)) THEN "flag" ELSE "stats")
    /\ UNCHANGED accountTables

MarkFlagged(i) ==
    /\ AccountAt(i, "sync", "flag")
    /\ users' = [users EXCEPT ![accountCalls[i].user].flagged = TRUE]
    /\ AccountGo(i, "stats")
    /\ UNCHANGED <<days, events, signups, keyed>>

(* handleSync goes on with the days and ends with reconcileLifetimeTotals. *)
WriteDays(i) ==
    LET c == accountCalls[i] IN
    /\ AccountAt(i, "sync", "stats")
    /\ days' = [days EXCEPT ![c.user] = c.sum]
    /\ AccountGo(i, "reconcile")
    /\ UNCHANGED <<users, events, signups, keyed>>

ReconcileLifetimeTotals(i) ==
    LET u == accountCalls[i].user IN
    /\ AccountAt(i, "sync", "reconcile")
    /\ users' = [users EXCEPT ![u].lifetime = IF @ < days[u] THEN days[u] ELSE @]
    /\ AccountEnd(i)
    /\ UNCHANGED <<days, events, signups, keyed>>
----------------------------------------------------------------------------
(* handleAdminMigrateDeviceSecrets reads the plain rows, then writes their *)
(* hashes one by one.                                                      *)
AdminReads(i) ==
    /\ AccountAt(i, "migrate", "read")
    /\ IF ~keyed THEN AccountEnd(i)
       ELSE accountCalls' = [accountCalls EXCEPT
              ![i].found = {u \in Accounts : Exists(u) /\ ~users[u].hashed},
              ![i].at = "write"]
    /\ UNCHANGED accountTables

AdminHashes(i) ==
    /\ AccountAt(i, "migrate", "write")
    /\ IF accountCalls[i].found = {} THEN AccountEnd(i) /\ UNCHANGED users
       ELSE \E u \in accountCalls[i].found :
              /\ users' = [users EXCEPT ![u].hashed = TRUE]
              /\ accountCalls' = [accountCalls EXCEPT ![i].found = @ \ {u}]
    /\ UNCHANGED <<days, events, signups, keyed>>

(* purgeExpiredAbuseData: what is past the retention, except the reasons   *)
(* of a flagged account.                                                   *)
Purge(i) ==
    /\ AccountAt(i, "purge", "read")
    /\ events' = [u \in Accounts |->
                    IF users[u].flagged THEN events[u]
                    ELSE [r \in Reasons |-> IF events[u][r] = "old" THEN "no"
                                            ELSE events[u][r]]]
    /\ AccountEnd(i)
    /\ UNCHANGED <<users, days, signups, keyed>>

AccountStep(i) ==
    \/ SyncReadsUser(i) \/ HashSecret(i) \/ ReadThrottle(i) \/ PutThrottle(i)
    \/ CheckCode(i) \/ WriteUser(i) \/ RecordFlagSignal(i) \/ ReadReasons(i)
    \/ MarkFlagged(i) \/ WriteDays(i) \/ ReconcileLifetimeTotals(i)
    \/ AdminReads(i) \/ AdminHashes(i) \/ Purge(i)

AccountFault(i) ==
    /\ accountCalls[i].at # "idle" /\ accountFaults < MaxAccountFaults
    /\ accountFaults' = accountFaults + 1
    /\ AccountEnd(i)
    /\ UNCHANGED <<accountTables, accountsMade, meddled>>

(* Ninety days go by, or the Worker is deployed with its secret.           *)
MonthsPass ==
    /\ AccountsQuiet
    /\ events' = [u \in Accounts |->
                    [r \in Reasons |-> IF events[u][r] = "new" THEN "old"
                                       ELSE events[u][r]]]
    /\ events' # events
    /\ UNCHANGED <<users, days, signups, keyed, accountCalls, accountGhosts>>

GetKey ==
    /\ AccountsQuiet /\ ~keyed
    /\ keyed' = TRUE
    /\ UNCHANGED <<users, days, events, signups, accountCalls, accountGhosts>>

AccountNext ==
    \/ \E i \in AccountSlots :
         \/ \E request \in Syncs \cup {Nightly, Admin} : AccountReceive(i, request)
         \/ AccountStep(i) /\ UNCHANGED accountGhosts
         \/ AccountFault(i)
    \/ MonthsPass \/ GetKey

AccountSpec == AccountInit /\ [][AccountNext]_accountVars
----------------------------------------------------------------------------
(* When no call is under way: the lifetime total of an account covers its  *)
(* days, whatever syncs of its devices interleaved, each of which first    *)
(* overwrites the total with its own (reconcileLifetimeTotals); reasons    *)
(* that together call for a flag have raised it, although they were stored *)
(* by calls that did not know of one another (index.ts:455: no read-       *)
(* modify-write race), and although the purge runs in between.  Both hold  *)
(* unless a statement failed on the way.  A window lets no more accounts   *)
(* in than its limit, as long as no two calls overlapped.                  *)
AccountsKept ==
    /\ AccountsQuiet /\ accountFaults = 0 =>
         \A u \in Accounts :
           /\ users[u].lifetime >= days[u]
           /\ ShouldFlag(Stored(u)) => users[u].flagged
    /\ ~meddled => Cardinality({u \in Accounts : Exists(u)}) <= SignupLimit
=============================================================================
