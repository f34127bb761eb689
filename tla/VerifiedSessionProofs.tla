----------------------- MODULE VerifiedSessionProofs -----------------------
(***************************************************************************)
(* FlagsMatchCalls for every value of the constants: the flags of          *)
(* VerifiedMachine say what the outbox holds.                              *)
(*                                                                         *)
(* Kept relates a machine to a queue of requests.  Each method of the      *)
(* machine keeps it for the queue with what the method sends behind it,    *)
(* and each reply for the queue without its head.  What a reply brings     *)
(* matters once: a start that succeeds names a session, because the call   *)
(* on the wire is that of the queue's head.                                *)
(***************************************************************************)
EXTENDS VerifiedSession, SequenceTheorems, TLAPS

IsSeq(q) == \E S : q \in Seq(S)

Of(q, route) == {k \in DOMAIN q : q[k].route = route}

(* The requests for a session of the machine's present generation.         *)
Current(m, q) == {k \in Of(q, "start") : q[k].generation = m.generation}

Alone(K) == \A j, k \in K : j = k

IsMachine(m) ==
    /\ m = [eligible |-> m.eligible, generation |-> m.generation,
            session |-> m.session, anchor |-> m.anchor,
            reconciling |-> m.reconciling, starting |-> m.starting,
            failedOffline |-> m.failedOffline, beats |-> m.beats,
            next |-> m.next, offlineFailures |-> m.offlineFailures]
    /\ m.eligible \in BOOLEAN
    /\ m.starting \in BOOLEAN
    /\ m.reconciling \in BOOLEAN
    /\ m.beats \in BOOLEAN
    /\ m.generation \in Nat

(* A request for a session is of the present generation or of an earlier   *)
(* one; of the present one there is none of a stopped Timer, and one       *)
(* exactly while the machine is starting.                                  *)
StartsFit(m, q) ==
    /\ \A k \in Of(q, "start") :
           q[k].generation \in Nat /\ q[k].generation <= m.generation
    /\ Alone(Current(m, q))
    /\ m.eligible => (m.starting <=> Current(m, q) # {})
    /\ ~m.eligible => Current(m, q) = {} /\ m.session = 0
    /\ m.eligible /\ m.starting => m.session = 0

ReconcilesFit(m, q) ==
    /\ Alone(Of(q, "reconcile"))
    /\ m.reconciling <=> Of(q, "reconcile") # {}

Kept(m, q) ==
    /\ IsMachine(m)
    /\ IsSeq(q)
    /\ StartsFit(m, q)
    /\ ReconcilesFit(m, q)

BeatsFit(m) == m.beats <=> m.session # 0

Fits(m, q) == Kept(m, q) /\ BeatsFit(m)
----------------------------------------------------------------------------
(* A queue with a request behind it, and one without its head.             *)

LEMMA Extended ==
    ASSUME NEW S, NEW q \in Seq(S), NEW e, NEW p, p = q \o <<e>>
    PROVE  /\ p \in Seq(S \cup {e}) /\ Len(p) = Len(q) + 1
           /\ \A k \in 1..Len(q) : p[k] = q[k]
           /\ p[Len(q) + 1] = e
<1>1. q \in Seq(S \cup {e}) /\ <<e>> \in Seq(S \cup {e})
  OBVIOUS
<1>2. p \in Seq(S \cup {e}) /\ Len(p) = Len(q) + 1
  BY <1>1
<1>3. \A k \in 1..Len(q) : p[k] = q[k]
  BY <1>1, ConcatProperties
<1>4. p[Len(q) + 1] = e
  BY <1>1, ConcatProperties
<1> QED BY <1>2, <1>3, <1>4

LongerBy(q, e, p) ==
    /\ IsSeq(p)
    /\ Len(q) + 1 \notin DOMAIN q
    /\ \A route : Of(p, route) =
           Of(q, route) \cup {k \in {Len(q) + 1} : e.route = route}
    /\ \A k \in DOMAIN q : p[k] = q[k]
    /\ p[Len(q) + 1] = e
    /\ p # <<>>
    /\ Head(p) = IF q = <<>> THEN e ELSE Head(q)
    /\ q # <<>> => Tail(p) = Tail(q) \o <<e>>

LEMMA Longer ==
    ASSUME NEW q, IsSeq(q), NEW e, NEW p, p = q \o <<e>>
    PROVE  LongerBy(q, e, p)
<1>1. PICK S : q \in Seq(S)
  BY DEF IsSeq
<1>2. q \in Seq(S \cup {e})
  BY <1>1
<1>3. p \in Seq(S \cup {e}) /\ Len(p) = Len(q) + 1 /\ Len(q) \in Nat
  BY <1>1, Extended
<1>4. DOMAIN p = 1..(Len(q) + 1) /\ DOMAIN q = 1..Len(q)
  BY <1>2, <1>3
<1>5. \A k \in 1..Len(q) : p[k] = q[k]
  BY <1>1, Extended
<1>6. p[Len(q) + 1] = e
  BY <1>1, Extended
<1>7. IsSeq(p)
  BY <1>3 DEF IsSeq
<1>8. ASSUME NEW route
      PROVE  Of(p, route) =
                 Of(q, route) \cup {k \in {Len(q) + 1} : e.route = route}
  BY <1>3, <1>4, <1>5, <1>6 DEF Of
<1>9. Head(p) = IF q = <<>> THEN e ELSE Head(q)
  BY <1>2, <1>3, <1>5, <1>6
<1>10. q # <<>> => Tail(p) = Tail(q) \o <<e>>
  <2> SUFFICES ASSUME q # <<>> PROVE Tail(p) = Tail(q) \o <<e>>
    OBVIOUS
  <2>1. PICK t : t = Tail(q)
    OBVIOUS
  <2>11. PICK u : u = t \o <<e>>
    OBVIOUS
  <2>2. t \in Seq(S) /\ Len(t) = Len(q) - 1 /\ Len(q) >= 1
    BY <1>1, <2>1
  <2>3. \A k \in 1..(Len(q) - 1) : t[k] = q[k + 1]
    BY <1>1, <2>1
  <2>4. /\ u \in Seq(S \cup {e}) /\ Len(u) = Len(q)
        /\ \A k \in 1..(Len(q) - 1) : u[k] = t[k]
        /\ u[Len(q)] = e
    <3>1. Len(t) + 1 = Len(q) /\ Len(t) \in Nat /\ Len(q) - 1 = Len(t)
      BY <1>3, <2>2
    <3>2. /\ u \in Seq(S \cup {e}) /\ Len(u) = Len(t) + 1
          /\ \A k \in 1..Len(t) : u[k] = t[k]
      BY ONLY <2>2, <2>11, Extended
    <3>3. u[Len(t) + 1] = e
      BY ONLY <2>2, <2>11, Extended
    <3> QED BY <3>1, <3>2, <3>3
  <2>5. /\ Tail(p) \in Seq(S \cup {e}) /\ Len(Tail(p)) = Len(q)
        /\ \A k \in 1..Len(q) : Tail(p)[k] = p[k + 1]
    BY <1>3, <2>2
  <2>6. ASSUME NEW k \in 1..Len(q) PROVE Tail(p)[k] = u[k]
    <3>1. CASE k = Len(q)
      BY <3>1, <1>3, <1>6, <2>4, <2>5
    <3>2. CASE k # Len(q)
      <4>1. k \in 1..(Len(q) - 1) /\ k + 1 \in 1..Len(q)
        BY <3>2, <1>3
      <4> QED BY <4>1, <1>5, <2>3, <2>4, <2>5
    <3> QED BY <3>1, <3>2
  <2>7. PICK v : v = Tail(p)
    OBVIOUS
  <2>8. v \in Seq(S \cup {e}) /\ Len(v) = Len(u)
    BY <2>4, <2>5, <2>7
  <2>9. \A k \in 1..Len(v) : v[k] = u[k]
    BY <2>4, <2>5, <2>6, <2>7
  <2>10. v = u
    BY <2>4, <2>8, <2>9, SeqEqual
  <2> QED BY <2>1, <2>11, <2>7, <2>10
<1>11. p # <<>>
  BY <1>3
<1>13. Len(q) + 1 \notin DOMAIN q
  BY <1>3, <1>4
<1>12. \A k \in DOMAIN q : p[k] = q[k]
  BY <1>4, <1>5
<1> QED BY ONLY <1>3, <1>6, <1>7, <1>8, <1>9, <1>10, <1>11, <1>12, <1>13
    DEF LongerBy

ShorterBy(q, p) ==
    /\ IsSeq(p)
    /\ 1 \in DOMAIN q
    /\ Head(q) = q[1]
    /\ DOMAIN q \subseteq Nat /\ DOMAIN p \subseteq Nat
    /\ \A k \in DOMAIN p :
           k + 1 # 1 /\ k + 1 \in DOMAIN q /\ p[k] = q[k + 1]
    /\ \A k \in DOMAIN q :
           k # 1 => k - 1 \in DOMAIN p /\ p[k - 1] = q[k]

LEMMA Shorter ==
    ASSUME NEW q, IsSeq(q), q # <<>>, NEW p, p = Tail(q)
    PROVE  ShorterBy(q, p)
<1>1. PICK S : q \in Seq(S)
  BY DEF IsSeq
<1>2. p \in Seq(S) /\ Len(p) = Len(q) - 1 /\ Len(q) >= 1 /\ Len(q) \in Nat
  BY <1>1
<1>3. DOMAIN q = 1..Len(q) /\ DOMAIN p = 1..(Len(q) - 1)
  BY <1>1, <1>2
<1>4. \A k \in 1..(Len(q) - 1) : p[k] = q[k + 1]
  BY <1>1, <1>2
<1>5. IsSeq(p)
  BY <1>2 DEF IsSeq
<1>6. Head(q) = q[1]
  BY <1>1
<1> QED BY <1>2, <1>3, <1>4, <1>5, <1>6 DEF ShorterBy

LEMMA Same ==
    ASSUME NEW q, IsSeq(q)
    PROVE  q \o <<>> = q
BY DEF IsSeq
----------------------------------------------------------------------------
(* What is put behind the queue: nothing of importance, a start, a         *)
(* reconciliation.                                                         *)

LEMMA SendsOther ==
    ASSUME NEW m, NEW q, Kept(m, q), NEW e,
           e.route \notin {"start", "reconcile"}
    PROVE  Kept(m, q \o <<e>>)
<1>1. PICK p : p = q \o <<e>>
  OBVIOUS
<1>2. IsMachine(m) /\ IsSeq(q) /\ StartsFit(m, q) /\ ReconcilesFit(m, q)
  BY DEF Kept
<1>3. /\ IsSeq(p)
      /\ Of(p, "start") = Of(q, "start")
      /\ Of(p, "reconcile") = Of(q, "reconcile")
      /\ \A k \in DOMAIN q : p[k] = q[k]
  <2>1. LongerBy(q, e, p)
    BY <1>1, <1>2, Longer
  <2>2. \A route : Of(p, route) =
            Of(q, route) \cup {k \in {Len(q) + 1} : e.route = route}
    BY <2>1 DEF LongerBy
  <2>3. /\ Of(p, "start") = Of(q, "start")
        /\ Of(p, "reconcile") = Of(q, "reconcile")
    BY <2>2
  <2> QED BY <2>1, <2>3 DEF LongerBy
<1>4. Current(m, p) = Current(m, q)
  BY <1>3 DEF Current, Of
<1>5. StartsFit(m, p)
  BY <1>2, <1>3, <1>4 DEF StartsFit, Of
<1>6. ReconcilesFit(m, p)
  BY <1>2, <1>3 DEF ReconcilesFit
<1> QED BY <1>1, <1>2, <1>3, <1>5, <1>6 DEF Kept

LEMMA SendsStart ==
    ASSUME NEW m, NEW q, Kept(m, q), m.eligible, m.session = 0, ~m.starting,
           NEW e, e.route = "start", e.generation = m.generation,
           NEW n, n = [m EXCEPT !.starting = TRUE, !.failedOffline = FALSE]
    PROVE  Kept(n, q \o <<e>>)
<1>1. PICK p : p = q \o <<e>>
  OBVIOUS
<1>2. IsMachine(m) /\ IsSeq(q) /\ StartsFit(m, q) /\ ReconcilesFit(m, q)
  BY DEF Kept
<1>3. /\ IsMachine(n)
      /\ n.eligible = m.eligible /\ n.generation = m.generation
      /\ n.session = m.session /\ n.reconciling = m.reconciling
      /\ n.starting = TRUE
  BY <1>2 DEF IsMachine
<1>4. /\ IsSeq(p)
      /\ Of(p, "start") = Of(q, "start") \cup {Len(q) + 1}
      /\ Of(p, "reconcile") = Of(q, "reconcile")
      /\ Len(q) + 1 \notin DOMAIN q
      /\ p[Len(q) + 1] = e
      /\ \A k \in DOMAIN q : p[k] = q[k]
  <2>1. LongerBy(q, e, p)
    BY <1>1, <1>2, Longer
  <2>2. \A route : Of(p, route) =
            Of(q, route) \cup {k \in {Len(q) + 1} : e.route = route}
    BY <2>1 DEF LongerBy
  <2>3. /\ Of(p, "start") = Of(q, "start") \cup {Len(q) + 1}
        /\ Of(p, "reconcile") = Of(q, "reconcile")
    BY <2>2
  <2> QED BY <2>1, <2>3 DEF LongerBy
<1>5. Current(m, q) = {}
  BY <1>2 DEF StartsFit
<1>6. Current(n, p) = {Len(q) + 1}
  BY <1>3, <1>4, <1>5 DEF Current, Of
<1>7. \A k \in Of(p, "start") :
          p[k].generation \in Nat /\ p[k].generation <= n.generation
  BY <1>2, <1>3, <1>4 DEF StartsFit, Of, IsMachine
<1>8. StartsFit(n, p)
  BY <1>3, <1>6, <1>7 DEF StartsFit, Alone
<1>9. ReconcilesFit(n, p)
  BY <1>2, <1>3, <1>4 DEF ReconcilesFit
<1> QED BY <1>1, <1>3, <1>4, <1>8, <1>9 DEF Kept

LEMMA SendsReconcile ==
    ASSUME NEW m, NEW q, Kept(m, q), ~m.reconciling,
           NEW e, e.route = "reconcile",
           NEW n, n = [m EXCEPT !.reconciling = TRUE]
    PROVE  Kept(n, q \o <<e>>)
<1>1. PICK p : p = q \o <<e>>
  OBVIOUS
<1>2. IsMachine(m) /\ IsSeq(q) /\ StartsFit(m, q) /\ ReconcilesFit(m, q)
  BY DEF Kept
<1>3. /\ IsMachine(n)
      /\ n.eligible = m.eligible /\ n.generation = m.generation
      /\ n.session = m.session /\ n.starting = m.starting
      /\ n.reconciling = TRUE
  BY <1>2 DEF IsMachine
<1>4. /\ IsSeq(p)
      /\ Of(p, "start") = Of(q, "start")
      /\ Of(p, "reconcile") = Of(q, "reconcile") \cup {Len(q) + 1}
      /\ \A k \in DOMAIN q : p[k] = q[k]
  <2>1. LongerBy(q, e, p)
    BY <1>1, <1>2, Longer
  <2>2. \A route : Of(p, route) =
            Of(q, route) \cup {k \in {Len(q) + 1} : e.route = route}
    BY <2>1 DEF LongerBy
  <2>3. /\ Of(p, "start") = Of(q, "start")
        /\ Of(p, "reconcile") = Of(q, "reconcile") \cup {Len(q) + 1}
    BY <2>2
  <2> QED BY <2>1, <2>3 DEF LongerBy
<1>5. Current(n, p) = Current(m, q)
  BY <1>3, <1>4 DEF Current, Of
<1>6. StartsFit(n, p)
  BY <1>2, <1>3, <1>4, <1>5 DEF StartsFit, Of
<1>7. Of(q, "reconcile") = {}
  BY <1>2 DEF ReconcilesFit
<1>8. ReconcilesFit(n, p)
  BY <1>3, <1>4, <1>7 DEF ReconcilesFit, Alone
<1> QED BY <1>1, <1>3, <1>4, <1>6, <1>8 DEF Kept
----------------------------------------------------------------------------
(* What is taken from the head of the queue.                               *)

LEMMA TakesOther ==
    ASSUME NEW m, NEW q, Kept(m, q), q # <<>>,
           Head(q).route \notin {"start", "reconcile"}
    PROVE  Kept(m, Tail(q))
<1>1. PICK p : p = Tail(q)
  OBVIOUS
<1>2. IsMachine(m) /\ IsSeq(q) /\ StartsFit(m, q) /\ ReconcilesFit(m, q)
  BY DEF Kept
<1>3. ShorterBy(q, p)
  BY <1>1, <1>2, Shorter
<1>4. ASSUME NEW route, Head(q).route # route
      PROVE  /\ \A k \in Of(p, route) : k + 1 \in Of(q, route)
             /\ \A k \in Of(q, route) : k - 1 \in Of(p, route)
  BY <1>3, <1>4 DEF Of, ShorterBy
<1>5. /\ \A k \in Current(m, p) : k + 1 \in Current(m, q)
      /\ \A k \in Current(m, q) : k - 1 \in Current(m, p)
  BY <1>3, <1>4 DEF Current, Of, ShorterBy
<1>6. StartsFit(m, p)
  <2>1. \A k \in Of(p, "start") :
            p[k].generation \in Nat /\ p[k].generation <= m.generation
    BY <1>2, <1>3, <1>4 DEF StartsFit, Of, ShorterBy
  <2>2. Alone(Current(m, p))
    <3>1. Current(m, p) \subseteq Nat
      BY <1>3 DEF Current, Of, ShorterBy
    <3>2. Alone(Current(m, q))
      BY <1>2 DEF StartsFit
    <3> QED BY <1>5, <3>1, <3>2 DEF Alone
  <2>3. Current(m, p) = {} <=> Current(m, q) = {}
    BY <1>5
  <2> QED BY <1>2, <2>1, <2>2, <2>3 DEF StartsFit
<1>7. ReconcilesFit(m, p)
  <2>1. Of(p, "reconcile") = {} <=> Of(q, "reconcile") = {}
    BY <1>4
  <2>2. Alone(Of(p, "reconcile"))
    <3>1. Of(p, "reconcile") \subseteq Nat
      BY <1>3 DEF Of, ShorterBy
    <3> QED BY <1>2, <1>4, <3>1 DEF ReconcilesFit, Alone
  <2> QED BY <1>2, <2>1, <2>2 DEF ReconcilesFit
<1> QED BY <1>1, <1>2, <1>3, <1>6, <1>7 DEF Kept, ShorterBy

LEMMA TakesReconcile ==
    ASSUME NEW m, NEW q, Kept(m, q), q # <<>>, Head(q).route = "reconcile",
           NEW n, n = [m EXCEPT !.reconciling = FALSE]
    PROVE  Kept(n, Tail(q))
<1>1. PICK p : p = Tail(q)
  OBVIOUS
<1>2. IsMachine(m) /\ IsSeq(q) /\ StartsFit(m, q) /\ ReconcilesFit(m, q)
  BY DEF Kept
<1>3. ShorterBy(q, p)
  BY <1>1, <1>2, Shorter
<1>4. /\ IsMachine(n)
      /\ n.eligible = m.eligible /\ n.generation = m.generation
      /\ n.session = m.session /\ n.starting = m.starting
      /\ n.reconciling = FALSE
  BY <1>2 DEF IsMachine
<1>5. /\ \A k \in Of(p, "start") : k + 1 \in Of(q, "start")
      /\ \A k \in Of(q, "start") : k - 1 \in Of(p, "start")
  BY <1>3 DEF Of, ShorterBy
<1>6. /\ \A k \in Current(n, p) : k + 1 \in Current(m, q)
      /\ \A k \in Current(m, q) : k - 1 \in Current(n, p)
  BY <1>3, <1>4, <1>5 DEF Current, Of, ShorterBy
<1>7. StartsFit(n, p)
  <2>1. \A k \in Of(p, "start") :
            p[k].generation \in Nat /\ p[k].generation <= n.generation
    BY <1>2, <1>3, <1>4, <1>5 DEF StartsFit, Of, ShorterBy
  <2>2. Alone(Current(n, p))
    <3>1. Current(n, p) \subseteq Nat
      BY <1>3 DEF Current, Of, ShorterBy
    <3>2. Alone(Current(m, q))
      BY <1>2 DEF StartsFit
    <3> QED BY ONLY <1>6, <3>1, <3>2 DEF Alone
  <2>3. Current(n, p) = {} <=> Current(m, q) = {}
    BY <1>6
  <2> QED BY <1>2, <1>4, <2>1, <2>2, <2>3 DEF StartsFit
<1>8. Of(p, "reconcile") = {}
  <2> SUFFICES ASSUME NEW k \in Of(p, "reconcile") PROVE FALSE
    OBVIOUS
  <2>1. 1 \in Of(q, "reconcile") /\ k + 1 \in Of(q, "reconcile") /\ k + 1 # 1
    BY <1>3 DEF Of, ShorterBy
  <2> QED BY <1>2, <2>1 DEF ReconcilesFit, Alone
<1>9. ReconcilesFit(n, p)
  BY <1>4, <1>8 DEF ReconcilesFit, Alone
<1> QED BY <1>1, <1>3, <1>4, <1>7, <1>9 DEF Kept, ShorterBy

(* A start of an earlier generation, then the present one: with it the     *)
(* machine is no longer starting.                                          *)

LEMMA TakesStart ==
    ASSUME NEW m, NEW q, Kept(m, q), q # <<>>, Head(q).route = "start",
           NEW n, IsMachine(n),
           n.eligible = m.eligible, n.generation = m.generation,
           n.session = m.session, n.reconciling = m.reconciling,
           n.starting <=>
               m.starting /\ Head(q).generation # m.generation
    PROVE  /\ Kept(n, Tail(q))
           /\ Head(q).generation = m.generation =>
                  m.eligible /\ m.session = 0
<1>1. PICK p : p = Tail(q)
  OBVIOUS
<1>2. IsMachine(m) /\ IsSeq(q) /\ StartsFit(m, q) /\ ReconcilesFit(m, q)
  BY DEF Kept
<1>3. ShorterBy(q, p)
  BY <1>1, <1>2, Shorter
<1>4. /\ \A k \in Of(p, "reconcile") : k + 1 \in Of(q, "reconcile")
      /\ \A k \in Of(q, "reconcile") : k - 1 \in Of(p, "reconcile")
  BY <1>3 DEF Of, ShorterBy
<1>5. ReconcilesFit(n, p)
  <2>1. Of(p, "reconcile") = {} <=> Of(q, "reconcile") = {}
    BY <1>4
  <2>2. Alone(Of(p, "reconcile"))
    <3>1. Of(p, "reconcile") \subseteq Nat
      BY <1>3 DEF Of, ShorterBy
    <3> QED BY <1>2, <1>4, <3>1 DEF ReconcilesFit, Alone
  <2> QED BY <1>2, <2>1, <2>2 DEF ReconcilesFit
<1>6. /\ \A k \in Current(n, p) : k + 1 \in Current(m, q) /\ k + 1 # 1
      /\ \A k \in Current(m, q) : k # 1 => k - 1 \in Current(n, p)
      /\ Current(n, p) \subseteq Nat
  BY <1>3 DEF Current, Of, ShorterBy
<1>7. \A k \in Of(p, "start") :
          p[k].generation \in Nat /\ p[k].generation <= n.generation
  BY <1>2, <1>3 DEF StartsFit, Of, ShorterBy
<1>8. Alone(Current(n, p))
  BY <1>2, <1>6 DEF StartsFit, Alone
<1>9. CASE Head(q).generation = m.generation
  <2>1. 1 \in Current(m, q)
    BY <1>3, <1>9 DEF Current, Of, ShorterBy
  <2>2. m.eligible /\ m.starting /\ m.session = 0
    BY <1>2, <2>1 DEF StartsFit, IsMachine
  <2>3. Current(n, p) = {}
    BY <1>2, <1>6, <2>1 DEF StartsFit, Alone
  <2>4. ~n.starting
    BY <1>9
  <2>5. StartsFit(n, p)
    BY <1>7, <1>8, <2>2, <2>3, <2>4 DEF StartsFit
  <2> QED BY <1>1, <1>3, <1>5, <2>2, <2>5 DEF Kept, ShorterBy
<1>10. CASE Head(q).generation # m.generation
  <2>1. 1 \notin Current(m, q)
    BY <1>3, <1>10 DEF Current, Of, ShorterBy
  <2>2. Current(n, p) = {} <=> Current(m, q) = {}
    BY <1>6, <2>1
  <2>3. n.starting <=> m.starting
    BY <1>10
  <2>4. StartsFit(n, p)
    BY <1>2, <1>7, <1>8, <2>2, <2>3 DEF StartsFit
  <2> QED BY <1>1, <1>3, <1>5, <1>10, <2>4 DEF Kept, ShorterBy
<1> QED BY <1>9, <1>10
----------------------------------------------------------------------------
(* What a machine's method may change while the queue stays.               *)

LEMMA Edited ==
    ASSUME NEW m, NEW q, Kept(m, q), NEW n, IsMachine(n),
           n.eligible = m.eligible, n.generation = m.generation,
           n.session = m.session, n.starting = m.starting,
           n.reconciling = m.reconciling
    PROVE  Kept(n, q)
<1>1. Current(n, q) = Current(m, q)
  BY DEF Current
<1>2. StartsFit(n, q)
  BY <1>1 DEF Kept, StartsFit
<1>3. ReconcilesFit(n, q)
  BY DEF Kept, ReconcilesFit
<1> QED BY <1>2, <1>3 DEF Kept

(* A new generation: no start in the queue is of it.                       *)
LEMMA Renewed ==
    ASSUME NEW m, NEW q, Kept(m, q), NEW n, IsMachine(n),
           n.generation = m.generation + 1, n.session = 0,
           n.eligible => ~n.starting, n.reconciling = m.reconciling
    PROVE  Kept(n, q)
<1>1. IsMachine(m) /\ IsSeq(q) /\ StartsFit(m, q) /\ ReconcilesFit(m, q)
  BY DEF Kept
<1>2. \A k \in Of(q, "start") :
          /\ q[k].generation \in Nat /\ q[k].generation <= n.generation
          /\ q[k].generation # n.generation
  BY <1>1 DEF StartsFit, IsMachine
<1>3. Current(n, q) = {}
  BY <1>2 DEF Current
<1>4. StartsFit(n, q)
  BY <1>2, <1>3 DEF StartsFit, Alone
<1>5. ReconcilesFit(n, q)
  BY <1>1 DEF ReconcilesFit
<1> QED BY <1>1, <1>4, <1>5 DEF Kept
----------------------------------------------------------------------------
(* The methods of the machine, one by one.                                 *)

Sends(o) == o.send = <<>> \/ \E e : o.send = <<e>>

(* The outcome fits the queue with what it sends behind it.                *)
Continues(m, q, o) ==
    /\ Fits(o.machine, q \o o.send)
    /\ Sends(o)
    /\ o.machine.eligible = m.eligible

LEMMA Quiet ==
    ASSUME NEW m, NEW q, Fits(m, q), NEW o, o = Nothing(m)
    PROVE  Continues(m, q, o)
<1>1. o.machine = m /\ o.send = <<>>
  BY DEF Nothing, Outcome
<1>2. q \o <<>> = q
  BY Same DEF Fits, Kept
<1> QED BY <1>1, <1>2 DEF Sends, Continues

LEMMA BeganFits ==
    ASSUME NEW m, NEW q, Fits(m, q), m.eligible, m.session = 0,
           NEW o, o = Began(m)
    PROVE  Continues(m, q, o)
<1>1. CASE m.starting
  <2>1. o = Nothing(m)
    BY <1>1 DEF Began
  <2> QED BY <2>1, Quiet
<1>2. CASE ~m.starting
  <2>1. PICK n : n = [m EXCEPT !.starting = TRUE, !.failedOffline = FALSE]
    OBVIOUS
  <2>2. PICK e : e = Message("start", 0, {}, m.generation)
    OBVIOUS
  <2>3. o.machine = n /\ o.send = <<e>>
    BY <1>2, <2>1, <2>2 DEF Began, Outcome
  <2>4. e.route = "start" /\ e.generation = m.generation
    BY <2>2 DEF Message
  <2>5. Kept(n, q \o <<e>>)
    BY <1>2, <2>1, <2>4, SendsStart DEF Fits
  <2>6. n.session = m.session /\ n.beats = m.beats /\ n.eligible = m.eligible
    BY <2>1 DEF Fits, Kept, IsMachine
  <2>7. BeatsFit(n)
    BY <2>6 DEF Fits, BeatsFit
  <2> QED BY <2>3, <2>5, <2>6, <2>7 DEF Fits, Sends, Continues
<1> QED BY <1>1, <1>2

LEMMA ObservedStart ==
    ASSUME NEW m, NEW q, Fits(m, q), ~m.eligible,
           NEW o, o = Observed(m, TRUE)
    PROVE  Fits(o.machine, q \o o.send) /\ Sends(o) /\ o.machine.eligible
<1>1. IsMachine(m) /\ m.session = 0
  BY DEF Fits, Kept, StartsFit
<1>2. PICK n : n = [Stopped(m) EXCEPT !.generation = @ + 1, !.eligible = TRUE]
  OBVIOUS
<1>3. PICK k : k = [n EXCEPT !.starting = FALSE]
  OBVIOUS
<1>4. /\ IsMachine(k)
      /\ n.session = 0 /\ k.session = 0
      /\ k.generation = m.generation + 1 /\ k.eligible = TRUE
      /\ k.starting = FALSE /\ k.beats = FALSE
      /\ k.reconciling = m.reconciling
  <2>1. PICK r : r = Stopped(m)
    OBVIOUS
  <2>2. /\ IsMachine(r)
        /\ r.session = m.session /\ r.generation = m.generation
        /\ r.reconciling = m.reconciling /\ r.beats = FALSE
    BY <1>1, <2>1 DEF IsMachine, Stopped
  <2>3. n = [r EXCEPT !.generation = @ + 1, !.eligible = TRUE]
    BY <1>2, <2>1
  <2>4. /\ IsMachine(n)
        /\ n.session = m.session /\ n.generation = m.generation + 1
        /\ n.reconciling = m.reconciling /\ n.beats = FALSE
        /\ n.eligible = TRUE
    <3>1. n = [eligible |-> TRUE, generation |-> r.generation + 1,
               session |-> r.session, anchor |-> r.anchor,
               reconciling |-> r.reconciling, starting |-> r.starting,
               failedOffline |-> r.failedOffline, beats |-> r.beats,
               next |-> r.next, offlineFailures |-> r.offlineFailures]
      BY <2>2, <2>3 DEF IsMachine
    <3>2. r.generation \in Nat /\ r.generation + 1 \in Nat
      BY <2>2 DEF IsMachine
    <3> QED BY <2>2, <3>1, <3>2 DEF IsMachine
  <2> QED BY <1>1, <1>3, <2>4 DEF IsMachine
<1>5. o = Began(k)
  BY <1>2, <1>3, <1>4 DEF Observed
<1>6. Kept(k, q)
  BY <1>4, Renewed DEF Fits
<1>7. Fits(k, q)
  BY <1>4, <1>6 DEF Fits, BeatsFit
<1> QED BY <1>4, <1>5, <1>7, BeganFits DEF Continues

LEMMA ObservedStop ==
    ASSUME NEW m, NEW q, Fits(m, q),
           NEW o, o = Observed(m, FALSE)
    PROVE  Fits(o.machine, q \o o.send) /\ Sends(o) /\ ~o.machine.eligible
<1>1. IsMachine(m)
  BY DEF Fits, Kept
<1>2. PICK n : n = [Stopped(m) EXCEPT !.generation = @ + 1, !.eligible = FALSE]
  OBVIOUS
<1>3. PICK k : k = [n EXCEPT !.failedOffline = FALSE, !.session = 0]
  OBVIOUS
<1>4. /\ IsMachine(k)
      /\ k.session = 0 /\ k.beats = FALSE
      /\ k.generation = m.generation + 1 /\ k.eligible = FALSE
      /\ k.reconciling = m.reconciling
  <2>1. PICK r : r = Stopped(m)
    OBVIOUS
  <2>2. /\ IsMachine(r)
        /\ r.session = m.session /\ r.generation = m.generation
        /\ r.reconciling = m.reconciling /\ r.beats = FALSE
    BY <1>1, <2>1 DEF IsMachine, Stopped
  <2>3. n = [r EXCEPT !.generation = @ + 1, !.eligible = FALSE]
    BY <1>2, <2>1
  <2>4. /\ IsMachine(n)
        /\ n.session = m.session /\ n.generation = m.generation + 1
        /\ n.reconciling = m.reconciling /\ n.beats = FALSE
        /\ n.eligible = FALSE
    <3>1. n = [eligible |-> FALSE, generation |-> r.generation + 1,
               session |-> r.session, anchor |-> r.anchor,
               reconciling |-> r.reconciling, starting |-> r.starting,
               failedOffline |-> r.failedOffline, beats |-> r.beats,
               next |-> r.next, offlineFailures |-> r.offlineFailures]
      BY <2>2, <2>3 DEF IsMachine
    <3>2. r.generation \in Nat /\ r.generation + 1 \in Nat
      BY <2>2 DEF IsMachine
    <3> QED BY <2>2, <3>1, <3>2 DEF IsMachine
  <2> QED BY <1>1, <1>3, <2>4 DEF IsMachine
<1>5. Kept(k, q)
  BY <1>4, Renewed DEF Fits
<1>6. Fits(k, q)
  BY <1>4, <1>5 DEF Fits, BeatsFit
<1>7. PICK e : e = Message("finish", n.session, {}, 0)
  OBVIOUS
<1>8. PICK send : send = IF n.session = 0 THEN <<>> ELSE <<e>>
  OBVIOUS
<1>11. o = Outcome(k, send)
  BY <1>2, <1>3, <1>7, <1>8 DEF Observed
<1>9. CASE n.session = 0
  <2>1. o = Nothing(k)
    BY <1>8, <1>9, <1>11 DEF Nothing, Outcome
  <2> QED BY <1>4, <1>6, <2>1, Quiet DEF Continues
<1>10. CASE n.session # 0
  <2>1. o.machine = k /\ o.send = <<e>>
    <3>1. send = <<e>>
      BY <1>8, <1>10
    <3>2. o.machine = k /\ o.send = send
      BY ONLY <1>11 DEF Outcome
    <3> QED BY ONLY <3>1, <3>2
  <2>2. e.route = "finish"
    BY <1>7 DEF Message
  <2>3. Kept(k, q \o <<e>>)
    BY <1>5, <2>2, SendsOther
  <2> QED BY <1>4, <1>6, <2>1, <2>3 DEF Fits, Sends
<1> QED BY <1>9, <1>10

LEMMA ConfirmedKept ==
    ASSUME NEW m, NEW q, Kept(m, q), NEW i, NEW o, o = Confirmed(m, i)
    PROVE  /\ Kept(o.machine, q \o o.send) /\ Sends(o)
           /\ o.machine.eligible = m.eligible
           /\ o.machine.session = m.session
           /\ o.machine.beats = m.beats
<1>1. IsMachine(m) /\ IsSeq(q)
  BY DEF Kept
<1>2. PICK n : n = [m EXCEPT !.anchor = [session |-> i, at |-> now]]
  OBVIOUS
<1>3. /\ IsMachine(n)
      /\ n.eligible = m.eligible /\ n.generation = m.generation
      /\ n.session = m.session /\ n.starting = m.starting
      /\ n.reconciling = m.reconciling /\ n.beats = m.beats
  BY <1>1, <1>2 DEF IsMachine
<1>4. Kept(n, q)
  BY <1>3, Edited
<1>5. PICK claim : claim = OfflineIntervals(m.anchor.at)
  OBVIOUS
<1>6. PICK e : e = Message("reconcile", m.anchor.session, claim, 0)
  OBVIOUS
<1>7. PICK k : k = [n EXCEPT !.reconciling = TRUE]
  OBVIOUS
<1>8. \/ o = Nothing(n)
      \/ ~m.reconciling /\ o = Outcome(k, <<e>>)
  BY <1>2, <1>5, <1>6, <1>7 DEF Confirmed
<1>9. CASE o = Nothing(n)
  <2>1. o.machine = n /\ o.send = <<>>
    BY <1>9 DEF Nothing, Outcome
  <2>2. q \o <<>> = q
    BY <1>1, Same
  <2> QED BY <1>3, <1>4, <2>1, <2>2 DEF Sends, Continues
<1>10. CASE ~m.reconciling /\ o = Outcome(k, <<e>>)
  <2>1. o.machine = k /\ o.send = <<e>>
    BY <1>10 DEF Outcome
  <2>2. e.route = "reconcile"
    BY <1>6 DEF Message
  <2>3. ~n.reconciling
    BY <1>3, <1>10
  <2>4. Kept(k, q \o <<e>>)
    BY <1>4, <1>7, <2>2, <2>3, SendsReconcile
  <2>5. /\ k.eligible = m.eligible /\ k.session = m.session
        /\ k.beats = m.beats
    BY <1>3, <1>7 DEF IsMachine
  <2> QED BY <2>1, <2>4, <2>5 DEF Sends, Continues
<1> QED BY <1>8, <1>9, <1>10

LEMMA BeatsOn ==
    ASSUME NEW m, NEW q, Fits(m, q),
           NEW o, o = Outcome(m, <<Message("heartbeat", m.session, {}, 0)>>)
    PROVE  Continues(m, q, o)
<1>1. PICK e : e = Message("heartbeat", m.session, {}, 0)
  OBVIOUS
<1>2. o.machine = m /\ o.send = <<e>> /\ e.route = "heartbeat"
  BY <1>1 DEF Outcome, Message
<1>3. Kept(m, q \o <<e>>)
  BY <1>2, SendsOther DEF Fits
<1> QED BY <1>2, <1>3 DEF Fits, Sends, Continues

LEMMA DueFits ==
    ASSUME NEW m, NEW q, Fits(m, q), NEW o, o = HeartbeatDue(m)
    PROVE  Continues(m, q, o)
<1>1. CASE m.eligible /\ m.session # 0
  <2>1. o = Outcome(m, <<Message("heartbeat", m.session, {}, 0)>>)
    BY <1>1 DEF HeartbeatDue
  <2> QED BY <2>1, BeatsOn
<1>2. CASE m.eligible /\ m.session = 0
  <2>1. o = Began(m) \/ o = Nothing(m)
    BY <1>2 DEF HeartbeatDue
  <2> QED BY <1>2, <2>1, BeganFits, Quiet
<1>3. CASE ~m.eligible
  <2>1. o = Nothing(m)
    BY <1>3 DEF HeartbeatDue
  <2> QED BY <2>1, Quiet
<1> QED BY <1>1, <1>2, <1>3

LEMMA RestoredFits ==
    ASSUME NEW m, NEW q, Fits(m, q), NEW o, o = Restored(m)
    PROVE  Continues(m, q, o)
<1>1. CASE m.eligible /\ m.session # 0
  <2>1. o = Outcome(m, <<Message("heartbeat", m.session, {}, 0)>>)
    BY <1>1 DEF Restored
  <2> QED BY <2>1, BeatsOn
<1>2. CASE m.eligible /\ m.session = 0
  <2>1. o = Began(m)
    BY <1>2 DEF Restored
  <2> QED BY <1>2, <2>1, BeganFits
<1>3. CASE ~m.eligible
  <2>1. o = Nothing(m)
    BY <1>3 DEF Restored
  <2> QED BY <2>1, Quiet
<1> QED BY <1>1, <1>2, <1>3

LEMMA TrackedFits ==
    ASSUME NEW m, NEW q, Fits(m, q), NEW reply, NEW o, o = Tracked(m, reply)
    PROVE  Continues(m, q, o)
<1>1. ASSUME NEW x, NEW n, n = [m EXCEPT !.offlineFailures = x]
      PROVE  Fits(n, q) /\ n.eligible = m.eligible
  <2>1. /\ IsMachine(n)
        /\ n.eligible = m.eligible /\ n.generation = m.generation
        /\ n.session = m.session /\ n.starting = m.starting
        /\ n.reconciling = m.reconciling /\ n.beats = m.beats
    BY <1>1 DEF Fits, Kept, IsMachine
  <2>2. Kept(n, q)
    BY <2>1, Edited DEF Fits
  <2> QED BY <2>1, <2>2 DEF Fits, BeatsFit
<1>2. CASE reply = "offline"
  <2>1. PICK n : n = [m EXCEPT !.offlineFailures = TRUE]
    OBVIOUS
  <2>2. o = Nothing(n)
    BY <1>2, <2>1 DEF Tracked
  <2>3. Fits(n, q) /\ n.eligible = m.eligible
    BY <1>1, <2>1
  <2> QED BY <2>2, <2>3, Quiet DEF Continues
<1>3. CASE reply = "ok" /\ m.offlineFailures
  <2>1. PICK n : n = [m EXCEPT !.offlineFailures = FALSE]
    OBVIOUS
  <2>2. o = Restored(n)
    BY <1>3, <2>1 DEF Tracked
  <2>3. Fits(n, q) /\ n.eligible = m.eligible
    BY <1>1, <2>1
  <2> QED BY <2>2, <2>3, RestoredFits DEF Continues
<1>4. CASE reply # "offline" /\ ~(reply = "ok" /\ m.offlineFailures)
  <2>1. o = Nothing(m)
    BY <1>4 DEF Tracked
  <2> QED BY <2>1, Quiet
<1> QED BY <1>2, <1>3, <1>4
----------------------------------------------------------------------------
(* The reply to the request at the head of the queue.                      *)

LEMMA StartSucceededFits ==
    ASSUME NEW m, NEW q, Fits(m, q), q # <<>>, Head(q).route = "start",
           NEW i, i # 0,
           NEW o, o = StartSucceeded(m, Head(q).generation, i)
    PROVE  Continues(m, Tail(q), o)
<1>1. IsMachine(m) /\ Kept(m, q) /\ BeatsFit(m) /\ StartsFit(m, q)
  BY DEF Fits, Kept
<1>2. PICK g : g = Head(q).generation
  OBVIOUS
<1>3. PICK n : n = [m EXCEPT !.starting = @ /\ g # m.generation]
  OBVIOUS
<1>4. /\ IsMachine(n)
      /\ n.eligible = m.eligible /\ n.generation = m.generation
      /\ n.session = m.session /\ n.reconciling = m.reconciling
      /\ n.beats = m.beats
      /\ n.starting <=> m.starting /\ g # m.generation
  BY <1>1, <1>3 DEF IsMachine
<1>5. /\ Kept(n, Tail(q))
      /\ g = m.generation => m.eligible /\ m.session = 0
  BY <1>1, <1>2, <1>4, TakesStart
<1>6. CASE g # m.generation \/ ~m.eligible
  <2>1. PICK e : e = Message("finish", i, {}, 0)
    OBVIOUS
  <2>2. o = Outcome(n, <<e>>)
    BY <1>2, <1>3, <1>6, <2>1 DEF StartSucceeded
  <2>3. o.machine = n /\ o.send = <<e>>
    BY ONLY <2>2 DEF Outcome
  <2>4. e.route = "finish"
    BY <2>1 DEF Message
  <2>5. Kept(n, Tail(q) \o <<e>>)
    BY <1>5, <2>4, SendsOther
  <2>6. BeatsFit(n)
    BY <1>1, <1>4 DEF BeatsFit
  <2> QED BY <1>4, <2>3, <2>5, <2>6 DEF Fits, Sends, Continues
<1>7. CASE g = m.generation /\ m.eligible
  <2>1. PICK k : k = [n EXCEPT !.session = i]
    OBVIOUS
  <2>2. /\ IsMachine(k)
        /\ k.eligible = m.eligible /\ k.generation = m.generation
        /\ k.session = i /\ k.reconciling = m.reconciling
        /\ ~k.starting /\ ~n.starting /\ n.eligible
    BY <1>4, <1>7, <2>1 DEF IsMachine
  <2>3. Kept(k, Tail(q))
    <3>1. PICK p : p = Tail(q)
      OBVIOUS
    <3>2. Kept(n, p)
      BY <1>5, <3>1
    <3>3. Current(k, p) = Current(n, p)
      BY <1>4, <2>2 DEF Current
    <3>4. StartsFit(k, p)
      BY <1>4, <2>2, <3>2, <3>3 DEF Kept, StartsFit
    <3>5. ReconcilesFit(k, p)
      BY <1>4, <2>2, <3>2 DEF Kept, ReconcilesFit
    <3> QED BY <2>2, <3>1, <3>2, <3>4, <3>5 DEF Kept
  <2>4. PICK c : c = Confirmed(k, i)
    OBVIOUS
  <2>5. /\ Kept(c.machine, Tail(q) \o c.send) /\ Sends(c)
        /\ c.machine.eligible = k.eligible
        /\ c.machine.session = k.session
    BY <2>3, <2>4, ConfirmedKept
  <2>6. PICK r : r = c.machine
    OBVIOUS
  <2>7. PICK v : v = Scheduled(r)
    OBVIOUS
  <2>8. o = Outcome(v, c.send)
    BY <1>2, <1>3, <1>7, <2>1, <2>4, <2>6, <2>7 DEF StartSucceeded
  <2>9. /\ IsMachine(v)
        /\ v.eligible = r.eligible /\ v.generation = r.generation
        /\ v.session = r.session /\ v.starting = r.starting
        /\ v.reconciling = r.reconciling /\ v.beats = TRUE
    BY <2>5, <2>6, <2>7 DEF Kept, IsMachine, Scheduled
  <2>10. Kept(v, Tail(q) \o c.send)
    BY <2>5, <2>6, <2>9, Edited
  <2>11. o.machine = v /\ o.send = c.send
    BY ONLY <2>8 DEF Outcome
  <2>12. BeatsFit(v)
    BY <2>2, <2>5, <2>6, <2>9 DEF BeatsFit
  <2> QED BY <2>2, <2>5, <2>6, <2>9, <2>10, <2>11, <2>12
          DEF Fits, Sends, Continues
<1> QED BY <1>6, <1>7

LEMMA StartFailedFits ==
    ASSUME NEW m, NEW q, Fits(m, q), q # <<>>, Head(q).route = "start",
           NEW reply,
           NEW n, n = StartFailed(m, Head(q).generation, reply)
    PROVE  /\ Fits(n, Tail(q))
           /\ n.eligible = m.eligible
<1>1. IsMachine(m) /\ Kept(m, q) /\ BeatsFit(m)
  BY DEF Fits, Kept
<1>2. PICK g : g = Head(q).generation
  OBVIOUS
<1>3. /\ IsMachine(n)
      /\ n.eligible = m.eligible /\ n.generation = m.generation
      /\ n.session = m.session /\ n.reconciling = m.reconciling
      /\ n.beats = m.beats
      /\ n.starting <=> m.starting /\ g # m.generation
  <2>1. CASE g = m.generation
    <3>1. PICK x : x = (reply = "offline" /\ m.eligible)
      OBVIOUS
    <3>2. n = [m EXCEPT !.starting = FALSE, !.failedOffline = x]
      BY <1>2, <2>1, <3>1 DEF StartFailed
    <3> QED BY <1>1, <2>1, <3>2 DEF IsMachine
  <2>2. CASE g # m.generation
    <3>1. n = m
      BY <1>2, <2>2 DEF StartFailed
    <3> QED BY <1>1, <2>2, <3>1
  <2> QED BY <2>1, <2>2
<1>4. Kept(n, Tail(q))
  BY <1>1, <1>2, <1>3, TakesStart
<1> QED BY <1>1, <1>3, <1>4 DEF Fits, BeatsFit

LEMMA HeartbeatFailedFits ==
    ASSUME NEW m, NEW q, Fits(m, q), NEW i, NEW reply,
           NEW o, o = HeartbeatFailed(m, i, reply)
    PROVE  Continues(m, q, o)
<1>1. /\ IsMachine(m) /\ Kept(m, q) /\ BeatsFit(m)
      /\ StartsFit(m, q) /\ ReconcilesFit(m, q) /\ IsSeq(q)
  BY DEF Fits, Kept
<1>2. PICK n : n = [m EXCEPT !.session = 0]
  OBVIOUS
<1>3. /\ IsMachine(n)
      /\ n.eligible = m.eligible /\ n.generation = m.generation
      /\ n.session = 0 /\ n.reconciling = m.reconciling
      /\ n.starting = m.starting /\ n.beats = m.beats
  BY <1>1, <1>2 DEF IsMachine
<1>4. Kept(n, q)
  <2>1. Current(n, q) = Current(m, q)
    BY <1>3 DEF Current
  <2>2. StartsFit(n, q)
    BY <1>1, <1>3, <2>1 DEF StartsFit
  <2>3. ReconcilesFit(n, q)
    BY <1>1, <1>3 DEF ReconcilesFit
  <2> QED BY <1>1, <1>3, <2>2, <2>3 DEF Kept
<1>5. CASE reply # "notfound" \/ m.session # i
  <2>1. o = Nothing(m)
    BY <1>5 DEF HeartbeatFailed
  <2> QED BY <2>1, Quiet
<1>6. CASE reply = "notfound" /\ m.session = i /\ ~m.eligible
  <2>1. o = Nothing(n)
    BY <1>2, <1>6 DEF HeartbeatFailed
  <2>2. m.session = 0
    BY <1>1, <1>6 DEF StartsFit
  <2>3. Fits(n, q)
    BY <1>1, <1>3, <1>4, <2>2 DEF Fits, BeatsFit
  <2> QED BY <1>3, <2>1, <2>3, Quiet DEF Continues
<1>7. CASE reply = "notfound" /\ m.session = i /\ m.eligible
  <2>1. PICK b : b = Began(n)
    OBVIOUS
  <2>2. o = IF b.send = <<>> THEN b ELSE Outcome(Stopped(b.machine), b.send)
    BY <1>2, <1>7, <2>1 DEF HeartbeatFailed
  <2>3. CASE m.starting
    <3>1. m.session = 0
      BY <1>1, <1>7, <2>3 DEF StartsFit
    <3>2. Fits(n, q)
      BY <1>1, <1>3, <1>4, <3>1 DEF Fits, BeatsFit
    <3>3. b = Nothing(n)
      BY <1>3, <2>1, <2>3 DEF Began
    <3>4. b.send = <<>>
      BY <3>3 DEF Nothing, Outcome
    <3>5. o = Nothing(n)
      BY <2>2, <3>3, <3>4
    <3> QED BY <1>3, <3>2, <3>5, Quiet DEF Continues
  <2>4. CASE ~m.starting
    <3>1. PICK k : k = [n EXCEPT !.starting = TRUE, !.failedOffline = FALSE]
      OBVIOUS
    <3>2. PICK e : e = Message("start", 0, {}, n.generation)
      OBVIOUS
    <3>3. b = Outcome(k, <<e>>)
      BY <1>3, <2>1, <2>4, <3>1, <3>2 DEF Began
    <3>4. b.machine = k /\ b.send = <<e>>
      BY ONLY <3>3 DEF Outcome
    <3>5. PICK v : v = Stopped(k)
      OBVIOUS
    <3>6. o = Outcome(v, <<e>>)
      BY <2>2, <3>4, <3>5
    <3>7. o.machine = v /\ o.send = <<e>>
      BY ONLY <3>6 DEF Outcome
    <3>8. e.route = "start" /\ e.generation = n.generation
      BY <3>2 DEF Message
    <3>9. Kept(k, q \o <<e>>)
      BY <1>3, <1>4, <1>7, <2>4, <3>1, <3>8, SendsStart
    <3>10. /\ IsMachine(k)
           /\ k.eligible = m.eligible /\ k.session = 0
      BY <1>3, <3>1 DEF IsMachine
    <3>11. /\ IsMachine(v)
           /\ v.eligible = k.eligible /\ v.generation = k.generation
           /\ v.session = k.session /\ v.starting = k.starting
           /\ v.reconciling = k.reconciling /\ v.beats = FALSE
      BY <3>5, <3>10 DEF IsMachine, Stopped
    <3>12. Kept(v, q \o <<e>>)
      BY <3>9, <3>11, Edited
    <3> QED BY <3>7, <3>10, <3>11, <3>12 DEF Fits, BeatsFit, Sends, Continues
  <2> QED BY <2>3, <2>4
<1> QED BY <1>5, <1>6, <1>7

LEMMA RepliedFits ==
    ASSUME NEW m, NEW q, Fits(m, q), q # <<>>, NEW session, NEW reply,
           Head(q).route = "start" /\ reply = "ok" => session # 0,
           NEW o, o = BackgroundReply(m, Head(q), session, reply)
    PROVE  Continues(m, Tail(q), o)
<1>1. PICK r : r = Head(q)
  OBVIOUS
<1>2. PICK t : t = Tail(q)
  OBVIOUS
<1>3. CASE r.route = "start"
  <2>1. CASE reply = "ok"
    <3>1. o = StartSucceeded(m, Head(q).generation, session)
      BY <1>1, <1>3, <2>1 DEF BackgroundReply
    <3>2. session # 0 /\ Head(q).route = "start"
      BY <1>1, <1>3, <2>1
    <3> QED BY <3>1, <3>2, StartSucceededFits
  <2>2. CASE reply # "ok"
    <3>1. PICK n : n = StartFailed(m, Head(q).generation, reply)
      OBVIOUS
    <3>2. o = Nothing(n)
      BY <1>1, <1>3, <2>2, <3>1 DEF BackgroundReply
    <3>3. Fits(n, Tail(q)) /\ n.eligible = m.eligible
      BY <1>1, <1>3, <3>1, StartFailedFits
    <3> QED BY <3>2, <3>3, Quiet DEF Continues
  <2> QED BY <2>1, <2>2
<1>4. CASE r.route = "reconcile"
  <2>1. PICK n : n = [m EXCEPT !.reconciling = FALSE]
    OBVIOUS
  <2>2. o = Nothing(n)
    BY <1>1, <1>4, <2>1 DEF BackgroundReply
  <2>3. Kept(n, Tail(q))
    BY <1>1, <1>4, <2>1, TakesReconcile DEF Fits
  <2>4. /\ n.eligible = m.eligible /\ n.session = m.session
        /\ n.beats = m.beats
    BY <2>1 DEF Fits, Kept, IsMachine
  <2>5. Fits(n, Tail(q))
    BY <2>3, <2>4 DEF Fits, BeatsFit
  <2> QED BY <2>2, <2>4, <2>5, Quiet DEF Continues
<1>5. CASE r.route \notin {"start", "reconcile"}
  <2>1. Fits(m, Tail(q))
    BY <1>1, <1>5, TakesOther DEF Fits
  <2>2. CASE r.route = "heartbeat" /\ reply = "ok"
    <3>1. o = Confirmed(m, Head(q).session)
      BY <1>1, <2>2 DEF BackgroundReply
    <3>2. /\ Kept(o.machine, Tail(q) \o o.send) /\ Sends(o)
          /\ o.machine.eligible = m.eligible
          /\ o.machine.session = m.session
          /\ o.machine.beats = m.beats
      BY <2>1, <3>1, ConfirmedKept DEF Fits
    <3> QED BY <2>1, <3>2 DEF Fits, BeatsFit, Continues
  <2>3. CASE r.route = "heartbeat" /\ reply # "ok"
    <3>1. o = HeartbeatFailed(m, Head(q).session, reply)
      BY <1>1, <2>3 DEF BackgroundReply
    <3> QED BY <2>1, <3>1, HeartbeatFailedFits
  <2>4. CASE r.route # "heartbeat"
    <3>1. o = Nothing(m)
      BY <1>1, <1>5, <2>4 DEF BackgroundReply
    <3> QED BY <2>1, <3>1, Quiet
  <2> QED BY <2>2, <2>3, <2>4
<1> QED BY <1>3, <1>4, <1>5

(* on_reply: track_connectivity, then the handler.                         *)
LEMMA OnReplyFits ==
    ASSUME Fits(client, outbox), outbox # <<>>, NEW session, NEW reply,
           Head(outbox).route = "start" /\ reply = "ok" => session # 0,
           OnReply(session, reply)
    PROVE  /\ Fits(client', outbox')
           /\ client'.eligible = client.eligible
<1>1. PICK m, q : m = client /\ q = outbox
  OBVIOUS
<1>2. PICK tracked : tracked = Tracked(m, reply)
  OBVIOUS
<1>3. PICK handled :
          handled = BackgroundReply(tracked.machine, Head(q), session, reply)
  OBVIOUS
<1>4. /\ client' = handled.machine
      /\ outbox' = Tail(q) \o tracked.send \o handled.send
  BY <1>1, <1>2, <1>3 DEF OnReply
<1>5. /\ Fits(m, q) /\ q # <<>> /\ IsSeq(q)
      /\ Head(q).route = "start" /\ reply = "ok" => session # 0
  BY <1>1 DEF Fits, Kept
<1>6. PICK n, p : n = tracked.machine /\ p = q \o tracked.send
  OBVIOUS
<1>7. Fits(n, p) /\ Sends(tracked) /\ n.eligible = m.eligible
  <2>1. Continues(m, q, tracked)
    BY <1>2, <1>5, TrackedFits
  <2> QED BY <1>6, <2>1 DEF Continues
<1>8. /\ p # <<>> /\ Head(p) = Head(q)
      /\ Tail(p) = Tail(q) \o tracked.send
  <2>1. CASE tracked.send = <<>>
    <3>1. q \o <<>> = q
      BY <1>5, Same
    <3>2. IsSeq(Tail(q))
      BY <1>5, Shorter DEF ShorterBy
    <3>3. Tail(q) \o <<>> = Tail(q)
      BY <3>2, Same
    <3> QED BY <1>5, <1>6, <2>1, <3>1, <3>3
  <2>2. ASSUME NEW e, tracked.send = <<e>>
        PROVE  /\ p # <<>> /\ Head(p) = Head(q)
               /\ Tail(p) = Tail(q) \o tracked.send
    <3>1. p = q \o <<e>>
      BY <1>6, <2>2
    <3>2. LongerBy(q, e, p)
      BY <1>5, <3>1, Longer
    <3> QED BY <1>5, <2>2, <3>2 DEF LongerBy
  <2> QED BY <1>7, <2>1, <2>2 DEF Sends, Continues
<1>9. handled = BackgroundReply(n, Head(p), session, reply)
  BY <1>3, <1>6, <1>8
<1>10. Head(p).route = "start" /\ reply = "ok" => session # 0
  BY <1>5, <1>8
<1>11. /\ Fits(handled.machine, Tail(p) \o handled.send)
       /\ handled.machine.eligible = n.eligible
  <2>1. p # <<>> /\ Fits(n, p)
    BY <1>7, <1>8
  <2>2. Continues(n, Tail(p), handled)
    BY ONLY <1>9, <1>10, <2>1, RepliedFits
  <2> QED BY ONLY <2>2 DEF Continues
<1>12. outbox' = Tail(p) \o handled.send
  BY ONLY <1>4, <1>8
<1>13. Fits(client', outbox')
  BY ONLY <1>4, <1>11, <1>12
<1> QED BY <1>1, <1>4, <1>7, <1>11, <1>13
----------------------------------------------------------------------------
(* The Worker: a call keeps its route, and the answer of a start that      *)
(* succeeds names a session.                                               *)

IsCall(k) ==
    k = [route |-> k.route, session |-> k.session, claim |-> k.claim,
         at |-> k.at, row |-> k.row, beat |-> k.beat, gap |-> k.gap,
         reply |-> k.reply]

NamesSession(k) ==
    k.at = "answered" /\ k.reply = "ok" /\ k.route = "start" => k.session # 0

CallOK(k) == IsCall(k) /\ NamesSession(k)

CallsOK ==
    /\ calls = [c \in Slots |-> calls[c]]
    /\ \A c \in Slots : CallOK(calls[c])
    /\ IsSeq(sessions)

(* What a statement of the handler does to the call it is made for.        *)
Advances(c) ==
    /\ calls[c].at # "idle"
    /\ calls'[c].route = calls[c].route
    /\ \A d \in Slots \ {c} : calls'[d] = calls[d]

LEMMA Advanced ==
    ASSUME CallsOK, IsSeq(sessions'), NEW c \in Slots,
           NEW k, calls' = [calls EXCEPT ![c] = k], CallOK(k),
           k.route = calls[c].route, calls[c].at # "idle"
    PROVE  CallsOK' /\ Advances(c)
<1>1. PICK was : was = calls
  OBVIOUS
<1>2. was = [d \in Slots |-> was[d]] /\ \A d \in Slots : CallOK(was[d])
  BY <1>1 DEF CallsOK
<1>3. PICK new : new = calls'
  OBVIOUS
<1>4. /\ new = [d \in Slots |-> new[d]]
      /\ new[c] = k
      /\ \A d \in Slots \ {c} : new[d] = was[d]
  BY <1>1, <1>2, <1>3
<1>5. \A d \in Slots : CallOK(new[d])
  BY <1>2, <1>4
<1>6. CallsOK'
  BY <1>3, <1>4, <1>5 DEF CallsOK
<1> QED BY <1>1, <1>3, <1>4, <1>6 DEF Advances

LEMMA Replaced ==
    ASSUME NEW s, IsSeq(s), NEW t, t = [k \in DOMAIN s |-> t[k]]
    PROVE  IsSeq(t)
<1>1. PICK S : s \in Seq(S)
  BY DEF IsSeq
<1>2. PICK n \in Nat : n = Len(s) /\ DOMAIN s = 1..n
  BY <1>1
<1>3. PICK T : T = {t[k] : k \in 1..n}
  OBVIOUS
<1>4. t \in [1..n -> T]
  BY <1>2, <1>3
<1>5. t \in Seq(T)
  BY <1>4, SeqDef
<1> QED BY <1>5 DEF IsSeq

LEMMA AnswerOK ==
    ASSUME NEW route, NEW session, NEW reply,
           reply = "ok" /\ route = "start" => session # 0,
           NEW k, k = Answered(route, session, reply)
    PROVE  CallOK(k) /\ k.route = route
<1>1. k = [route |-> route, session |-> session, claim |-> {},
           at |-> "answered", row |-> 0, beat |-> 0, gap |-> 0,
           reply |-> reply]
  BY DEF Answered, Request
<1>2. IsCall(k)
  BY <1>1 DEF IsCall
<1> QED BY <1>1, <1>2 DEF CallOK, NamesSession

LEMMA AnsweredStep ==
    ASSUME CallsOK, IsSeq(sessions'), NEW c \in Slots, calls[c].at # "idle",
           NEW reply, Answer(c, reply),
           reply = "ok" => calls[c].route # "start"
    PROVE  CallsOK' /\ Advances(c)
<1>1. PICK k : k = Answered(calls[c].route, 0, reply)
  OBVIOUS
<1>2. calls' = [calls EXCEPT ![c] = k]
  BY <1>1 DEF Answer
<1>3. CallOK(k) /\ k.route = calls[c].route
  BY <1>1, AnswerOK
<1> QED BY <1>2, <1>3, Advanced

LEMMA SessionStep ==
    ASSUME CallsOK, IsSeq(sessions'), NEW c \in Slots, calls[c].at # "idle",
           calls[c].route = "start", NEW i, i # 0, AnswerSession(c, i)
    PROVE  CallsOK' /\ Advances(c)
<1>1. PICK k : k = Answered("start", i, "ok")
  OBVIOUS
<1>2. calls' = [calls EXCEPT ![c] = k]
  BY <1>1 DEF AnswerSession
<1>3. CallOK(k) /\ k.route = calls[c].route
  BY <1>1, AnswerOK
<1> QED BY <1>2, <1>3, Advanced

LEMMA GoneTo ==
    ASSUME CallsOK, IsSeq(sessions'), NEW c \in Slots, calls[c].at # "idle",
           NEW place, place # "answered", GoTo(c, place)
    PROVE  CallsOK' /\ Advances(c)
<1>1. PICK was : was = calls[c]
  OBVIOUS
<1>2. PICK k : k = [was EXCEPT !.at = place]
  OBVIOUS
<1>3. IsCall(was)
  BY <1>1 DEF CallsOK, CallOK
<1>4. IsCall(k) /\ k.at = place /\ k.route = was.route
  BY <1>2, <1>3 DEF IsCall
<1>5. calls' = [calls EXCEPT ![c] = k]
  BY <1>1, <1>2 DEF GoTo
<1>6. CallOK(k)
  BY <1>4 DEF CallOK, NamesSession
<1> QED BY <1>1, <1>4, <1>5, <1>6, Advanced

LEMMA RowTaken ==
    ASSUME CallsOK, IsSeq(sessions'), NEW c \in Slots, calls[c].at # "idle",
           NEW i, FinishRow(c, i)
    PROVE  CallsOK' /\ Advances(c)
<1>1. PICK was : was = calls[c]
  OBVIOUS
<1>2. PICK b : b = sessions[i].beat
  OBVIOUS
<1>3. PICK k : k = [was EXCEPT !.at = "updating", !.row = i, !.beat = b]
  OBVIOUS
<1>4. IsCall(was)
  BY <1>1 DEF CallsOK, CallOK
<1>5. IsCall(k) /\ k.at = "updating" /\ k.route = was.route
  BY <1>3, <1>4 DEF IsCall
<1>6. calls' = [calls EXCEPT ![c] = k]
  BY <1>1, <1>2, <1>3 DEF FinishRow, CallsOK
<1>7. CallOK(k)
  BY <1>5 DEF CallOK, NamesSession
<1> QED BY <1>1, <1>5, <1>6, <1>7, Advanced
----------------------------------------------------------------------------
(* The statements of the handlers.                                         *)

LEMMA SlotAnswered ==
    ASSUME CallsOK, NEW c \in Slots, UNCHANGED sessions,
           calls[c].at # "idle", NEW reply, Answer(c, reply),
           reply = "ok" => calls[c].route # "start"
    PROVE  CallsOK' /\ Advances(c)
<1>1. IsSeq(sessions')
  BY DEF CallsOK
<1> QED BY <1>1, AnsweredStep

LEMMA AfterFinished ==
    ASSUME CallsOK, NEW c \in Slots, IsSeq(sessions'),
           calls[c].at # "idle", AfterFinishing(c)
    PROVE  CallsOK' /\ Advances(c)
<1>1. CASE calls[c].route = "start"
  <2>1. GoTo(c, "inserting")
    BY <1>1 DEF AfterFinishing
  <2> QED BY <2>1, GoneTo
<1>2. CASE calls[c].route # "start"
  <2>1. Answer(c, "ok")
    BY <1>2 DEF AfterFinishing
  <2> QED BY <1>2, <2>1, AnsweredStep
<1> QED BY <1>1, <1>2

LEMMA ActiveNamed ==
    ASSUME IsSeq(sessions), NEW i \in Active
    PROVE  i \in DOMAIN sessions /\ i # 0
BY DEF IsSeq, Active

LEMMA StartStep ==
    ASSUME CallsOK, NEW c \in Slots,
           \/ StartResumes(c) \/ StartReplaces(c) \/ StartFresh(c)
           \/ Insert(c) \/ InsertRefused(c)
    PROVE  CallsOK' /\ Advances(c)
<1>1. IsSeq(sessions)
  BY DEF CallsOK
<1>2. calls[c].route = "start" /\ calls[c].at \in {"arrived", "inserting"}
  BY DEF StartResumes, StartReplaces, StartFresh, Insert, InsertRefused, At
<1>3. calls[c].at # "idle"
  BY <1>2
<1>4. CASE StartResumes(c)
  <2>1. PICK i \in Active : AnswerSession(c, i)
    BY <1>4 DEF StartResumes
  <2>2. IsSeq(sessions')
    BY <1>1, <1>4 DEF StartResumes, tables
  <2>3. i # 0
    BY <1>1, <2>1, ActiveNamed
  <2> QED BY <1>2, <1>3, <2>1, <2>2, <2>3, SessionStep
<1>5. CASE StartReplaces(c)
  <2>1. PICK i : FinishRow(c, i)
    BY <1>5 DEF StartReplaces
  <2>2. IsSeq(sessions')
    BY <1>1, <1>5 DEF StartReplaces, tables
  <2> QED BY <1>3, <2>1, <2>2, RowTaken
<1>6. CASE StartFresh(c)
  <2>1. GoTo(c, "inserting")
    BY <1>6 DEF StartFresh
  <2>2. IsSeq(sessions')
    BY <1>1, <1>6 DEF StartFresh, tables
  <2> QED BY <1>3, <2>1, <2>2, GoneTo
<1>7. CASE Insert(c)
  <2>1. PICK S : sessions \in Seq(S)
    BY <1>1 DEF IsSeq
  <2>2. PICK e : e = [started |-> now, beat |-> now, active |-> TRUE,
                      credited |-> 0]
    OBVIOUS
  <2>3. PICK s : s = Append(sessions, e)
    OBVIOUS
  <2>4. sessions' = s /\ AnswerSession(c, Len(s))
    BY <1>7, <2>2, <2>3 DEF Insert, AnswerSession
  <2>5. s \in Seq(S \cup {e}) /\ Len(s) = Len(sessions) + 1
    BY <2>1, <2>3
  <2>6. Len(sessions) \in Nat /\ Len(s) # 0
    BY <2>1, <2>5
  <2>7. IsSeq(sessions')
    BY <2>4, <2>5 DEF IsSeq
  <2> QED BY <1>2, <1>3, <2>4, <2>6, <2>7, SessionStep
<1>8. CASE InsertRefused(c)
  <2>1. Answer(c, "error") /\ UNCHANGED sessions
    BY <1>8 DEF InsertRefused, tables
  <2> QED BY <1>3, <2>1, SlotAnswered
<1> QED BY <1>4, <1>5, <1>6, <1>7, <1>8

LEMMA BeatStep ==
    ASSUME CallsOK, NEW c \in Slots,
           Heartbeat(c) \/ Finish(c) \/ NotFound(c) \/ Settle(c)
    PROVE  CallsOK' /\ Advances(c)
<1>1. IsSeq(sessions)
  BY DEF CallsOK
<1>2. /\ calls[c].route \in {"heartbeat", "finish", "settle"}
      /\ calls[c].at = "arrived"
  BY DEF Heartbeat, Finish, NotFound, Settle, At
<1>3. calls[c].route # "start" /\ calls[c].at # "idle"
  BY <1>2
<1>4. CASE Heartbeat(c)
  <2>1. PICK i : i = calls[c].session
    OBVIOUS
  <2>2. i \in DOMAIN sessions
    BY <1>1, <1>4, <2>1, ActiveNamed DEF Heartbeat
  <2>3. PICK s, t : s = sessions /\ t = [s EXCEPT ![i].beat = now]
    OBVIOUS
  <2>4. sessions' = t
    BY <1>4, <2>1, <2>3 DEF Heartbeat
  <2>5. s = [k \in DOMAIN s |-> s[k]]
    BY <1>1, <2>3 DEF IsSeq
  <2>6. t = [k \in DOMAIN s |-> t[k]]
    BY <2>3, <2>5
  <2>9. IsSeq(s)
    BY <1>1, <2>3
  <2>10. IsSeq(t)
    BY ONLY <2>6, <2>9, Replaced
  <2>7. IsSeq(sessions')
    BY <2>4, <2>10
  <2>8. Answer(c, "ok")
    BY <1>4 DEF Heartbeat
  <2> QED BY <1>3, <2>7, <2>8, AnsweredStep
<1>5. CASE Finish(c)
  <2>1. FinishRow(c, calls[c].session) /\ IsSeq(sessions')
    BY <1>1, <1>5 DEF Finish, tables
  <2> QED BY <1>3, <2>1, RowTaken
<1>6. CASE NotFound(c)
  <2>1. Answer(c, "notfound") /\ UNCHANGED sessions
    BY <1>6 DEF NotFound, tables
  <2> QED BY <1>3, <2>1, SlotAnswered
<1>7. CASE Settle(c)
  <2>1. UNCHANGED sessions /\ IsSeq(sessions')
    BY <1>1, <1>7 DEF Settle, tables
  <2>2. (\E i : FinishRow(c, i)) \/ Answer(c, "ok")
    BY <1>7 DEF Settle
  <2>3. ASSUME NEW i, FinishRow(c, i) PROVE CallsOK' /\ Advances(c)
    BY <1>3, <2>1, <2>3, RowTaken
  <2>4. ASSUME Answer(c, "ok") PROVE CallsOK' /\ Advances(c)
    BY <1>3, <2>1, <2>4, SlotAnswered
  <2> QED BY <2>2, <2>3, <2>4
<1> QED BY <1>4, <1>5, <1>6, <1>7

LEMMA CreditStep ==
    ASSUME CallsOK, NEW c \in Slots, Update(c) \/ Credit(c)
    PROVE  CallsOK' /\ Advances(c)
<1>1. IsSeq(sessions)
  BY DEF CallsOK
<1>2. calls[c].at # "idle"
  BY DEF Update, Credit
<1>3. CASE Update(c)
  <2>1. PICK i : i = calls[c].row
    OBVIOUS
  <2>2. CASE i \in Active /\ GoTo(c, "crediting")
    <3>1. PICK s : s = sessions
      OBVIOUS
    <3>2. PICK m : m = CreditedMinutes(sessions[i].started, calls[c].beat)
      OBVIOUS
    <3>3. CASE sessions' = [s EXCEPT ![i].active = FALSE, ![i].credited = m]
      <4>1. PICK t : t = [s EXCEPT ![i].active = FALSE, ![i].credited = m]
        OBVIOUS
      <4>2. s = [k \in DOMAIN s |-> s[k]]
        BY <1>1, <3>1 DEF IsSeq
      <4>3. t = [k \in DOMAIN s |-> t[k]]
        BY <4>1, <4>2
      <4>5. IsSeq(s)
        BY <1>1, <3>1
      <4>6. IsSeq(t)
        BY ONLY <4>3, <4>5, Replaced
      <4>4. IsSeq(sessions')
        BY <3>3, <4>1, <4>6
      <4> QED BY <1>2, <2>2, <4>4, GoneTo
    <3>4. CASE AfterFinishing(c) /\ UNCHANGED sessions
      <4>1. IsSeq(sessions')
        BY <1>1, <3>4
      <4> QED BY <1>2, <3>4, <4>1, AfterFinished
    <3> QED BY <1>3, <2>1, <3>1, <3>2, <3>3, <3>4 DEF Update
  <2>3. CASE AfterFinishing(c) /\ UNCHANGED sessions
    <3>1. IsSeq(sessions')
      BY <1>1, <2>3
    <3> QED BY <1>2, <2>3, <3>1, AfterFinished
  <2> QED BY <1>3, <2>1, <2>2, <2>3 DEF Update
<1>4. CASE Credit(c)
  <2>1. AfterFinishing(c) /\ IsSeq(sessions')
    BY <1>1, <1>4 DEF Credit
  <2> QED BY <1>2, <2>1, AfterFinished
<1> QED BY <1>3, <1>4

LEMMA ReconcileStep ==
    ASSUME CallsOK, NEW c \in Slots,
           \/ ReadAnchor(c) \/ ReadCovered(c) \/ CreditOffline(c)
           \/ RecordReconciliation(c)
    PROVE  CallsOK' /\ Advances(c)
<1>1. IsSeq(sessions)
  BY DEF CallsOK
<1>2. /\ calls[c].route = "reconcile"
      /\ calls[c].at \in {"arrived", "looking", "claiming", "recording"}
      /\ UNCHANGED sessions
  BY DEF ReadAnchor, ReadCovered, CreditOffline, RecordReconciliation, At,
     tables
<1>3. calls[c].route # "start" /\ calls[c].at # "idle" /\ IsSeq(sessions')
  BY <1>1, <1>2
<1>4. PICK was : was = calls[c]
  OBVIOUS
<1>5. IsCall(was)
  BY <1>4 DEF CallsOK, CallOK
<1>6. CASE ReadAnchor(c)
  <2>1. PICK i, g : i = was.session /\ g = GapStart(was.session)
    OBVIOUS
  <2>2. PICK k : k = [was EXCEPT !.at = "looking", !.row = i, !.gap = g]
    OBVIOUS
  <2>3. calls' = [calls EXCEPT ![c] = k]
    BY <1>4, <1>6, <2>1, <2>2 DEF ReadAnchor, CallsOK
  <2>4. IsCall(k) /\ k.at = "looking" /\ k.route = was.route
    BY <1>5, <2>2 DEF IsCall
  <2>5. CallOK(k)
    BY <2>4 DEF CallOK, NamesSession
  <2> QED BY <1>3, <1>4, <2>3, <2>4, <2>5, Advanced
<1>7. CASE ReadCovered(c)
  <2>1. PICK g : g = Larger(was.gap, covered[was.row])
    OBVIOUS
  <2>2. PICK k : k = [was EXCEPT !.at = "claiming", !.gap = g]
    OBVIOUS
  <2>3. calls' = [calls EXCEPT ![c] = k]
    BY <1>4, <1>7, <2>1, <2>2 DEF ReadCovered, CallsOK
  <2>4. IsCall(k) /\ k.at = "claiming" /\ k.route = was.route
    BY <1>5, <2>2 DEF IsCall
  <2>5. CallOK(k)
    BY <2>4 DEF CallOK, NamesSession
  <2> QED BY <1>3, <1>4, <2>3, <2>4, <2>5, Advanced
<1>8. CASE CreditOffline(c)
  <2>1. GoTo(c, "recording")
    BY <1>8 DEF CreditOffline
  <2> QED BY <1>3, <2>1, GoneTo
<1>9. CASE RecordReconciliation(c)
  <2>1. Answer(c, "ok")
    BY <1>9 DEF RecordReconciliation
  <2> QED BY <1>3, <2>1, AnsweredStep
<1> QED BY <1>6, <1>7, <1>8, <1>9

LEMMA WorkerStep ==
    ASSUME CallsOK, NEW c \in Slots, Handle(c) \/ Fault(c)
    PROVE  CallsOK' /\ Advances(c)
<1>1. CASE Handle(c)
  BY <1>1, StartStep, BeatStep, CreditStep, ReconcileStep DEF Handle
<1>2. CASE Fault(c)
  <2>1. /\ calls[c].at # "idle" /\ Answer(c, "error") /\ UNCHANGED sessions
    BY <1>2 DEF Fault, tables
  <2> QED BY <2>1, SlotAnswered
<1> QED BY <1>1, <1>2
----------------------------------------------------------------------------
(* The inductive invariant.                                                *)

(* The call on the wire is that of the request at the head of the queue.   *)
OnWire(on, q) == on.at # "idle" => q # <<>> /\ on.route = Head(q).route

FlagsIInv ==
    /\ Fits(client, outbox)
    /\ client.eligible <=> running
    /\ running \in BOOLEAN
    /\ CallsOK
    /\ OnWire(calls[Live], outbox)

LEMMA FlagsImplied == FlagsIInv => FlagsMatchCalls
<1> SUFFICES ASSUME FlagsIInv PROVE FlagsMatchCalls
  OBVIOUS
<1>1. /\ StartsFit(client, outbox) /\ ReconcilesFit(client, outbox)
      /\ BeatsFit(client) /\ IsMachine(client)
  BY DEF FlagsIInv, Fits, Kept
<1>2. \A route : Queued(route) = Of(outbox, route)
  BY DEF Queued, Of
<1>3. PICK current : current = Current(client, outbox)
  OBVIOUS
<1>4. current = {k \in Queued("start") :
                     outbox[k].generation = client.generation}
  BY <1>2, <1>3 DEF Current
<1>5. \A j, k \in current : j = k
  BY <1>1, <1>3 DEF StartsFit, Alone
<1>6. client.eligible => (client.starting <=> current # {})
  BY <1>1, <1>3 DEF StartsFit
<1>7. \A j, k \in Queued("reconcile") : j = k
  BY <1>1, <1>2 DEF ReconcilesFit, Alone
<1>8. client.reconciling <=> Queued("reconcile") # {}
  BY <1>1, <1>2 DEF ReconcilesFit
<1>9. client.eligible <=> running
  BY DEF FlagsIInv
<1>10. client.session # 0 => client.beats
  BY <1>1 DEF BeatsFit
<1>11. client.beats => running
  BY <1>1, <1>9 DEF BeatsFit, StartsFit, IsMachine
<1> QED BY ONLY <1>4, <1>5, <1>6, <1>7, <1>8, <1>9, <1>10, <1>11
           DEF FlagsMatchCalls
----------------------------------------------------------------------------
(* Every step keeps it.                                                    *)

LEMMA FlagsInit == SessionInit => FlagsIInv
<1> SUFFICES ASSUME SessionInit PROVE FlagsIInv
  OBVIOUS
<1>1. /\ client = New(NoAnchor) /\ outbox = <<>> /\ running = FALSE
      /\ sessions = <<>> /\ calls = [c \in Slots |-> Idle]
  BY DEF SessionInit, ServerInit
<1>2. /\ IsMachine(client)
      /\ client.eligible = FALSE /\ client.session = 0
      /\ client.reconciling = FALSE /\ client.beats = FALSE
  BY <1>1 DEF New, IsMachine
<1>3. IsSeq(outbox) /\ IsSeq(sessions)
  BY <1>1 DEF IsSeq
<1>4. \A route : Of(outbox, route) = {}
  BY <1>1 DEF Of
<1>5. StartsFit(client, outbox)
  BY <1>2, <1>4 DEF StartsFit, Current, Alone
<1>6. ReconcilesFit(client, outbox)
  BY <1>2, <1>4 DEF ReconcilesFit, Alone
<1>7. Fits(client, outbox)
  BY <1>2, <1>3, <1>5, <1>6 DEF Fits, Kept, BeatsFit
<1>8. CallOK(Idle) /\ Idle.at = "idle"
  BY DEF Idle, Request, CallOK, IsCall, NamesSession
<1>9. CallsOK
  BY <1>1, <1>3, <1>8 DEF CallsOK
<1>10. Live \in Slots
  BY SessionAssumption
<1>11. OnWire(calls[Live], outbox)
  BY <1>1, <1>8, <1>10 DEF OnWire
<1> QED BY <1>1, <1>2, <1>7, <1>9, <1>11 DEF FlagsIInv

(* What a step of the application sends leaves the head where it is.       *)
LEMMA HeadStays ==
    ASSUME FlagsIInv, NEW o, Does(o), UNCHANGED calls,
           o.send = <<>> \/ \E e : o.send = <<e>>
    PROVE  OnWire(calls'[Live], outbox')
<1>1. PICK q, p : q = outbox /\ p = outbox'
  OBVIOUS
<1>2. IsSeq(q) /\ OnWire(calls[Live], q) /\ p = q \o o.send
  BY <1>1 DEF FlagsIInv, Fits, Kept, Does
<1>3. CASE o.send = <<>>
  <2>1. p = q
    BY <1>2, <1>3, Same
  <2> QED BY <1>1, <1>2, <2>1
<1>4. ASSUME NEW e, o.send = <<e>> PROVE OnWire(calls'[Live], outbox')
  <2>1. LongerBy(q, e, p)
    <3>1. p = q \o <<e>>
      BY <1>2, <1>4
    <3> QED BY ONLY <1>2, <3>1, Longer
  <2>2. q # <<>> => p # <<>> /\ Head(p) = Head(q)
    BY <2>1 DEF LongerBy
  <2>3. OnWire(calls[Live], p)
    BY <1>2, <2>2 DEF OnWire
  <2> QED BY <1>1, <2>3
<1> QED BY <1>3, <1>4

LEMMA Acts ==
    ASSUME FlagsIInv, NEW o, Does(o), UNCHANGED <<calls, sessions>>,
           Fits(o.machine, outbox \o o.send), Sends(o),
           running' \in BOOLEAN, o.machine.eligible <=> running'
    PROVE  FlagsIInv'
<1>1. /\ Fits(client', outbox')
      /\ client'.eligible <=> running'
  BY DEF Does
<1>2. OnWire(calls'[Live], outbox')
  BY HeadStays DEF Sends
<1>3. CallsOK'
  BY DEF FlagsIInv, CallsOK
<1> QED BY <1>1, <1>2, <1>3 DEF FlagsIInv, Does

LEMMA TimerStep ==
    ASSUME FlagsIInv, TimerStart \/ TimerStop \/ Beat \/ AskSync
    PROVE  FlagsIInv'
<1>1. /\ Fits(client, outbox)
      /\ client.eligible <=> running
      /\ running \in BOOLEAN
  BY DEF FlagsIInv
<1>2. CASE TimerStart
  <2>1. PICK o : o = Observed(client, TRUE)
    OBVIOUS
  <2>2. /\ ~running /\ running' = TRUE
        /\ Does(o) /\ UNCHANGED <<calls, sessions>>
    BY <1>2, <2>1 DEF TimerStart, serverVars, tables
  <2>3. Fits(o.machine, outbox \o o.send) /\ Sends(o) /\ o.machine.eligible
    BY <1>1, <2>1, <2>2, ObservedStart
  <2> QED BY <2>2, <2>3, Acts
<1>3. CASE TimerStop
  <2>1. PICK o : o = Observed(client, FALSE)
    OBVIOUS
  <2>2. /\ running' = FALSE
        /\ Does(o) /\ UNCHANGED <<calls, sessions>>
    BY <1>3, <2>1 DEF TimerStop, serverVars, tables
  <2>3. Fits(o.machine, outbox \o o.send) /\ Sends(o) /\ ~o.machine.eligible
    BY <1>1, <2>1, ObservedStop
  <2> QED BY <2>2, <2>3, Acts
<1>4. CASE Beat
  <2>1. PICK m : m = [client EXCEPT !.next = now + HeartbeatEvery]
    OBVIOUS
  <2>2. PICK o : o = HeartbeatDue(m)
    OBVIOUS
  <2>3. /\ Does(o) /\ UNCHANGED <<calls, sessions>> /\ running' = running
    BY <1>4, <2>1, <2>2 DEF Beat, serverVars, tables, timer
  <2>4. /\ IsMachine(m)
        /\ m.eligible = client.eligible /\ m.generation = client.generation
        /\ m.session = client.session /\ m.starting = client.starting
        /\ m.reconciling = client.reconciling /\ m.beats = client.beats
    <3>1. PICK was, x : was = client /\ x = now + HeartbeatEvery
      OBVIOUS
    <3>2. IsMachine(was) /\ m = [was EXCEPT !.next = x]
      BY <1>1, <2>1, <3>1 DEF Fits, Kept
    <3>3. /\ IsMachine(m)
          /\ m.eligible = was.eligible /\ m.generation = was.generation
          /\ m.session = was.session /\ m.starting = was.starting
          /\ m.reconciling = was.reconciling /\ m.beats = was.beats
      BY ONLY <3>2 DEF IsMachine
    <3> QED BY <3>1, <3>3
  <2>5. Kept(m, outbox)
    BY <1>1, <2>4, Edited DEF Fits
  <2>6. Fits(m, outbox)
    BY <1>1, <2>4, <2>5 DEF Fits, BeatsFit
  <2>7. Continues(m, outbox, o)
    BY <2>2, <2>6, DueFits
  <2>8. /\ Fits(o.machine, outbox \o o.send) /\ Sends(o)
        /\ o.machine.eligible = client.eligible
    BY <2>4, <2>7 DEF Continues
  <2> QED BY <1>1, <2>3, <2>8, Acts
<1>5. CASE AskSync
  <2>1. PICK e : e = Message("settle", 0, {}, 0)
    OBVIOUS
  <2>2. PICK o : o = Outcome(client, <<e>>)
    OBVIOUS
  <2>3. o.machine = client /\ o.send = <<e>> /\ Sends(o)
    BY <2>2 DEF Outcome, Sends
  <2>4. e.route = "settle"
    BY <2>1 DEF Message
  <2>5. Fits(o.machine, outbox \o o.send)
    BY <1>1, <2>3, <2>4, SendsOther DEF Fits
  <2>6. /\ outbox' = Append(outbox, e) /\ UNCHANGED <<calls, sessions>>
        /\ running' = running /\ client' = client
    BY <1>5, <2>1 DEF AskSync, serverVars, tables, timer
  <2>7. Append(outbox, e) = outbox \o <<e>>
    <3>1. PICK S : outbox \in Seq(S)
      BY <1>1 DEF Fits, Kept, IsSeq
    <3>2. outbox \in Seq(S \cup {e}) /\ e \in S \cup {e}
      BY <3>1
    <3> QED BY <3>2, AppendIsConcat
  <2>8. Does(o)
    BY <2>3, <2>6, <2>7 DEF Does
  <2> QED BY <1>1, <2>3, <2>5, <2>6, <2>8, Acts
<1> QED BY <1>2, <1>3, <1>4, <1>5

(* The slots of the calls after a step of the client.                      *)
LEMMA Assigned ==
    ASSUME CallsOK, UNCHANGED sessions, NEW c \in Slots,
           NEW k, CallOK(k), calls' = [calls EXCEPT ![c] = k]
    PROVE  /\ CallsOK'
           /\ calls'[c] = k
           /\ \A d \in Slots \ {c} : calls'[d] = calls[d]
<1>1. PICK was, new : was = calls /\ new = calls'
  OBVIOUS
<1>2. was = [d \in Slots |-> was[d]] /\ \A d \in Slots : CallOK(was[d])
  BY <1>1 DEF CallsOK
<1>3. /\ new = [d \in Slots |-> new[d]]
      /\ new[c] = k
      /\ \A d \in Slots \ {c} : new[d] = was[d]
  BY <1>1, <1>2
<1>4. \A d \in Slots : CallOK(new[d])
  BY <1>2, <1>3
<1>5. CallsOK'
  BY <1>1, <1>3, <1>4 DEF CallsOK
<1> QED BY <1>1, <1>3, <1>5

LEMMA MovedOn ==
    ASSUME CallsOK, UNCHANGED sessions,
           calls' = [calls EXCEPT ![Late] = calls[Live], ![Live] = Idle]
    PROVE  CallsOK' /\ calls'[Live].at = "idle"
<1>1. PICK was, new : was = calls /\ new = calls'
  OBVIOUS
<1>2. was = [d \in Slots |-> was[d]] /\ \A d \in Slots : CallOK(was[d])
  BY <1>1 DEF CallsOK
<1>3. Live \in Slots /\ Late \in Slots /\ Live # Late /\ Slots = {Live, Late}
  BY SessionAssumption
<1>4. CallOK(Idle) /\ Idle.at = "idle"
  BY DEF Idle, Request, CallOK, IsCall, NamesSession
<1>5. /\ new = [d \in Slots |-> new[d]]
      /\ new[Live] = Idle
      /\ new[Late] = was[Live]
  BY <1>1, <1>2, <1>3
<1>6. \A d \in Slots : CallOK(new[d])
  BY <1>2, <1>3, <1>4, <1>5
<1>7. CallsOK'
  BY <1>1, <1>5, <1>6 DEF CallsOK
<1> QED BY <1>1, <1>4, <1>5, <1>7

LEMMA ReplyStep ==
    ASSUME FlagsIInv, Send \/ Deliver \/ NotSent \/ TimeOut
    PROVE  FlagsIInv'
<1>1. /\ Fits(client, outbox)
      /\ client.eligible <=> running
      /\ running \in BOOLEAN /\ CallsOK
      /\ OnWire(calls[Live], outbox)
  BY DEF FlagsIInv
<1>2. Live \in Slots
  BY SessionAssumption
<1>3. CallOK(Idle) /\ Idle.at = "idle"
  BY DEF Idle, Request, CallOK, IsCall, NamesSession
<1>4. CASE Send
  <2>1. PICK route, session, claim :
            /\ route = Head(outbox).route
            /\ session = Head(outbox).session
            /\ claim = Head(outbox).claim
    OBVIOUS
  <2>2. PICK k : k = Request(route, session, claim)
    OBVIOUS
  <2>3. /\ outbox # <<>> /\ calls' = [calls EXCEPT ![Live] = k]
        /\ UNCHANGED <<sessions, client, outbox, running>>
    BY <1>4, <2>1, <2>2 DEF Send, Arrive, tables, timer
  <2>4. CallOK(k) /\ k.route = route
    BY <2>2 DEF Request, CallOK, IsCall, NamesSession
  <2>5. CallsOK' /\ calls'[Live] = k
    BY <1>1, <1>2, <2>3, <2>4, Assigned
  <2>6. OnWire(calls'[Live], outbox')
    BY <2>1, <2>3, <2>4, <2>5 DEF OnWire
  <2> QED BY <1>1, <2>3, <2>5, <2>6 DEF FlagsIInv
<1>5. CASE Deliver
  <2>1. PICK k : k = calls[Live]
    OBVIOUS
  <2>2. /\ k.at = "answered" /\ outbox # <<>>
        /\ OnReply(k.session, k.reply)
        /\ calls' = [calls EXCEPT ![Live] = Idle]
        /\ UNCHANGED <<sessions, running>>
    BY <1>5, <2>1 DEF Deliver, tables, timer
  <2>3. NamesSession(k) /\ k.route = Head(outbox).route
    BY <1>1, <1>2, <2>1, <2>2 DEF CallsOK, CallOK, OnWire
  <2>4. Head(outbox).route = "start" /\ k.reply = "ok" => k.session # 0
    BY <2>2, <2>3 DEF NamesSession
  <2>5. Fits(client', outbox') /\ client'.eligible = client.eligible
    BY <1>1, <2>2, <2>4, OnReplyFits
  <2>6. CallsOK' /\ calls'[Live] = Idle
    BY <1>1, <1>2, <1>3, <2>2, Assigned
  <2>7. OnWire(calls'[Live], outbox')
    BY <1>3, <2>6 DEF OnWire
  <2> QED BY <1>1, <2>2, <2>5, <2>6, <2>7 DEF FlagsIInv
<1>6. CASE NotSent
  <2>1. /\ outbox # <<>> /\ calls[Live].at = "idle"
        /\ OnReply(0, "offline")
        /\ UNCHANGED <<sessions, calls, running>>
    BY <1>6 DEF NotSent, serverVars, tables, timer
  <2>2. Fits(client', outbox') /\ client'.eligible = client.eligible
    BY <1>1, <2>1, OnReplyFits
  <2>3. CallsOK'
    BY <1>1, <2>1 DEF CallsOK
  <2>4. OnWire(calls'[Live], outbox')
    BY <2>1 DEF OnWire
  <2> QED BY <1>1, <2>1, <2>2, <2>3, <2>4 DEF FlagsIInv
<1>7. CASE TimeOut
  <2>1. /\ outbox # <<>>
        /\ calls' = [calls EXCEPT ![Late] = calls[Live], ![Live] = Idle]
        /\ OnReply(0, "offline")
        /\ UNCHANGED <<sessions, running>>
    BY <1>7 DEF TimeOut, tables, timer
  <2>2. Fits(client', outbox') /\ client'.eligible = client.eligible
    BY <1>1, <2>1, OnReplyFits
  <2>3. CallsOK' /\ calls'[Live].at = "idle"
    BY <1>1, <2>1, MovedOn
  <2>4. OnWire(calls'[Live], outbox')
    BY <2>3 DEF OnWire
  <2> QED BY <1>1, <2>1, <2>2, <2>3, <2>4 DEF FlagsIInv
<1> QED BY <1>4, <1>5, <1>6, <1>7

(* A new machine over an empty outbox, restored paused or observed at once.*)
LEMMA RestartStep ==
    ASSUME FlagsIInv, Restart
    PROVE  FlagsIInv'
<1>1. PICK m, q : m = New(client.anchor) /\ q = <<>>
  OBVIOUS
<1>2. PICK o : o = Observed(m, TRUE)
  OBVIOUS
<1>3. /\ calls' = [calls EXCEPT ![Late] = calls[Live], ![Live] = Idle]
      /\ UNCHANGED sessions
      /\ \/ running' = TRUE /\ client' = o.machine /\ outbox' = o.send
         \/ running' = FALSE /\ client' = m /\ outbox' = q
  BY <1>1, <1>2 DEF Restart, tables
<1>4. /\ IsMachine(m)
      /\ m.eligible = FALSE /\ m.session = 0
      /\ m.reconciling = FALSE /\ m.beats = FALSE
  BY <1>1 DEF New, IsMachine
<1>5. IsSeq(q) /\ \A route : Of(q, route) = {}
  BY <1>1 DEF IsSeq, Of
<1>6. StartsFit(m, q)
  BY <1>4, <1>5 DEF StartsFit, Current, Alone
<1>7. ReconcilesFit(m, q)
  BY <1>4, <1>5 DEF ReconcilesFit, Alone
<1>8. Fits(m, q)
  BY <1>4, <1>5, <1>6, <1>7 DEF Fits, Kept, BeatsFit
<1>9. CallsOK' /\ calls'[Live].at = "idle"
  BY <1>3, MovedOn DEF FlagsIInv
<1>10. OnWire(calls'[Live], outbox')
  BY <1>9 DEF OnWire
<1>11. CASE running' = TRUE /\ client' = o.machine /\ outbox' = o.send
  <2>1. Fits(o.machine, q \o o.send) /\ Sends(o) /\ o.machine.eligible
    BY <1>2, <1>4, <1>8, ObservedStart
  <2>2. q \o o.send = o.send
    <3>1. CASE o.send = <<>>
      BY <1>1, <3>1
    <3>2. ASSUME NEW e, o.send = <<e>> PROVE q \o o.send = o.send
      <4>1. <<e>> \in Seq({e})
        OBVIOUS
      <4> QED BY <1>1, <3>2, <4>1, ConcatEmptySeq
    <3> QED BY <2>1, <3>1, <3>2 DEF Sends
  <2>3. Fits(client', outbox') /\ client'.eligible
    BY <1>11, <2>1, <2>2
  <2> QED BY <1>9, <1>10, <1>11, <2>3 DEF FlagsIInv
<1>12. CASE running' = FALSE /\ client' = m /\ outbox' = q
  <2>1. Fits(client', outbox') /\ client'.eligible = FALSE
    BY <1>4, <1>8, <1>12
  <2> QED BY <1>9, <1>10, <1>12, <2>1 DEF FlagsIInv
<1> QED BY <1>3, <1>11, <1>12

LEMMA WireStep ==
    ASSUME FlagsIInv, LateEnds \/ ClockTicks \/ WorkerSteps
    PROVE  FlagsIInv'
<1>1. /\ CallsOK /\ OnWire(calls[Live], outbox)
      /\ UNCHANGED <<client, outbox, running>>
  BY DEF FlagsIInv, LateEnds, ClockTicks, WorkerSteps, timer
<1>2. Live \in Slots /\ Late \in Slots /\ Live # Late
  BY SessionAssumption
<1>3. ASSUME CallsOK',
             /\ calls[Live].at = "idle" => calls'[Live].at = "idle"
             /\ calls'[Live].route = calls[Live].route
      PROVE  FlagsIInv'
  <2>1. OnWire(calls'[Live], outbox')
    BY <1>1, <1>3 DEF OnWire
  <2> QED BY <1>1, <1>3, <2>1 DEF FlagsIInv
<1>4. CASE LateEnds
  <2>1. calls' = [calls EXCEPT ![Late] = Idle] /\ UNCHANGED sessions
    BY <1>4 DEF LateEnds, Reply, tables
  <2>2. CallOK(Idle)
    BY DEF Idle, Request, CallOK, IsCall, NamesSession
  <2>3. CallsOK' /\ calls'[Live] = calls[Live]
    BY <1>1, <1>2, <2>1, <2>2, Assigned
  <2> QED BY <1>3, <2>3
<1>5. CASE ClockTicks
  <2>1. UNCHANGED <<calls, sessions>>
    BY <1>5 DEF ClockTicks, Tick, tables
  <2>2. CallsOK'
    BY <1>1, <2>1 DEF CallsOK
  <2> QED BY <1>3, <2>1, <2>2
<1>6. CASE WorkerSteps
  <2>1. PICK c \in Slots : Handle(c) \/ Fault(c)
    BY <1>6 DEF WorkerSteps
  <2>2. CallsOK' /\ Advances(c)
    BY <1>1, <2>1, WorkerStep
  <2>3. /\ calls[Live].at = "idle" => calls'[Live].at = "idle"
        /\ calls'[Live].route = calls[Live].route
    BY <1>2, <2>2 DEF Advances
  <2> QED BY <1>3, <2>2, <2>3
<1> QED BY <1>4, <1>5, <1>6

LEMMA FlagsStep == FlagsIInv /\ [SessionNext]_sessionVars => FlagsIInv'
<1> SUFFICES ASSUME FlagsIInv, [SessionNext]_sessionVars PROVE FlagsIInv'
  OBVIOUS
<1>1. CASE TimerStart \/ TimerStop \/ Beat \/ AskSync
  BY <1>1, TimerStep
<1>2. CASE Send \/ Deliver \/ NotSent \/ TimeOut
  BY <1>2, ReplyStep
<1>3. CASE Restart
  BY <1>3, RestartStep
<1>4. CASE LateEnds \/ ClockTicks \/ WorkerSteps
  BY <1>4, WireStep
<1>5. CASE UNCHANGED sessionVars
  BY <1>5 DEF sessionVars, serverVars, tables, timer, FlagsIInv, CallsOK
<1> QED BY <1>1, <1>2, <1>3, <1>4, <1>5 DEF SessionNext

(* However replies, timer changes, failures, time-outs and restarts cross, *)
(* the flags of VerifiedMachine say what is under way: one start of the    *)
(* present generation at most, and exactly while it is starting; one       *)
(* reconciliation exactly while it is reconciling; a session wanted        *)
(* exactly while the Timer runs; heartbeats for every session held, and    *)
(* none of a stopped Timer.                                                *)
THEOREM FlagsStayTrue == SessionSpec => []FlagsMatchCalls
<1>1. SessionSpec => []FlagsIInv
  BY FlagsInit, FlagsStep, PTL DEF SessionSpec
<1> QED BY <1>1, FlagsImplied, PTL
=============================================================================
