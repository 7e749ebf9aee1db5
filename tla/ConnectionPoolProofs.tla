------------------------ MODULE ConnectionPoolProofs ------------------------
(***************************************************************************)
(* Proofs about ConnectionPool for every set of threads, every size of the *)
(* pool, and every number of attempts and outages.                         *)
(*                                                                         *)
(* What is out of a pool is what its threads hold (NothingLeaked); an      *)
(* attempt that loses its connection has seen the database down            *)
(* (OutageInv); an engine that lost the race to be cached serves its       *)
(* builder once (EngineInv).                                               *)
(***************************************************************************)
EXTENDS ConnectionPool, FiniteSetTheorems, TLAPS

Connections == [live : Nat, dead : Nat, out : Nat]
Thread ==
    [at : Places, kind : {"query", "health"}, engine : Workers \cup {None},
     conn : {None, "live", "dead"}, attempt : 0 .. MaxAttempts - 1,
     hit : BOOLEAN, spurious : BOOLEAN, reply : Replies \cup {None}]

(* A thread has an engine while it waits for a connection or works on it,  *)
(* and a reply once it has answered.                                       *)
Placed(t) ==
    /\ t.at \in {"checkout", "work"} => t.engine \in Workers
    /\ t.at \notin {"checkout", "work"} => t.engine = None
    /\ t.at # "answered" => t.reply = None

(* A thread that works holds a connection, and knows of the outage that    *)
(* killed it; no attempt was lost to a connection that died idle.          *)
Sound(t) ==
    /\ t.at = "work" => t.conn \in {"live", "dead"}
    /\ t.at = "work" /\ t.conn = "dead" => t.hit
    /\ ~t.spurious
    /\ t.reply = "SERVICE_UNAVAILABLE" => t.attempt = MaxAttempts - 1

(* Whoever tries while the database is down knows it.                      *)
Aware(t) == ~up /\ t.at \in Trying => t.hit

PlaceInv == \A w \in Workers : Placed(worker[w])
OutageInv == \A w \in Workers : Sound(worker[w]) /\ Aware(worker[w])

Empty(e) == Open(e) = 0

(* One engine is cached; another one is only its builder's, who uses it    *)
(* for one connection.                                                     *)
EachBounded ==
    \A e \in Workers :
        /\ Open(e) <= PoolSize + MaxOverflow
        /\ e # cache => Open(e) <= 1
NoneBuilt ==
    cache = None =>
        \A e \in Workers : Empty(e) /\ \A w \in Workers : worker[w].engine # e
OwnEngine(w) ==
    /\ worker[w].at = "building" =>
          /\ cache # w /\ Empty(w) /\ \A v \in Workers : worker[v].engine # w
    /\ worker[w].engine \in {None, cache, w}
    /\ worker[w].at = "checkout" /\ worker[w].engine # cache => Empty(w)
EngineInv == EachBounded /\ NoneBuilt /\ \A w \in Workers : OwnEngine(w)

IInv == NothingLeaked /\ PlaceInv /\ OutageInv
-----------------------------------------------------------------------------
(* What a thread becomes when its attempt has raised: it backs off, or has *)
(* its answer, without an engine or a connection.                          *)
Raised(w, new) ==
    /\ new \in Thread /\ new.at \in {"backoff", "answered"}
    /\ Placed(new) /\ Sound(new)

(* What a step of a thread does to the pools: nothing, as long as it holds *)
(* no connection; it takes one; it gives up an idle one that is dead; it   *)
(* returns the one it holds.                                               *)
Holding(w, new) ==
    LET e == worker[w].engine
    IN  \/ pool' = pool /\ worker[w].at # "work" /\ new.at # "work"
        \/ /\ worker[w].at = "checkout" /\ e \in Workers
           /\ \E q \in Connections :
                 /\ pool' = [pool EXCEPT ![e] = q]
                 /\ \/ /\ new.at = "work" /\ new.engine = e
                       /\ q.out = pool[e].out + 1
                    \/ /\ new.at # "work"
                       /\ q.out = pool[e].out
        \/ /\ worker[w].at = "work" /\ e \in Workers /\ new.at # "work"
           /\ \E q \in Connections :
                 pool' = [pool EXCEPT ![e] = q] /\ q.out = pool[e].out - 1

ThreadStep(w, new) ==
    /\ worker' = [worker EXCEPT ![w] = new]
    /\ new \in Thread /\ Placed(new) /\ Sound(new) /\ Aware(new)
    /\ Holding(w, new)
    /\ UNCHANGED <<up, outages>> /\ cache' \in Workers \cup {None}

LEMMA TypeUnfolded ==
    ASSUME TypeOK
    PROVE  /\ pool \in [Workers -> Connections] /\ worker \in [Workers -> Thread]
           /\ \A w \in Workers : worker[w] \in Thread /\ pool[w] \in Connections
BY DEF TypeOK, Thread, Connections

LEMMA NoReply == None # "SERVICE_UNAVAILABLE"
<1>1. "SERVICE_UNAVAILABLE" = MapException("OperationalError")
  BY DEF MapException
<1>2. "OperationalError" \in Exceptions
  BY DEF Exceptions
<1> QED
  BY <1>1, <1>2, NoneAssumption DEF Replies, Codes

(* The connections out of a pool are a finite number of threads' work.     *)
Held(e) == {w \in Workers : At(w, "work") /\ worker[w].engine = e}

LEMMA HeldFinite ==
    ASSUME NEW e
    PROVE  IsFiniteSet(Held(e)) /\ Cardinality(Held(e)) \in Nat
<1>1. Held(e) \subseteq Workers
  BY DEF Held
<1> QED
  BY <1>1, WorkersAssumption, FS_Subset, FS_CardinalityType

LEMMA HolderCounts ==
    ASSUME TypeOK, NothingLeaked, NEW w \in Workers, worker[w].at = "work",
           worker[w].engine \in Workers
    PROVE  pool[worker[w].engine].out >= 1
<1> DEFINE e == worker[w].engine
<1>1. w \in Held(e)
  BY DEF Held, At
<1>2. Cardinality(Held(e)) \in Nat /\ Cardinality(Held(e)) # 0
  BY <1>1, HeldFinite, FS_EmptySet
<1>3. pool[e].out = Cardinality(Held(e))
  BY DEF NothingLeaked, Held
<1> QED
  BY <1>2, <1>3
-----------------------------------------------------------------------------
(* The answer to an exception, for a thread that tries: it was lost to the *)
(* connection only if the database was down.                               *)
LEMMA RaiseEffect ==
    ASSUME TypeOK, PlaceInv, OutageInv, NEW w \in Workers,
           worker[w].at \in {"checkout", "work"},
           NEW exc \in {"OperationalError", "DBAPIError", "TimeoutError", "DataError"},
           exc = "OperationalError" => worker[w].hit,
           Raise(w, exc)
    PROVE  \E new : worker' = [worker EXCEPT ![w] = new] /\ Raised(w, new)
<1> DEFINE lost == exc = "OperationalError" /\ ~worker[w].hit
<1>1. worker[w] \in Thread /\ lost = FALSE
  BY TypeUnfolded
<1>2. Placed(worker[w]) /\ Sound(worker[w]) /\ worker[w].reply = None
  BY DEF PlaceInv, OutageInv, Placed
<1>3. ~(worker[w].spurious \/ lost) /\ (worker[w].spurious \/ lost) \in BOOLEAN
  BY <1>1, <1>2 DEF Sound
<1>4. CASE worker[w].kind = "health"
  <2>1. worker' = [worker EXCEPT ![w] = Answered(w, "unhealthy", lost)]
    BY <1>4 DEF Raise
  <2>2. Raised(w, Answered(w, "unhealthy", lost))
    BY <1>1, <1>2, <1>3 DEF Raised, Answered, Thread, Placed, Sound, Places, Replies
  <2> QED
    BY <2>1, <2>2
<1>5. CASE worker[w].kind # "health" /\ exc \in Transient /\ AttemptsLeft(w)
  <2>1. worker' = [worker EXCEPT ![w] = Again(w, lost)]
    BY <1>5 DEF Raise
  <2>2. worker[w].attempt + 1 \in 0 .. MaxAttempts - 1
    BY <1>1, <1>5, LimitsAssumption DEF Thread, AttemptsLeft
  <2> DEFINE new == Again(w, lost)
  <2>3. /\ new.at = "backoff" /\ new.engine = None /\ ~new.spurious
        /\ new.reply = None /\ new \in Thread
    BY <1>1, <1>2, <1>3, <2>2 DEF Again, Thread, Places
  <2>4. Raised(w, new)
    <3> HIDE DEF new
    <3> QED
      BY <2>3, NoReply DEF Raised, Placed, Sound
  <2> QED
    BY <2>1, <2>4
<1>6. CASE worker[w].kind # "health" /\ ~(exc \in Transient /\ AttemptsLeft(w))
  <2>1. worker' = [worker EXCEPT ![w] = Answered(w, MapException(exc), lost)]
    BY <1>6 DEF Raise
  <2>2. MapException(exc) \in Replies
    BY DEF Replies, Codes, Exceptions
  <2>3. MapException(exc) = "SERVICE_UNAVAILABLE" => worker[w].attempt = MaxAttempts - 1
    <3>1. MapException(exc) = "SERVICE_UNAVAILABLE" => exc \in Transient
      BY DEF MapException, Transient
    <3>2. ~AttemptsLeft(w) => worker[w].attempt = MaxAttempts - 1
      BY <1>1, LimitsAssumption DEF Thread, AttemptsLeft
    <3> QED
      BY <1>6, <3>1, <3>2
  <2>4. Raised(w, Answered(w, MapException(exc), lost))
    BY <1>1, <1>2, <1>3, <2>2, <2>3 DEF Raised, Answered, Thread, Placed, Sound, Places
  <2> QED
    BY <2>1, <2>4
<1> QED
  BY <1>4, <1>5, <1>6

(* A request, and the attempt after a pause, begin with what the thread    *)
(* knows of the database.                                                  *)
Request(kind, down) == [Fresh EXCEPT !.at = "engine", !.kind = kind, !.hit = down]
NextAttempt(t, down) == [t EXCEPT !.at = "engine", !.hit = down]

LEMMA FreshSound == Fresh \in Thread /\ Placed(Fresh) /\ Sound(Fresh)
<1>1. 0 \in 0 .. MaxAttempts - 1
  BY LimitsAssumption
<1> QED
  BY <1>1, NoReply DEF Fresh, Thread, Places, Placed, Sound

LEMMA RequestSound ==
    ASSUME NEW kind \in {"query", "health"}, NEW down \in BOOLEAN
    PROVE  /\ Request(kind, down) \in Thread
           /\ Request(kind, down).at = "engine" /\ Request(kind, down).hit = down
           /\ Placed(Request(kind, down)) /\ Sound(Request(kind, down))
<1>1. 0 \in 0 .. MaxAttempts - 1
  BY LimitsAssumption
<1> DEFINE new == Request(kind, down)
<1>2. /\ new \in Thread /\ new.at = "engine" /\ new.hit = down
      /\ new.engine = None /\ new.reply = None /\ new.spurious = FALSE
  BY <1>1 DEF Request, Fresh, Thread, Places, Trying
<1> QED
  BY <1>2, NoReply DEF Placed, Sound

LEMMA NextAttemptSound ==
    ASSUME NEW t \in Thread, Placed(t), Sound(t), t.at = "backoff",
           NEW down \in BOOLEAN
    PROVE  /\ NextAttempt(t, down) \in Thread
           /\ NextAttempt(t, down).at = "engine" /\ NextAttempt(t, down).hit = down
           /\ Placed(NextAttempt(t, down)) /\ Sound(NextAttempt(t, down))
<1> DEFINE new == NextAttempt(t, down)
<1>1. /\ new \in Thread /\ new.at = "engine" /\ new.hit = down
      /\ new.engine = t.engine /\ new.reply = t.reply /\ new.spurious = t.spurious
      /\ new.attempt = t.attempt
  BY DEF NextAttempt, Thread, Places, Trying
<1> QED
  BY <1>1 DEF Placed, Sound

(* A thread goes on with an engine, or builds one.                         *)
Waiting(t, e) == [t EXCEPT !.at = "checkout", !.engine = e]
Building(t) == [t EXCEPT !.at = "building"]

LEMMA EngineSound ==
    ASSUME NEW t \in Thread, Placed(t), Sound(t), Aware(t),
           t.at \in {"engine", "building"}
    PROVE  /\ Building(t) \in Thread /\ Building(t).at = "building"
           /\ Placed(Building(t)) /\ Sound(Building(t)) /\ Aware(Building(t))
           /\ \A e \in Workers :
                 /\ Waiting(t, e) \in Thread /\ Waiting(t, e).at = "checkout"
                 /\ Placed(Waiting(t, e)) /\ Sound(Waiting(t, e)) /\ Aware(Waiting(t, e))
<1>1. t.engine = None /\ t.reply = None /\ ~t.spurious /\ (~up => t.hit)
  BY DEF Placed, Sound, Aware, Trying
<1>2. Building(t) \in Thread /\ Building(t).at = "building"
      /\ Building(t).engine = t.engine /\ Building(t).reply = t.reply
      /\ Building(t).spurious = t.spurious /\ Building(t).hit = t.hit
  BY DEF Building, Thread, Places, Trying
<1>3. Placed(Building(t)) /\ Sound(Building(t)) /\ Aware(Building(t))
  BY <1>1, <1>2, NoReply DEF Placed, Sound, Aware
<1>4. ASSUME NEW e \in Workers
      PROVE  /\ Waiting(t, e) \in Thread /\ Waiting(t, e).at = "checkout"
             /\ Placed(Waiting(t, e)) /\ Sound(Waiting(t, e)) /\ Aware(Waiting(t, e))
  <2> DEFINE new == Waiting(t, e)
  <2>1. /\ new \in Thread /\ new.at = "checkout" /\ new.engine = e
        /\ new.reply = t.reply /\ new.spurious = t.spurious /\ new.hit = t.hit
    BY <1>4 DEF Waiting, Thread, Places, Trying
  <2> QED
    BY <1>1, <1>4, <2>1, NoReply DEF Placed, Sound, Aware
<1> QED
  BY <1>2, <1>3, <1>4

(* Steps that touch no pool.                                               *)
LEMMA QuietSteps ==
    ASSUME TypeOK, PlaceInv, OutageInv, NEW w \in Workers,
           Receive(w) \/ GetEngine(w) \/ Built(w) \/ BackoffEnds(w) \/ Finish(w)
    PROVE  \E new : ThreadStep(w, new)
<1> DEFINE t == worker[w]
           down == ~up
<1>1. /\ t \in Thread /\ cache \in Workers \cup {None}
      /\ down \in BOOLEAN /\ down = ~up
  BY TypeUnfolded DEF TypeOK
<1>2. Placed(t) /\ Sound(t) /\ Aware(t)
  BY DEF PlaceInv, OutageInv
<1> HIDE DEF down
(* A step with the effect of new, seen from where the thread is.           *)
<1>3. ASSUME NEW new \in Thread, worker' = [worker EXCEPT ![w] = new],
             Placed(new), Sound(new), Aware(new),
             t.at # "work", new.at # "work",
             UNCHANGED <<up, outages, pool>>, cache' \in Workers \cup {None}
      PROVE  ThreadStep(w, new)
  BY <1>3 DEF ThreadStep, Holding
<1>4. CASE Receive(w)
  <2>1. PICK kind \in {"query", "health"} :
           worker' = [worker EXCEPT ![w] = Request(kind, down)]
    BY <1>1, <1>4 DEF Receive, Request
  <2>2. Aware(Request(kind, down))
    BY <1>1, RequestSound DEF Aware
  <2> QED
    BY <1>1, <1>3, <1>4, <2>1, <2>2, RequestSound DEF Receive, At
<1>5. CASE GetEngine(w)
  <2>1. \/ worker' = [worker EXCEPT ![w] = Building(t)]
        \/ cache \in Workers /\ worker' = [worker EXCEPT ![w] = Waiting(t, cache)]
    BY <1>1, <1>5 DEF GetEngine, Use, Building, Waiting
  <2> QED
    BY <1>1, <1>2, <1>3, <1>5, <2>1, EngineSound DEF GetEngine, At
<1>6. CASE Built(w)
  <2>1. worker' = [worker EXCEPT ![w] = Waiting(t, w)] /\ cache' \in Workers \cup {None}
    BY <1>1, <1>6 DEF Built, Use, Waiting, KeepFirst
  <2> QED
    BY <1>1, <1>2, <1>3, <1>6, <2>1, EngineSound DEF Built, At
<1>7. CASE BackoffEnds(w)
  <2>1. worker' = [worker EXCEPT ![w] = NextAttempt(t, down)]
    BY <1>1, <1>7 DEF BackoffEnds, NextAttempt
  <2>2. Aware(NextAttempt(t, down))
    BY <1>1, <1>2, <1>7, NextAttemptSound DEF Aware, BackoffEnds, At
  <2> QED
    BY <1>1, <1>2, <1>3, <1>7, <2>1, <2>2, NextAttemptSound DEF BackoffEnds, At
<1>8. CASE Finish(w)
  <2>1. Aware(Fresh) /\ Fresh.at # "work"
    BY DEF Aware, Fresh, Trying
  <2> QED
    BY <1>1, <1>3, <1>8, <2>1, FreshSound DEF Finish, At
<1> QED
  BY <1>4, <1>5, <1>6, <1>7, <1>8

(* Taking one idle connection, if there is one, leaves the others.         *)
LEMMA RestEffect ==
    ASSUME NEW p \in Connections, NEW rest \in WithoutOne(p)
    PROVE  /\ rest \in Connections /\ rest.out = p.out
           /\ p.live + p.dead = 0 => rest = p
           /\ p.live + p.dead > 0 => rest.live + rest.dead = p.live + p.dead - 1
<1>0. p.live \in Nat /\ p.dead \in Nat /\ p.out \in Nat
  BY DEF Connections
<1>1. CASE rest = p /\ p.live + p.dead = 0
  BY <1>1
<1>2. CASE p.live >= 1 /\ rest = [p EXCEPT !.live = p.live - 1]
  <2>1. rest.live = p.live - 1 /\ rest.dead = p.dead /\ rest.out = p.out
    BY <1>2 DEF Connections
  <2>2. rest \in Connections
    BY <1>0, <1>2 DEF Connections
  <2> QED
    BY <1>0, <1>2, <2>1, <2>2
<1>3. CASE p.dead >= 1 /\ rest = [p EXCEPT !.dead = p.dead - 1]
  <2>1. rest.live = p.live /\ rest.dead = p.dead - 1 /\ rest.out = p.out
    BY <1>3 DEF Connections
  <2>2. rest \in Connections
    BY <1>0, <1>3 DEF Connections
  <2> QED
    BY <1>0, <1>3, <2>1, <2>2
<1> QED
  BY <1>0, <1>1, <1>2, <1>3 DEF WithoutOne

(* A returned connection is no longer out, and is kept while there is room.*)
LEMMA ReturnEffect ==
    ASSUME NEW w \in Workers, NEW p \in Connections, p.out >= 1
    PROVE  /\ Returned(w, p) \in Connections /\ Returned(w, p).out = p.out - 1
           /\ Returned(w, p).live + Returned(w, p).dead
                 \in {p.live + p.dead, p.live + p.dead + 1}
<1>0. p.live \in Nat /\ p.dead \in Nat /\ p.out - 1 \in Nat
  BY DEF Connections
<1>1. CASE Returned(w, p) = [p EXCEPT !.out = p.out - 1, !.live = p.live + 1]
  <2> DEFINE r == [p EXCEPT !.out = p.out - 1, !.live = p.live + 1]
  <2>1. r.out = p.out - 1 /\ r.live = p.live + 1 /\ r.dead = p.dead
    BY DEF Connections
  <2>2. r \in Connections
    <3>1. ASSUME NEW n \in Nat, NEW m \in Nat
          PROVE  [p EXCEPT !.out = n, !.live = m] \in Connections
      BY DEF Connections
    <3>2. p.live + 1 \in Nat
      BY <1>0
    <3> QED
      BY <1>0, <3>1, <3>2
  <2> HIDE DEF r
  <2>3. r.live + r.dead = p.live + p.dead + 1
    BY <1>0, <2>1
  <2> QED
    BY <1>1, <2>1, <2>2, <2>3 DEF r
<1>2. CASE Returned(w, p) = [p EXCEPT !.out = p.out - 1]
  BY <1>0, <1>2 DEF Connections
<1> QED
  BY <1>1, <1>2 DEF Returned

LEMMA CheckoutStep ==
    ASSUME TypeOK, PlaceInv, OutageInv, NEW w \in Workers,
           Checkout(w) \/ CheckoutTimesOut(w)
    PROVE  \E new : ThreadStep(w, new)
<1> DEFINE t == worker[w]
           e == t.engine
<1>1. /\ t \in Thread /\ t.at = "checkout" /\ e \in Workers
      /\ t.reply = None /\ ~t.spurious /\ (~up => t.hit)
  BY TypeUnfolded DEF Checkout, CheckoutTimesOut, At, PlaceInv, OutageInv, Placed,
     Sound, Aware, Trying
<1>2. pool[e] \in Connections /\ UNCHANGED <<up, outages>> /\ cache' \in Workers \cup {None}
  BY <1>1, TypeUnfolded DEF TypeOK, Checkout, CheckoutTimesOut
<1>3. ASSUME NEW new, Raised(w, new) PROVE new.at # "work" /\ Aware(new)
  BY <1>3 DEF Raised, Aware, Trying
<1>4. CASE CheckoutTimesOut(w)
  <2>1. PICK new : worker' = [worker EXCEPT ![w] = new] /\ Raised(w, new)
    BY <1>1, <1>4, RaiseEffect DEF CheckoutTimesOut
  <2> QED
    BY <1>1, <1>2, <1>3, <1>4, <2>1 DEF ThreadStep, Holding, Raised, CheckoutTimesOut
<1>5. CASE Checkout(w)
  <2>1. PICK rest \in WithoutOne(pool[e]) : CheckoutPinged(w, rest)
    BY <1>5 DEF Checkout
  <2>2. rest \in Connections /\ rest.out = pool[e].out
    BY <1>2, RestEffect
  <2>3. CASE up
    <3> DEFINE new == [t EXCEPT !.at = "work", !.conn = "live"]
               q == [rest EXCEPT !.out = rest.out + 1]
    <3>1. worker' = [worker EXCEPT ![w] = new] /\ pool' = [pool EXCEPT ![e] = q]
      BY <1>1, <2>1, <2>3, TypeUnfolded DEF CheckoutPinged, Take
    <3>2. q \in Connections /\ q.out = pool[e].out + 1
      BY <2>2 DEF Connections
    <3>3. /\ new \in Thread /\ new.at = "work" /\ new.conn = "live" /\ new.engine = e
          /\ new.reply = t.reply /\ new.spurious = t.spurious /\ new.hit = t.hit
      BY <1>1 DEF Thread, Places, Trying
    <3>4. Placed(new) /\ Sound(new) /\ Aware(new)
      <4> HIDE DEF new
      <4> QED
        BY <1>1, <2>3, <3>3, NoReply DEF Placed, Sound, Aware
    <3> HIDE DEF new, q
    <3>5. Holding(w, new)
      BY <1>1, <3>1, <3>2, <3>3 DEF Holding
    <3> QED
      BY <1>2, <3>1, <3>3, <3>4, <3>5 DEF ThreadStep
  <2>4. CASE ~up
    <3>1. Raise(w, "OperationalError") /\ pool' = [pool EXCEPT ![e] = rest]
      BY <2>1, <2>4 DEF CheckoutPinged
    <3>2. PICK new : worker' = [worker EXCEPT ![w] = new] /\ Raised(w, new)
      BY <1>1, <2>4, <3>1, RaiseEffect
    <3>3. Holding(w, new)
      BY <1>1, <1>3, <2>2, <3>1, <3>2 DEF Holding
    <3> QED
      BY <1>2, <1>3, <3>2, <3>3 DEF ThreadStep, Raised
  <2> QED
    BY <2>3, <2>4
<1> QED
  BY <1>4, <1>5

LEMMA WorkStep ==
    ASSUME TypeOK, IInv, NEW w \in Workers, Succeed(w) \/ Fail(w)
    PROVE  \E new : ThreadStep(w, new)
<1> DEFINE t == worker[w]
           e == t.engine
           q == Returned(w, pool[e])
<1>1. /\ t \in Thread /\ t.at = "work" /\ e \in Workers
      /\ t.reply = None /\ ~t.spurious /\ (t.conn = "dead" => t.hit)
  BY TypeUnfolded DEF Succeed, Fail, At, IInv, PlaceInv, OutageInv, Placed, Sound
<1>2. q \in Connections /\ q.out = pool[e].out - 1
  BY <1>1, TypeUnfolded, HolderCounts, ReturnEffect DEF IInv
<1>3. /\ UNCHANGED <<up, outages>> /\ cache' \in Workers \cup {None}
      /\ pool' = [pool EXCEPT ![e] = q]
  BY DEF Succeed, Fail, Release, TypeOK
<1> HIDE DEF q
<1>4. PICK new : worker' = [worker EXCEPT ![w] = new] /\ Raised(w, new)
  <2>1. CASE Fail(w)
    BY <1>1, <2>1, RaiseEffect DEF Fail, IInv
  <2>2. CASE Succeed(w)
    <3> DEFINE reply == IF t.kind = "health" THEN "healthy" ELSE "ok"
               new == Answered(w, reply, FALSE)
    <3>1. reply \in Replies /\ reply # "SERVICE_UNAVAILABLE"
      BY DEF Replies
    <3> HIDE DEF reply
    <3>2. Raised(w, new)
      BY <1>1, <3>1 DEF Raised, Answered, Thread, Placed, Sound, Places
    <3> QED
      BY <2>2, <3>2 DEF Succeed, reply
  <2> QED
    BY <2>1, <2>2
<1>5. new.at # "work" /\ Aware(new) /\ new \in Thread /\ Placed(new) /\ Sound(new)
  BY <1>4 DEF Raised, Aware, Trying
<1>6. Holding(w, new)
  BY <1>1, <1>2, <1>3, <1>5 DEF Holding
<1> QED
  BY <1>3, <1>4, <1>5, <1>6 DEF ThreadStep
-----------------------------------------------------------------------------
LEMMA InitInv == Init => TypeOK /\ IInv
<1> SUFFICES ASSUME Init PROVE TypeOK /\ IInv
  OBVIOUS
<1>1. \A w \in Workers : worker[w] = Fresh
  BY DEF Init
<1>2. Fresh.at = "idle" /\ up
  BY DEF Fresh, Init
<1>3. PlaceInv /\ OutageInv
  BY <1>1, <1>2, FreshSound DEF PlaceInv, OutageInv, Aware
<1>4. NothingLeaked
  <2>1. ASSUME NEW e \in Workers PROVE pool[e].out = Cardinality(Held(e))
    <3>1. Held(e) = {}
      BY <1>1, <1>2 DEF Held, At
    <3> QED
      BY <3>1, FS_EmptySet DEF Init
  <2> QED
    BY <2>1 DEF NothingLeaked, Held
<1>5. TypeOK
  <2>1. worker \in [Workers -> Thread]
    BY FreshSound DEF Init
  <2>2. pool \in [Workers -> Connections]
    BY DEF Init, Connections
  <2> QED
    BY <2>1, <2>2, LimitsAssumption DEF Init, TypeOK, Thread, Connections
<1> QED
  BY <1>3, <1>4, <1>5 DEF IInv

(* Who works, and on which engine, is all NothingLeaked says of threads.   *)
LEMMA HeldSame ==
    ASSUME NEW e,
           \A v \in Workers : (At(v, "work") /\ worker[v].engine = e)'
                                 <=> (At(v, "work") /\ worker[v].engine = e)
    PROVE  Held(e)' = Held(e)
BY DEF Held

LEMMA ThreadStepKeeps ==
    ASSUME TypeOK, IInv, NEW w \in Workers, NEW new, ThreadStep(w, new)
    PROVE  TypeOK' /\ IInv'
<1> DEFINE e == worker[w].engine
<1>1. /\ worker \in [Workers -> Thread] /\ worker[w] \in Thread /\ new \in Thread
      /\ pool \in [Workers -> Connections]
      /\ worker' = [worker EXCEPT ![w] = new]
  BY TypeUnfolded DEF ThreadStep
<1>2. worker'[w] = new /\ \A v \in Workers \ {w} : worker'[v] = worker[v]
  BY <1>1
<1>3. TypeOK'
  <2>1. worker' \in [Workers -> Thread]
    BY <1>1
  <2>2. pool' \in [Workers -> Connections]
    BY <1>1 DEF ThreadStep, Holding
  <2> QED
    BY <2>1, <2>2 DEF ThreadStep, TypeOK, Thread, Connections
<1>4. PlaceInv' /\ OutageInv'
  BY <1>2 DEF IInv, PlaceInv, OutageInv, ThreadStep, Aware
<1>5. \A v \in Workers \ {w}, f \in Workers :
         (At(v, "work") /\ worker[v].engine = f)' <=> (At(v, "work") /\ worker[v].engine = f)
  BY <1>2 DEF At
<1>6. ASSUME NEW f \in Workers PROVE pool'[f].out = Cardinality(Held(f)')
  <2>0. pool[f].out = Cardinality(Held(f)) /\ IsFiniteSet(Held(f)) /\ pool[f].out \in Nat
    BY <1>1, HeldFinite DEF IInv, NothingLeaked, Held, Connections
  <2>1. CASE pool' = pool /\ worker[w].at # "work" /\ new.at # "work"
    <3>1. Held(f)' = Held(f)
      BY <1>2, <1>5, <2>1, HeldSame DEF At
    <3> QED
      BY <2>0, <2>1, <3>1
  <2>2. ASSUME worker[w].at = "checkout", e \in Workers, NEW q \in Connections,
               pool' = [pool EXCEPT ![e] = q],
               new.at = "work", new.engine = e, q.out = pool[e].out + 1
        PROVE  pool'[f].out = Cardinality(Held(f)')
    <3>1. CASE f = e
      <4>1. Held(f)' = Held(f) \cup {w} /\ w \notin Held(f)
        BY <1>2, <1>5, <2>2, <3>1 DEF Held, At
      <4>2. Cardinality(Held(f)') = Cardinality(Held(f)) + 1
        BY <2>0, <4>1, FS_AddElement
      <4>3. pool'[f].out = pool[f].out + 1
        BY <1>1, <2>2, <3>1
      <4> QED
        BY <2>0, <4>2, <4>3
    <3>2. CASE f # e
      <4>1. Held(f)' = Held(f)
        BY <1>2, <1>5, <2>2, <3>2, HeldSame DEF At
      <4> QED
        BY <1>1, <2>0, <2>2, <3>2, <4>1
    <3> QED
      BY <3>1, <3>2
  <2>3. ASSUME worker[w].at = "checkout", e \in Workers, NEW q \in Connections,
               pool' = [pool EXCEPT ![e] = q], new.at # "work", q.out = pool[e].out
        PROVE  pool'[f].out = Cardinality(Held(f)')
    <3>1. Held(f)' = Held(f)
      BY <1>2, <1>5, <2>3, HeldSame DEF At
    <3> QED
      BY <1>1, <2>0, <2>3, <3>1
  <2>4. ASSUME worker[w].at = "work", e \in Workers, NEW q \in Connections,
               pool' = [pool EXCEPT ![e] = q], new.at # "work", q.out = pool[e].out - 1
        PROVE  pool'[f].out = Cardinality(Held(f)')
    <3>1. CASE f = e
      <4>1. Held(f)' = Held(f) \ {w} /\ w \in Held(f)
        BY <1>2, <1>5, <2>4, <3>1 DEF Held, At
      <4>2. Cardinality(Held(f)') = Cardinality(Held(f)) - 1
        BY <2>0, <4>1, FS_RemoveElement
      <4>3. pool'[f].out = pool[f].out - 1
        BY <1>1, <2>4, <3>1
      <4> QED
        BY <2>0, <4>2, <4>3
    <3>2. CASE f # e
      <4>1. Held(f)' = Held(f)
        BY <1>2, <1>5, <2>4, <3>2, HeldSame DEF At
      <4> QED
        BY <1>1, <2>0, <2>4, <3>2, <4>1
    <3> QED
      BY <3>1, <3>2
  <2> QED
    BY <2>1, <2>2, <2>3, <2>4 DEF ThreadStep, Holding
<1>7. NothingLeaked'
  BY <1>6 DEF NothingLeaked, Held
<1> QED
  BY <1>3, <1>4, <1>7 DEF IInv

(* The environment counts nothing out of a pool and moves no thread.       *)
LEMMA OutSame ==
    ASSUME IInv,
           \A w \in Workers : worker'[w].at = worker[w].at
                                 /\ worker'[w].engine = worker[w].engine,
           \A e \in Workers : pool'[e].out = pool[e].out
    PROVE  NothingLeaked'
<1>1. ASSUME NEW e \in Workers PROVE pool'[e].out = Cardinality(Held(e)')
  <2>1. Held(e)' = Held(e)
    BY HeldSame DEF At
  <2> QED
    BY <2>1 DEF IInv, NothingLeaked, Held
<1> QED
  BY <1>1 DEF NothingLeaked, Held

(* What GoDown makes of a thread: it knows, and its connection is dead.    *)
Hit(t) ==
    [t EXCEPT !.hit = @ \/ t.at \in Trying, !.conn = IF @ = "live" THEN "dead" ELSE @]

LEMMA HitSound ==
    ASSUME NEW t \in Thread, Placed(t), Sound(t)
    PROVE  /\ Hit(t) \in Thread /\ Hit(t).at = t.at /\ Hit(t).engine = t.engine
           /\ Placed(Hit(t)) /\ Sound(Hit(t)) /\ (t.at \in Trying => Hit(t).hit)
<1> DEFINE hit == t.hit \/ t.at \in Trying
           conn == IF t.conn = "live" THEN "dead" ELSE t.conn
<1>1. hit \in BOOLEAN /\ conn \in {None, "live", "dead"}
  BY DEF Thread
<1>2. Hit(t) = [t EXCEPT !.hit = hit, !.conn = conn]
  BY DEF Hit, Thread
<1>3. t.conn \in {"live", "dead"} => conn = "dead"
  OBVIOUS
<1>4. t.at \in Trying => hit
  OBVIOUS
<1> HIDE DEF hit, conn
<1>5. /\ Hit(t) \in Thread /\ Hit(t).at = t.at /\ Hit(t).engine = t.engine
      /\ Hit(t).hit = hit /\ Hit(t).conn = conn /\ Hit(t).reply = t.reply
      /\ Hit(t).spurious = t.spurious /\ Hit(t).attempt = t.attempt
  BY <1>1, <1>2 DEF Thread
<1> QED
  BY <1>3, <1>4, <1>5 DEF Placed, Sound, Trying

LEMMA GoDownKeeps ==
    ASSUME TypeOK, IInv, GoDown
    PROVE  TypeOK' /\ IInv'
<1>1. /\ worker \in [Workers -> Thread] /\ pool \in [Workers -> Connections]
      /\ \A w \in Workers : worker[w] \in Thread /\ pool[w] \in Connections
  BY TypeUnfolded
<1>2. \A w \in Workers : Placed(worker[w]) /\ Sound(worker[w])
  BY DEF IInv, PlaceInv, OutageInv
<1>3. worker' = [w \in Workers |-> Hit(worker[w])]
  BY DEF GoDown, Hit
<1>4. ASSUME NEW w \in Workers
      PROVE  /\ worker'[w] = Hit(worker[w]) /\ worker'[w] \in Thread
             /\ worker'[w].at = worker[w].at /\ worker'[w].engine = worker[w].engine
             /\ Placed(worker'[w]) /\ Sound(worker'[w])
             /\ (worker'[w].at \in Trying => worker'[w].hit)
  BY <1>1, <1>2, <1>3, HitSound
<1>5. ASSUME NEW e \in Workers
      PROVE  pool'[e] \in Connections /\ pool'[e].out = pool[e].out
  <2>1. pool'[e] = [pool[e] EXCEPT !.live = 0, !.dead = pool[e].dead + pool[e].live]
    BY <1>1 DEF GoDown, Connections
  <2>2. pool[e].dead + pool[e].live \in Nat
    BY <1>1 DEF Connections
  <2>3. ASSUME NEW n \in Nat
        PROVE  LET q == [pool[e] EXCEPT !.live = 0, !.dead = n]
               IN  q \in Connections /\ q.out = pool[e].out
    BY <1>1 DEF Connections
  <2> QED
    BY <2>1, <2>2, <2>3
<1>6. TypeOK'
  <2>1. worker' \in [Workers -> Thread]
    BY <1>3, <1>4
  <2>2. pool' \in [Workers -> Connections]
    BY <1>5 DEF GoDown
  <2>3. outages' \in 0 .. MaxOutages
    <3>1. outages \in 0 .. MaxOutages /\ outages < MaxOutages /\ outages' = outages + 1
      BY DEF GoDown, TypeOK
    <3> QED
      BY <3>1, LimitsAssumption
  <2>4. up' \in BOOLEAN /\ cache' \in Workers \cup {None}
    BY DEF GoDown, TypeOK
  <2> QED
    BY <2>1, <2>2, <2>3, <2>4 DEF TypeOK, Thread, Connections
<1>7. PlaceInv' /\ OutageInv'
  BY <1>4 DEF PlaceInv, OutageInv, Aware
<1>8. NothingLeaked'
  BY <1>4, <1>5, OutSame
<1> QED
  BY <1>6, <1>7, <1>8 DEF IInv

LEMMA PoolDecays ==
    ASSUME TypeOK, IInv, NEW e \in Workers, IdleDies(e) \/ Collect(e)
    PROVE  TypeOK' /\ IInv'
<1>1. worker' = worker /\ UNCHANGED <<up, outages, cache>>
  BY DEF IdleDies, Collect
<1>2. pool \in [Workers -> Connections] /\ pool[e] \in Connections
  BY TypeUnfolded
<1>3. PICK q \in Connections : pool' = [pool EXCEPT ![e] = q] /\ q.out = pool[e].out
  <2>1. ASSUME NEW n \in Nat, NEW m \in Nat
        PROVE  LET q == [pool[e] EXCEPT !.live = n, !.dead = m]
               IN  q \in Connections /\ q.out = pool[e].out
    BY <1>2 DEF Connections
  <2>2. CASE IdleDies(e)
    <3>1. pool[e].live - 1 \in Nat /\ pool[e].dead + 1 \in Nat
      BY <1>2, <2>2 DEF IdleDies, Connections
    <3> QED
      BY <2>1, <2>2, <3>1 DEF IdleDies
  <2>3. CASE Collect(e)
    BY <2>1, <2>3 DEF Collect
  <2> QED
    BY <2>2, <2>3
<1>4. \A f \in Workers : pool'[f].out = pool[f].out
  BY <1>2, <1>3
<1>5. TypeOK'
  <2>1. pool' \in [Workers -> Connections]
    BY <1>2, <1>3
  <2> QED
    BY <1>1, <2>1 DEF TypeOK, Connections
<1>6. NothingLeaked'
  BY <1>1, <1>4, OutSame
<1> QED
  BY <1>1, <1>5, <1>6 DEF IInv, PlaceInv, OutageInv, Aware

LEMMA StepInv == TypeOK /\ IInv /\ [Next]_vars => TypeOK' /\ IInv'
<1> SUFFICES ASSUME TypeOK, IInv, [Next]_vars PROVE TypeOK' /\ IInv'
  OBVIOUS
<1>1. CASE GoDown
  BY <1>1, GoDownKeeps
<1>2. CASE ComeUp
  <2>1. TypeOK'
    BY <1>2 DEF ComeUp, TypeOK
  <2> QED
    BY <1>2, <2>1 DEF ComeUp, IInv, NothingLeaked, At, PlaceInv, OutageInv, Aware
<1>3. ASSUME NEW e \in Workers, IdleDies(e) \/ Collect(e) PROVE TypeOK' /\ IInv'
  BY <1>3, PoolDecays
<1>4. ASSUME NEW w \in Workers, Receive(w) \/ Step(w) PROVE TypeOK' /\ IInv'
  <2>1. \E new : ThreadStep(w, new)
    BY <1>4, QuietSteps, CheckoutStep, WorkStep DEF Step, IInv
  <2> QED
    BY <2>1, ThreadStepKeeps
<1>5. CASE UNCHANGED vars
  BY <1>5 DEF vars, TypeOK, IInv, NothingLeaked, At, PlaceInv, OutageInv, Aware
<1> QED
  BY <1>1, <1>2, <1>3, <1>4, <1>5 DEF Next

LEMMA Invariant == Spec => [](TypeOK /\ IInv)
BY InitInv, StepInv, PTL DEF Spec

(* Every step keeps the types: releasing a connection never counts a pool  *)
(* below zero, and no request makes more attempts than it has              *)
(* (db.py:67-77, db.py:111-136).                                           *)
THEOREM TypeCorrect == Spec => []TypeOK
BY Invariant, PTL

(* However attempts end, a pool counts as out what its threads work on     *)
(* (db.py:67-77, db.py:111-136).                                           *)
THEOREM NoConnectionIsLeaked == Spec => []NothingLeaked
<1>1. IInv => NothingLeaked
  BY DEF IInv
<1> QED
  BY <1>1, Invariant, PTL

(* 503 SERVICE_UNAVAILABLE takes all attempts, each with the database down *)
(* in it (db.py:56-57, db.py:119-125).                                     *)
THEOREM OnlyOutagesAreUnavailable == Spec => []UnavailableNeedsOutage
<1>1. IInv => UnavailableNeedsOutage
  BY DEF IInv, OutageInv, Sound, UnavailableNeedsOutage
<1> QED
  BY <1>1, Invariant, PTL

(* The health check never takes a dead idle connection for an outage       *)
(* (health.py:26-32, db.py:56).                                            *)
THEOREM HealthIsNotFooled == Spec => []NoFalseAlarm
<1>1. IInv => NoFalseAlarm
  BY DEF IInv, OutageInv, Sound, NoFalseAlarm
<1> QED
  BY <1>1, Invariant, PTL
-----------------------------------------------------------------------------
(* Opening a connection is the only thing that could break the bounds.     *)
LEMMA NothingOpened ==
    ASSUME TypeOK, TypeOK', EngineInv, cache' = cache,
           \A e \in Workers : Open(e)' <= Open(e),
           \A w \in Workers :
              /\ worker'[w].engine \in {None, worker[w].engine}
              /\ worker'[w].at \in {"building", "checkout"} =>
                    worker'[w].at = worker[w].at
                       /\ worker'[w].engine = worker[w].engine
    PROVE  EngineInv'
<1>1. \A e \in Workers : Open(e) \in Nat /\ Open(e)' \in Nat
  BY DEF TypeOK, Open, Idle
<1>2. \A e \in Workers : Empty(e) => Empty(e)'
  BY <1>1 DEF Empty
<1>3. EachBounded'
  BY <1>1, PoolAssumption DEF EngineInv, EachBounded
<1>4. NoneBuilt'
  BY <1>2, NoneAssumption DEF EngineInv, NoneBuilt
<1>5. ASSUME NEW w \in Workers PROVE OwnEngine(w)'
  BY <1>2, <1>5, NoneAssumption DEF EngineInv, OwnEngine
<1> QED
  BY <1>3, <1>4, <1>5 DEF EngineInv

LEMMA OpenType ==
    ASSUME TypeOK, NEW e \in Workers
    PROVE  /\ Open(e) \in Nat /\ Idle(e) \in Nat /\ pool[e].out \in Nat
           /\ Open(e) = Idle(e) + pool[e].out
BY DEF TypeOK, Open, Idle

(* One pool changes, and what is open of the others does not.              *)
LEMMA OpenElsewhere ==
    ASSUME TypeOK, NEW e \in Workers, NEW q \in Connections,
           pool' = [pool EXCEPT ![e] = q]
    PROVE  /\ Open(e)' = q.live + q.dead + q.out
           /\ \A f \in Workers \ {e} : Open(f)' = Open(f)
BY DEF TypeOK, Open, Idle

LEMMA OpenNoMore ==
    ASSUME TypeOK, NEW e \in Workers, NEW q \in Connections,
           pool' = [pool EXCEPT ![e] = q], q.live + q.dead + q.out <= Open(e)
    PROVE  \A f \in Workers : Open(f)' <= Open(f)
<1>1. ASSUME NEW f \in Workers PROVE Open(f) <= Open(f)
  <2>1. Open(f) \in Nat
    BY OpenType
  <2> QED
    BY <2>1
<1>2. Open(e)' <= Open(e) /\ \A f \in Workers \ {e} : Open(f)' = Open(f)
  BY OpenElsewhere
<1> QED
  BY <1>1, <1>2

(* A thread that starts, ends, gives up or is done with its connection.    *)
LEMMA EndingsOpenNothing ==
    ASSUME TypeOK, TypeOK', IInv, EngineInv, NEW w \in Workers,
           \/ Receive(w) \/ BackoffEnds(w) \/ Finish(w) \/ CheckoutTimesOut(w)
           \/ Succeed(w) \/ Fail(w) \/ (Checkout(w) /\ ~up)
    PROVE  EngineInv'
<1> DEFINE e == worker[w].engine
<1>0. /\ worker \in [Workers -> Thread] /\ worker[w] \in Thread
      /\ pool \in [Workers -> Connections]
  BY TypeUnfolded
<1>1. Placed(worker[w]) /\ Sound(worker[w]) /\ Aware(worker[w])
  BY DEF IInv, PlaceInv, OutageInv
<1>2. cache' = cache
  BY DEF Receive, BackoffEnds, Finish, CheckoutTimesOut, Succeed, Fail, Checkout
<1>3. ASSUME NEW new, worker' = [worker EXCEPT ![w] = new],
             new.at \notin {"building", "checkout"}, new.engine = None,
             \A f \in Workers : Open(f)' <= Open(f)
      PROVE  EngineInv'
  <2>1. \A v \in Workers :
           /\ worker'[v].engine \in {None, worker[v].engine}
           /\ worker'[v].at \in {"building", "checkout"} =>
                 worker'[v].at = worker[v].at /\ worker'[v].engine = worker[v].engine
    BY <1>0, <1>3
  <2> QED
    BY <1>2, <1>3, <2>1, NothingOpened
<1>4. pool' = pool => \A f \in Workers : Open(f)' <= Open(f)
  BY OpenType DEF Open, Idle
<1>5. ASSUME NEW new, Raised(w, new)
      PROVE  new.at \notin {"building", "checkout"} /\ new.engine = None
  BY <1>5 DEF Raised, Placed
<1>6. CASE Receive(w)
  <2>1. PICK kind \in {"query", "health"} :
           worker' = [worker EXCEPT ![w] =
              [Fresh EXCEPT !.at = "engine", !.kind = kind, !.hit = ~up]]
    BY <1>6 DEF Receive
  <2> DEFINE new == [Fresh EXCEPT !.at = "engine", !.kind = kind, !.hit = ~up]
  <2>2. new.at = "engine" /\ new.engine = None
    BY DEF Fresh
  <2> HIDE DEF new
  <2> QED
    BY <1>3, <1>4, <1>6, <2>1, <2>2 DEF Receive, new
<1>7. CASE BackoffEnds(w)
  <2> DEFINE new == [worker[w] EXCEPT !.at = "engine", !.hit = ~up]
  <2>1. worker' = [worker EXCEPT ![w] = new] /\ pool' = pool
    BY <1>0, <1>7 DEF BackoffEnds
  <2>2. new.at = "engine" /\ new.engine = None
    BY <1>0, <1>1, <1>7 DEF Thread, Placed, BackoffEnds, At
  <2> HIDE DEF new
  <2> QED
    BY <1>3, <1>4, <2>1, <2>2
<1>8. CASE Finish(w)
  <2>1. Fresh.at = "idle" /\ Fresh.engine = None
    BY DEF Fresh
  <2> QED
    BY <1>3, <1>4, <1>8, <2>1 DEF Finish
<1>9. CASE CheckoutTimesOut(w)
  <2>1. PICK new : worker' = [worker EXCEPT ![w] = new] /\ Raised(w, new)
    BY <1>9, RaiseEffect DEF CheckoutTimesOut, At, IInv
  <2> QED
    BY <1>3, <1>4, <1>5, <1>9, <2>1 DEF CheckoutTimesOut
<1>10. CASE Checkout(w) /\ ~up
  <2>1. e \in Workers /\ worker[w].at = "checkout" /\ worker[w].hit
    BY <1>1, <1>10 DEF Checkout, At, Placed, Aware, Trying
  <2>2. PICK rest \in WithoutOne(pool[e]) : CheckoutPinged(w, rest)
    BY <1>10 DEF Checkout
  <2>3. Raise(w, "OperationalError") /\ pool' = [pool EXCEPT ![e] = rest]
    BY <1>10, <2>2 DEF CheckoutPinged
  <2>4. PICK new : worker' = [worker EXCEPT ![w] = new] /\ Raised(w, new)
    BY <2>1, <2>3, RaiseEffect DEF IInv
  <2>5. pool[e] \in Connections
    BY <1>0, <2>1
  <2>6. rest \in Connections /\ rest.live + rest.dead + rest.out <= Open(e)
    BY <2>5, RestEffect DEF Open, Idle, Connections
  <2>7. \A f \in Workers : Open(f)' <= Open(f)
    BY <2>1, <2>3, <2>6, OpenNoMore
  <2> QED
    BY <1>3, <1>5, <2>4, <2>7
<1>11. CASE Succeed(w) \/ Fail(w)
  <2>1. e \in Workers /\ worker[w].at = "work"
    BY <1>1, <1>11 DEF Succeed, Fail, At, Placed
  <2>2. pool' = [pool EXCEPT ![e] = Returned(w, pool[e])]
    BY <1>11 DEF Succeed, Fail, Release
  <2>3. pool[e] \in Connections /\ pool[e].out >= 1
    BY <1>0, <2>1, HolderCounts DEF IInv
  <2> DEFINE q == Returned(w, pool[e])
  <2>4. /\ q \in Connections /\ q.out = pool[e].out - 1
        /\ q.live + q.dead \in {pool[e].live + pool[e].dead, pool[e].live + pool[e].dead + 1}
    BY <2>3, ReturnEffect
  <2> HIDE DEF q
  <2>5. q.live + q.dead + q.out <= Open(e)
    BY <2>3, <2>4 DEF Open, Idle, Connections
  <2>6. \A f \in Workers : Open(f)' <= Open(f)
    <3>1. pool' = [pool EXCEPT ![e] = q]
      BY <2>2 DEF q
    <3> QED
      BY <2>1, <2>4, <2>5, <3>1, OpenNoMore
  <2>7. PICK new : worker' = [worker EXCEPT ![w] = new] /\ new.at \notin {"building", "checkout"}
                      /\ new.engine = None
    <3>1. CASE Fail(w)
      BY <1>1, <1>5, <2>1, <3>1, RaiseEffect DEF Fail, IInv, Sound
    <3>2. CASE Succeed(w)
      <4> DEFINE new == [worker[w] EXCEPT !.at = "answered", !.engine = None,
                    !.conn = None, !.spurious = worker[w].spurious \/ FALSE,
                    !.reply = IF worker[w].kind = "health" THEN "healthy" ELSE "ok"]
      <4>1. worker' = [worker EXCEPT ![w] = new]
        BY <3>2 DEF Succeed, Answered
      <4>2. new.at = "answered" /\ new.engine = None
        BY <1>0 DEF Thread
      <4> HIDE DEF new
      <4> QED
        BY <4>1, <4>2
    <3> QED
      BY <1>11, <3>1, <3>2
  <2> QED
    BY <1>3, <2>6, <2>7
<1> QED
  BY <1>6, <1>7, <1>8, <1>9, <1>10, <1>11

(* A thread that misses builds an engine nobody knows; one that does not   *)
(* uses the one that is cached.                                            *)
LEMMA GetEngineKeeps ==
    ASSUME TypeOK, IInv, EngineInv, NEW w \in Workers, GetEngine(w)
    PROVE  EngineInv'
<1>1. /\ worker \in [Workers -> Thread] /\ worker[w].at = "engine"
      /\ worker[w].engine = None /\ cache \in Workers \cup {None}
  BY TypeUnfolded DEF TypeOK, GetEngine, At, IInv, PlaceInv, Placed
<1>2. UNCHANGED <<cache, pool>> /\ \A e \in Workers : Open(e)' = Open(e) /\ Empty(e)' = Empty(e)
  BY DEF GetEngine, Open, Idle, Empty
<1>3. EachBounded'
  BY <1>2 DEF EngineInv, EachBounded
<1>4. CASE cache = None
  <2>1. /\ worker'[w].at = "building" /\ worker'[w].engine = None
        /\ \A v \in Workers \ {w} : worker'[v] = worker[v]
    BY <1>1, <1>4 DEF GetEngine, Thread
  <2>2. \A v \in Workers : worker'[v].engine = worker[v].engine
    BY <1>1, <2>1
  <2>3. NoneBuilt'
    BY <1>2, <2>2 DEF EngineInv, NoneBuilt
  <2>4. ASSUME NEW v \in Workers PROVE OwnEngine(v)'
    <3>1. CASE v = w
      BY <1>2, <1>4, <2>1, <2>2, <3>1, NoneAssumption DEF EngineInv, NoneBuilt, OwnEngine
    <3>2. CASE v # w
      BY <1>2, <2>1, <2>2, <2>4, <3>2 DEF EngineInv, OwnEngine
    <3> QED
      BY <3>1, <3>2
  <2> QED
    BY <1>3, <2>3, <2>4 DEF EngineInv
<1>5. CASE cache # None
  <2>1. /\ worker'[w].at = "checkout" /\ worker'[w].engine = cache
        /\ \A v \in Workers \ {w} : worker'[v] = worker[v]
    <3>1. worker' = [worker EXCEPT ![w] = Waiting(worker[w], cache)]
      BY <1>1, <1>5 DEF GetEngine, Use, Waiting
    <3>2. /\ Waiting(worker[w], cache).at = "checkout"
          /\ Waiting(worker[w], cache).engine = cache
      BY <1>1 DEF Waiting, Thread
    <3> QED
      BY <1>1, <3>1, <3>2
  <2>2. NoneBuilt'
    BY <1>2, <1>5 DEF NoneBuilt
  <2>3. ASSUME NEW v \in Workers PROVE OwnEngine(v)'
    <3>1. CASE v = w
      BY <1>2, <2>1, <3>1 DEF OwnEngine
    <3>2. CASE v # w
      BY <1>2, <2>1, <2>3, <3>2 DEF EngineInv, OwnEngine
    <3> QED
      BY <3>1, <3>2
  <2> QED
    BY <1>3, <2>2, <2>3 DEF EngineInv
<1> QED
  BY <1>4, <1>5

(* The first engine that is built is cached, a later one is its builder's. *)
LEMMA BuiltKeeps ==
    ASSUME TypeOK, IInv, EngineInv, NEW w \in Workers, Built(w)
    PROVE  EngineInv'
<1>1. /\ worker \in [Workers -> Thread] /\ worker[w].at = "building"
      /\ worker[w].engine = None /\ cache \in Workers \cup {None}
  BY TypeUnfolded DEF TypeOK, Built, At, IInv, PlaceInv, Placed
<1>2. pool' = pool /\ \A e \in Workers : Open(e)' = Open(e) /\ Empty(e)' = Empty(e)
  BY DEF Built, Open, Idle, Empty
<1>3. /\ worker'[w].at = "checkout" /\ worker'[w].engine = w
      /\ \A v \in Workers \ {w} : worker'[v] = worker[v]
  BY <1>1 DEF Built, Use, Thread
<1>4. cache' = (IF cache = None THEN w ELSE cache) /\ cache' # None
  BY NoneAssumption DEF Built, KeepFirst
<1>5. /\ Empty(w) /\ cache # w /\ \A v \in Workers : worker[v].engine # w
  BY <1>1 DEF EngineInv, OwnEngine
<1>6. EachBounded'
  <2>1. CASE cache = None
    <3>1. \A e \in Workers : Open(e)' = 0
      BY <1>2, <2>1 DEF EngineInv, NoneBuilt, Empty
    <3> QED
      BY <3>1, PoolAssumption DEF EachBounded
  <2>2. CASE cache # None
    BY <1>2, <1>4, <2>2 DEF EngineInv, EachBounded
  <2> QED
    BY <2>1, <2>2
<1>7. NoneBuilt'
  BY <1>4 DEF NoneBuilt
<1>8. ASSUME NEW v \in Workers PROVE OwnEngine(v)'
  <2>1. CASE v = w
    BY <1>2, <1>3, <1>5, <2>1 DEF OwnEngine
  <2>2. CASE v # w /\ cache = None
    <3>1. worker[v].engine = None
      BY <1>1, <1>8, <2>2 DEF EngineInv, NoneBuilt, Thread
    <3>2. worker[v].at # "checkout"
      BY <3>1, NoneAssumption DEF IInv, PlaceInv, Placed
    <3> QED
      BY <1>2, <1>3, <1>4, <1>8, <2>2, <3>1, <3>2 DEF EngineInv, OwnEngine
  <2>3. CASE v # w /\ cache # None
    BY <1>2, <1>3, <1>4, <1>8, <2>3 DEF EngineInv, OwnEngine
  <2> QED
    BY <2>1, <2>2, <2>3
<1> QED
  BY <1>6, <1>7, <1>8 DEF EngineInv

(* A connection is opened within the limit of the pool, and of an engine   *)
(* that lost the race only by its builder, who finds it empty.             *)
LEMMA CheckoutKeeps ==
    ASSUME TypeOK, IInv, EngineInv, NEW w \in Workers, Checkout(w), up
    PROVE  EngineInv'
<1>0. PICK e \in Workers : e = worker[w].engine
  BY DEF Checkout, At, IInv, PlaceInv, Placed
<1>1. /\ worker \in [Workers -> Thread] /\ worker[w].at = "checkout"
      /\ pool \in [Workers -> Connections] /\ pool[e] \in Connections /\ cache' = cache
  BY TypeUnfolded DEF Checkout, At
<1>2. PICK rest \in WithoutOne(pool[e]) : Take(w, "live", rest)
  BY <1>0 DEF Checkout, CheckoutPinged
<1>3. rest \in Connections /\ rest.out = pool[e].out
  BY <1>1, RestEffect
<1> DEFINE q == [rest EXCEPT !.out = rest.out + 1]
<1>4. q \in Connections /\ q.live = rest.live /\ q.dead = rest.dead /\ q.out = pool[e].out + 1
  BY <1>3 DEF Connections
<1>5. pool' = [pool EXCEPT ![e] = q]
  BY <1>0, <1>2 DEF Take
<1> HIDE DEF q
<1>6. /\ worker'[w].at = "work" /\ worker'[w].engine = e
      /\ \A v \in Workers \ {w} : worker'[v] = worker[v]
  BY <1>0, <1>1, <1>2 DEF Take, Thread
<1>7. /\ Open(e)' = q.live + q.dead + q.out
      /\ \A f \in Workers \ {e} : Open(f)' = Open(f)
  BY <1>1, <1>4, <1>5, OpenElsewhere
<1>8. /\ Idle(e) = 0 => Open(e)' = Open(e) + 1
      /\ Idle(e) > 0 => Open(e)' = Open(e)
  <2>1. /\ Idle(e) = 0 => rest = pool[e]
        /\ Idle(e) > 0 => rest.live + rest.dead = Idle(e) - 1
    <3>1. PICK p \in Connections : p = pool[e] /\ rest \in WithoutOne(p)
      BY <1>1, <1>2
    <3>2. /\ p.live + p.dead = 0 => rest = p
          /\ p.live + p.dead > 0 => rest.live + rest.dead = p.live + p.dead - 1
      BY <3>1, RestEffect
    <3>3. Idle(e) = p.live + p.dead /\ p.live \in Nat /\ p.dead \in Nat
      BY <3>1 DEF Idle, Connections
    <3> QED
      BY <3>1, <3>2, <3>3
  <2>2. /\ rest.live \in Nat /\ rest.dead \in Nat /\ Idle(e) \in Nat /\ pool[e].out \in Nat
        /\ Open(e) = Idle(e) + pool[e].out /\ Idle(e) = pool[e].live + pool[e].dead
    BY <1>1, <1>3, OpenType DEF Connections, Idle
  <2>3. Open(e)' = rest.live + rest.dead + (pool[e].out + 1)
    BY <1>4, <1>7
  <2> QED
    BY <2>1, <2>2, <2>3
<1>9. Open(e)' <= PoolSize + MaxOverflow
  <2>1. Open(e) <= PoolSize + MaxOverflow
    BY <1>1 DEF EngineInv, EachBounded
  <2>2. Idle(e) = 0 => Open(e) < PoolSize + MaxOverflow
    BY <1>0, <1>1, OpenType, PoolAssumption DEF Checkout, Full
  <2>3. Open(e) \in Nat /\ Idle(e) \in Nat /\ PoolSize + MaxOverflow \in Nat
    BY <1>1, OpenType, PoolAssumption
  <2> QED
    BY <1>8, <2>1, <2>2, <2>3
<1>10. cache # None /\ e \in {cache, w}
  BY <1>0, <1>1, NoneAssumption DEF EngineInv, NoneBuilt, OwnEngine
<1>11. e # cache => Open(e)' <= 1
  <2>1. e # cache => Open(e) = 0
    BY <1>0, <1>1, <1>10 DEF EngineInv, OwnEngine, Empty
  <2>2. Idle(e) \in Nat /\ pool[e].out \in Nat /\ Open(e) = Idle(e) + pool[e].out
    BY <1>1, OpenType
  <2> QED
    BY <1>8, <2>1, <2>2
<1>12. EachBounded'
  <2>1. ASSUME NEW f \in Workers
        PROVE  Open(f)' <= PoolSize + MaxOverflow /\ (f # cache => Open(f)' <= 1)
    <3>1. CASE f = e
      BY <1>9, <1>11, <3>1
    <3>2. CASE f # e
      BY <1>7, <2>1, <3>2 DEF EngineInv, EachBounded
    <3> QED
      BY <3>1, <3>2
  <2> QED
    BY <1>1, <2>1 DEF EachBounded
<1>13. NoneBuilt'
  BY <1>1, <1>10 DEF NoneBuilt
<1>14. \A v \in Workers : worker'[v].engine = worker[v].engine
  BY <1>0, <1>6
<1>15. ASSUME NEW v \in Workers PROVE OwnEngine(v)'
  <2>1. CASE v = w
    BY <1>0, <1>1, <1>6, <1>10, <2>1 DEF OwnEngine
  <2>2. CASE v # w
    <3>1. v # cache /\ Empty(v) => Empty(v)'
      BY <1>7, <1>10, <1>15, <2>2 DEF Empty
    <3>2. worker'[v] = worker[v] /\ OwnEngine(v)
      BY <1>6, <1>15, <2>2 DEF EngineInv
    <3>3. worker[v].engine \in {None, cache, v}
      BY <3>2 DEF OwnEngine
    <3>4. worker[v].at = "checkout" /\ worker[v].engine # cache => v # cache
      BY <3>2, <3>3, NoneAssumption, <1>15 DEF IInv, PlaceInv, Placed
    <3> QED
      BY <1>1, <1>14, <3>1, <3>2, <3>3, <3>4 DEF OwnEngine
  <2> QED
    BY <2>1, <2>2
<1> QED
  BY <1>12, <1>13, <1>15 DEF EngineInv
-----------------------------------------------------------------------------
LEMMA InitEngines == Init => EngineInv
<1> SUFFICES ASSUME Init PROVE EngineInv
  OBVIOUS
<1>1. \A w \in Workers : worker[w].at = "idle" /\ worker[w].engine = None
  BY DEF Init, Fresh
<1>2. \A e \in Workers : Open(e) = 0
  BY DEF Init, Open, Idle
<1> QED
  BY <1>1, <1>2, NoneAssumption, PoolAssumption
     DEF EngineInv, EachBounded, NoneBuilt, OwnEngine, Empty, Init

LEMMA StepEngines == TypeOK /\ IInv /\ EngineInv /\ [Next]_vars => EngineInv'
<1> SUFFICES ASSUME TypeOK, IInv, EngineInv, [Next]_vars PROVE EngineInv'
  OBVIOUS
<1>0. TypeOK'
  BY StepInv
<1>1. ASSUME \A w \in Workers : worker'[w].at = worker[w].at
                                   /\ worker'[w].engine = worker[w].engine,
             cache' = cache, \A e \in Workers : Open(e)' <= Open(e)
      PROVE  EngineInv'
  BY <1>0, <1>1, NothingOpened
<1>2. CASE GoDown
  <2>1. ASSUME NEW e \in Workers PROVE Open(e)' <= Open(e)
    <3>1. pool[e].live \in Nat /\ pool[e].dead \in Nat /\ pool[e].out \in Nat
          /\ pool[e] \in Connections
      BY TypeUnfolded DEF Connections
    <3>2. pool'[e] = [pool[e] EXCEPT !.live = 0, !.dead = pool[e].dead + pool[e].live]
      BY <1>2, <3>1 DEF GoDown
    <3>3. pool'[e].live = 0 /\ pool'[e].dead = pool[e].dead + pool[e].live
          /\ pool'[e].out = pool[e].out
      BY <3>1, <3>2 DEF Connections
    <3> QED
      BY <3>1, <3>3 DEF Open, Idle
  <2>2. \A w \in Workers : worker'[w] = Hit(worker[w])
    BY <1>2 DEF GoDown, Hit
  <2>3. \A w \in Workers : worker'[w].at = worker[w].at /\ worker'[w].engine = worker[w].engine
    BY <2>2, TypeUnfolded, HitSound DEF IInv, PlaceInv, OutageInv
  <2> QED
    BY <1>1, <1>2, <2>1, <2>3 DEF GoDown
<1>3. ASSUME NEW e \in Workers, IdleDies(e) \/ Collect(e) PROVE EngineInv'
  <2>1. pool \in [Workers -> Connections] /\ pool[e] \in Connections
    BY TypeUnfolded
  <2>2. PICK q \in Connections :
           pool' = [pool EXCEPT ![e] = q] /\ q.live + q.dead + q.out <= Open(e)
    <3>1. /\ pool[e].live \in Nat /\ pool[e].dead \in Nat /\ pool[e].out \in Nat
          /\ Open(e) = pool[e].live + pool[e].dead + pool[e].out
      BY <2>1 DEF Connections, Open, Idle
    <3>2. ASSUME NEW n \in Nat, NEW m \in Nat, n + m <= pool[e].live + pool[e].dead
          PROVE  LET q == [pool[e] EXCEPT !.live = n, !.dead = m]
                 IN  q \in Connections /\ q.live + q.dead + q.out <= Open(e)
      <4> DEFINE q == [pool[e] EXCEPT !.live = n, !.dead = m]
      <4>1. q \in Connections /\ q.live = n /\ q.dead = m /\ q.out = pool[e].out
        BY <2>1 DEF Connections
      <4>2. n + m + pool[e].out <= Open(e)
        BY <3>1, <3>2
      <4> QED
        BY <4>1, <4>2
    <3>3. CASE IdleDies(e)
      <4>1. /\ pool[e].live - 1 \in Nat /\ pool[e].dead + 1 \in Nat
            /\ (pool[e].live - 1) + (pool[e].dead + 1) <= pool[e].live + pool[e].dead
        BY <3>1, <3>3 DEF IdleDies
      <4>2. pool' = [pool EXCEPT ![e] =
               [pool[e] EXCEPT !.live = pool[e].live - 1, !.dead = pool[e].dead + 1]]
        BY <2>1, <3>3 DEF IdleDies
      <4> QED
        BY <3>2, <4>1, <4>2
    <3>4. CASE Collect(e)
      <4>1. pool' = [pool EXCEPT ![e] = [pool[e] EXCEPT !.live = 0, !.dead = 0]]
        BY <2>1, <3>4 DEF Collect
      <4>2. 0 + 0 <= pool[e].live + pool[e].dead
        BY <3>1
      <4> QED
        BY <3>2, <4>1, <4>2
    <3> QED
      BY <1>3, <3>3, <3>4
  <2>3. \A f \in Workers : Open(f)' <= Open(f)
    BY <2>2, OpenNoMore
  <2> QED
    BY <1>1, <1>3, <2>3 DEF IdleDies, Collect
<1>4. ASSUME NEW w \in Workers, Receive(w) \/ Step(w) PROVE EngineInv'
  <2>1. CASE Checkout(w) /\ up
    BY <2>1, CheckoutKeeps
  <2>2. CASE GetEngine(w) \/ Built(w)
    BY <2>2, GetEngineKeeps, BuiltKeeps
  <2> QED
    BY <1>0, <1>4, <2>1, <2>2, EndingsOpenNothing DEF Step
<1>5. ASSUME UNCHANGED <<cache, pool, worker>> PROVE EngineInv'
  BY <1>1, <1>5, OpenType DEF Open, Idle
<1> QED
  BY <1>2, <1>3, <1>4, <1>5 DEF Next, ComeUp, vars

(* The bound on each pool gives the bound on all connections: those of the *)
(* cached engine, and one for every engine that lost.                      *)
LEMMA BoundsAddUp == TypeOK /\ EngineInv => OpenBounded
<1> SUFFICES ASSUME TypeOK, EngineInv PROVE OpenBounded
  OBVIOUS
<1> DEFINE limit == PoolSize + MaxOverflow
           connections == UNION {{e} \X (1 .. Open(e)) : e \in Workers}
           losers == {e \in Workers : e # cache /\ Open(e) > 0}
           A == {cache} \X (1 .. limit)
           B == losers \X {1}
<1>1. limit \in Nat
  BY PoolAssumption
<1>2. IsFiniteSet(losers) /\ Cardinality(losers) \in Nat
  <2>1. losers \subseteq Workers
    OBVIOUS
  <2> QED
    BY <2>1, WorkersAssumption, FS_Subset, FS_CardinalityType
<1>3. IsFiniteSet(A) /\ Cardinality(A) = limit
  <2>1. IsFiniteSet(1 .. limit) /\ Cardinality(1 .. limit) = limit
    BY <1>1, FS_Interval
  <2>2. IsFiniteSet({cache}) /\ Cardinality({cache}) = 1
    BY FS_Singleton
  <2> HIDE DEF limit
  <2> QED
    BY <1>1, <2>1, <2>2, FS_Product
<1>4. IsFiniteSet(B) /\ Cardinality(B) = Cardinality(losers)
  <2>1. IsFiniteSet({1}) /\ Cardinality({1}) = 1
    BY FS_Singleton
  <2> HIDE DEF losers
  <2>2. IsFiniteSet(B) /\ Cardinality(B) = Cardinality(losers) * 1
    BY <1>2, <2>1, FS_Product
  <2> QED
    BY <1>2, <2>2
<1>5. connections \subseteq A \cup B
  <2>1. ASSUME NEW e \in Workers, NEW n \in 1 .. Open(e)
        PROVE  <<e, n>> \in A \cup B
    <3>1. Open(e) \in Nat /\ Open(e) <= limit /\ (e # cache => Open(e) <= 1)
      BY OpenType DEF EngineInv, EachBounded
    <3>2. CASE e = cache
      BY <1>1, <2>1, <3>1, <3>2
    <3>3. CASE e # cache
      <4>1. n = 1 /\ Open(e) > 0
        BY <2>1, <3>1, <3>3
      <4> QED
        BY <3>3, <4>1
    <3> QED
      BY <3>2, <3>3
  <2> HIDE DEF A, B
  <2> QED
    BY <2>1
<1> HIDE DEF A, B, connections, losers, limit
<1>6. IsFiniteSet(A \cup B) /\ Cardinality(A \cup B) <= limit + Cardinality(losers)
  <2>1. /\ IsFiniteSet(A \cup B)
        /\ Cardinality(A \cup B) = Cardinality(A) + Cardinality(B) - Cardinality(A \cap B)
    BY <1>3, <1>4, FS_Union
  <2>2. Cardinality(A \cap B) \in Nat
    <3>1. A \cap B \subseteq A
      OBVIOUS
    <3> QED
      BY <1>3, <3>1, FS_Subset, FS_CardinalityType
  <2> QED
    BY <1>1, <1>2, <1>3, <1>4, <2>1, <2>2
<1>7. Cardinality(connections) \in Nat /\ Cardinality(A \cup B) \in Nat
      /\ Cardinality(connections) <= Cardinality(A \cup B)
  BY <1>5, <1>6, FS_Subset, FS_CardinalityType
<1>8. Cardinality(connections) <= limit + Cardinality(losers)
  BY <1>1, <1>2, <1>6, <1>7
<1> QED
  BY <1>8 DEF OpenBounded, connections, losers, limit

(* Of all engines that racing threads build, one keeps to the pool's limit *)
(* and the others open one connection each (db.py:28, db.py:54-55).        *)
THEOREM ConnectionsAreBounded == Spec => []OpenBounded
<1>1. Spec => []EngineInv
  BY Invariant, InitEngines, StepEngines, PTL DEF Spec
<1> QED
  BY <1>1, Invariant, BoundsAddUp, PTL
=============================================================================
