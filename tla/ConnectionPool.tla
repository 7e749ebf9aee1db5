--------------------------- MODULE ConnectionPool ---------------------------
(***************************************************************************)
(* The threads of a function host over one database: the engine they share *)
(* through an lru_cache, its connection pool, the connection() block with  *)
(* its retries, and the health check, which has none.                      *)
(*                                                                         *)
(* The lru_cache and QueuePool are external and modelled as the code uses  *)
(* them.  The cache runs get_engine in every thread that misses; the first *)
(* result stays, a later one goes to its own caller only.  A pool keeps    *)
(* up to PoolSize idle connections and opens up to MaxOverflow more; a     *)
(* thread that finds neither waits, in the end in vain.  pool_pre_ping     *)
(* tries an idle connection and replaces it if it is dead; an old one is   *)
(* replaced likewise (pool_recycle).                                       *)
(***************************************************************************)
EXTENDS Integers, FiniteSets, ApiErrors

CONSTANTS
    None,
    Workers,       \* threads; also the engines, by the thread that built them
    PoolSize,
    MaxOverflow,
    MaxAttempts,   \* attempts of with_db_retry
    MaxOutages     \* bound on how often the database goes down

ASSUME PoolAssumption == PoolSize \in Nat \ {0} /\ MaxOverflow \in Nat
ASSUME LimitsAssumption == MaxAttempts \in Nat \ {0} /\ MaxOutages \in Nat
ASSUME WorkersAssumption == IsFiniteSet(Workers)

VARIABLES
    up,        \* whether the database can be reached
    outages,
    cache,     \* the engine get_engine has cached
    pool,      \* each engine's idle connections, live and dead, and those out
    worker     \* each thread: its request and its connection

vars == <<up, outages, cache, pool, worker>>

Trying == {"engine", "building", "checkout", "work"}
Places == Trying \cup {"idle", "backoff", "answered"}
Replies == {"ok", "healthy", "unhealthy"} \cup Codes

ASSUME NoneAssumption == None \notin Workers \cup Replies \cup {"live", "dead"}

TypeOK ==
    /\ up \in BOOLEAN
    /\ outages \in 0 .. MaxOutages
    /\ cache \in Workers \cup {None}
    /\ pool \in [Workers -> [live : Nat, dead : Nat, out : Nat]]
    /\ worker \in [Workers ->
          [at : Places, kind : {"query", "health"}, engine : Workers \cup {None},
           conn : {None, "live", "dead"}, attempt : 0 .. MaxAttempts - 1,
           hit : BOOLEAN,       \* history: the database was down in this attempt
           spurious : BOOLEAN,  \* history: an attempt it was not down in lost its connection
           reply : Replies \cup {None}]]

Fresh == [at |-> "idle", kind |-> "query", engine |-> None, conn |-> None,
          attempt |-> 0, hit |-> FALSE, spurious |-> FALSE, reply |-> None]

Init ==
    /\ up = TRUE
    /\ outages = 0
    /\ cache = None
    /\ pool = [e \in Workers |-> [live |-> 0, dead |-> 0, out |-> 0]]
    /\ worker = [w \in Workers |-> Fresh]

At(w, place) == worker[w].at = place
-----------------------------------------------------------------------------
(* The server or the network: every open connection is dead after an       *)
(* outage, one left idle may also die alone.                               *)
GoDown ==
    /\ up /\ outages < MaxOutages
    /\ up' = FALSE
    /\ outages' = outages + 1
    /\ pool' = [e \in Workers |->
          [pool[e] EXCEPT !.live = 0, !.dead = @ + pool[e].live]]
    /\ worker' = [w \in Workers |->
          [worker[w] EXCEPT !.hit = @ \/ worker[w].at \in Trying,
                            !.conn = IF @ = "live" THEN "dead" ELSE @]]
    /\ UNCHANGED cache

ComeUp ==
    /\ ~up
    /\ up' = TRUE
    /\ UNCHANGED <<outages, cache, pool, worker>>

IdleDies(e) ==
    /\ pool[e].live > 0
    /\ pool' = [pool EXCEPT ![e] =
          [@ EXCEPT !.live = pool[e].live - 1, !.dead = pool[e].dead + 1]]
    /\ UNCHANGED <<up, outages, cache, worker>>

(* An engine that is neither cached nor in use is garbage.                 *)
Collect(e) ==
    /\ cache # e
    /\ \A w \in Workers : worker[w].engine # e
    /\ pool[e].live + pool[e].dead > 0
    /\ pool' = [pool EXCEPT ![e] = [@ EXCEPT !.live = 0, !.dead = 0]]
    /\ UNCHANGED <<up, outages, cache, worker>>
-----------------------------------------------------------------------------
Receive(w) ==
    /\ At(w, "idle")
    /\ \E kind \in {"query", "health"} :
          worker' = [worker EXCEPT ![w] =
              [Fresh EXCEPT !.at = "engine", !.kind = kind, !.hit = ~up]]
    /\ UNCHANGED <<up, outages, cache, pool>>

Use(w, e) == worker' = [worker EXCEPT ![w] = [@ EXCEPT !.at = "checkout", !.engine = e]]

GetEngine(w) ==
    /\ At(w, "engine")
    /\ IF cache = None
       THEN worker' = [worker EXCEPT ![w].at = "building"]
       ELSE Use(w, cache)
    /\ UNCHANGED <<up, outages, cache, pool>>

(* Mutant: a global the last builder sets. *)
KeepLast(w) == cache' = w

KeepFirst(w) == cache' = IF cache = None THEN w ELSE cache

Built(w) ==
    /\ At(w, "building")
    /\ KeepFirst(w)
    /\ Use(w, w)
    /\ UNCHANGED <<up, outages, pool>>
-----------------------------------------------------------------------------
Idle(e) == pool[e].live + pool[e].dead
Open(e) == Idle(e) + pool[e].out
Full(e) == Idle(e) = 0 /\ pool[e].out >= PoolSize + MaxOverflow

Again(w, lost) ==
    [worker[w] EXCEPT !.at = "backoff", !.engine = None, !.conn = None,
                      !.spurious = worker[w].spurious \/ lost,
                      !.attempt = worker[w].attempt + 1]

Answered(w, reply, lost) ==
    [worker[w] EXCEPT !.at = "answered", !.engine = None, !.conn = None,
                      !.spurious = worker[w].spurious \/ lost, !.reply = reply]

(* Mutant: one attempt too few. *)
AttemptsLeftOneFewer(w) == worker[w].attempt + 2 < MaxAttempts

(* Mutant: one attempt too many. *)
AttemptsLeftOneMore(w) == worker[w].attempt < MaxAttempts

AttemptsLeft(w) == worker[w].attempt + 1 < MaxAttempts

(* ping answers False; with_db_retry tries again or the handler maps it.   *)
Raise(w, exc) ==
    LET lost == exc = "OperationalError" /\ ~worker[w].hit
    IN worker' = [worker EXCEPT ![w] =
          IF worker[w].kind = "health" THEN Answered(w, "unhealthy", lost)
          ELSE IF exc \in Transient /\ AttemptsLeft(w) THEN Again(w, lost)
          ELSE Answered(w, MapException(exc), lost)]

(* The pool hands out a connection.                                        *)
Take(w, state, idle) ==
    /\ pool' = [pool EXCEPT ![worker[w].engine] = [idle EXCEPT !.out = idle.out + 1]]
    /\ worker' = [worker EXCEPT ![w] = [@ EXCEPT !.at = "work", !.conn = state]]

(* What may be left idle when one connection is taken.                     *)
WithoutOne(p) ==
    {[p EXCEPT !.live = p.live - 1] : one \in 1 .. p.live} \cup
    {[p EXCEPT !.dead = p.dead - 1] : one \in 1 .. p.dead} \cup
    {p : one \in IF p.live + p.dead = 0 THEN {1} ELSE {}}

(* Mutant: pool_pre_ping off. *)
CheckoutUnpinged(w, rest) ==
    LET p == pool[worker[w].engine]
    IN IF rest # p THEN Take(w, IF rest.dead < p.dead THEN "dead" ELSE "live", rest)
       ELSE IF up THEN Take(w, "live", p)
       ELSE Raise(w, "OperationalError") /\ UNCHANGED pool

(* An idle connection that is dead is replaced; connecting needs the       *)
(* database, and so does the ping of an idle one.                          *)
CheckoutPinged(w, rest) ==
    IF up THEN Take(w, "live", rest)
    ELSE /\ Raise(w, "OperationalError")
         /\ pool' = [pool EXCEPT ![worker[w].engine] = rest]

Checkout(w) ==
    /\ At(w, "checkout")
    /\ ~Full(worker[w].engine)
    /\ \E rest \in WithoutOne(pool[worker[w].engine]) : CheckoutPinged(w, rest)
    /\ UNCHANGED <<up, outages, cache>>

(* Nobody returned a connection for 30 s, in the health check too: nothing *)
(* passes the pool its window of 2 s.                                      *)
CheckoutTimesOut(w) ==
    /\ At(w, "checkout")
    /\ Full(worker[w].engine)
    /\ Raise(w, "TimeoutError")
    /\ UNCHANGED <<up, outages, cache, pool>>
-----------------------------------------------------------------------------
Returned(w, p) ==
    IF worker[w].conn = "live" /\ p.live + p.dead < PoolSize
    THEN [p EXCEPT !.out = p.out - 1, !.live = p.live + 1]
    ELSE [p EXCEPT !.out = p.out - 1]

(* Mutant: connect() without its context manager, close() after commit. *)
KeepOnError(w) == UNCHANGED pool

(* Leaving the with block, normally or not, returns the connection; a dead *)
(* one and one above PoolSize are closed.                                  *)
Release(w) ==
    pool' = [pool EXCEPT ![worker[w].engine] =
                            Returned(w, pool[worker[w].engine])]

(* The statements and the commit, or SELECT 1.                             *)
Succeed(w) ==
    /\ At(w, "work")
    /\ worker[w].conn = "live"
    /\ pool' = [pool EXCEPT ![worker[w].engine] =
                            Returned(w, pool[worker[w].engine])]
    /\ worker' = [worker EXCEPT ![w] =
          Answered(w, IF worker[w].kind = "health" THEN "healthy" ELSE "ok", FALSE)]
    /\ UNCHANGED <<up, outages, cache>>

(* A dead connection fails; so may a statement, as a deadlock victim or    *)
(* for good.                                                               *)
Fail(w) ==
    /\ At(w, "work")
    /\ \/ worker[w].conn = "dead" /\ Raise(w, "OperationalError")
       \/ /\ worker[w].conn = "live" /\ worker[w].kind = "query"
          /\ \E exc \in {"DBAPIError", "DataError"} : Raise(w, exc)
    /\ Release(w)
    /\ UNCHANGED <<up, outages, cache>>

BackoffEnds(w) ==
    /\ At(w, "backoff")
    /\ worker' = [worker EXCEPT ![w] = [@ EXCEPT !.at = "engine", !.hit = ~up]]
    /\ UNCHANGED <<up, outages, cache, pool>>

Finish(w) ==
    /\ At(w, "answered")
    /\ worker' = [worker EXCEPT ![w] = Fresh]
    /\ UNCHANGED <<up, outages, cache, pool>>
-----------------------------------------------------------------------------
Step(w) ==
    \/ GetEngine(w) \/ Built(w) \/ Checkout(w) \/ CheckoutTimesOut(w)
    \/ Succeed(w) \/ Fail(w) \/ BackoffEnds(w) \/ Finish(w)

Next ==
    \/ GoDown \/ ComeUp
    \/ \E e \in Workers : IdleDies(e) \/ Collect(e)
    \/ \E w \in Workers : Receive(w) \/ Step(w)

Spec == Init /\ [][Next]_vars
-----------------------------------------------------------------------------
(* However attempts end, by success, error, outage or retry, the pool      *)
(* counts as out exactly the connections that threads are working on: none *)
(* is leaked, and a thread that backs off or waits for the pool holds none *)
(* others wait for (db.py:67-77, db.py:111-136).                           *)
NothingLeaked ==
    \A e \in Workers :
        pool[e].out = Cardinality({w \in Workers : At(w, "work") /\ worker[w].engine = e})

(* Threads that race to build the engine may each open a connection of     *)
(* their own once; otherwise all stay within one pool's limit              *)
(* (db.py:28, db.py:54-55).                                                *)
OpenBounded ==
    LET connections == UNION {{e} \X (1 .. Open(e)) : e \in Workers}
        losers      == {e \in Workers : e # cache /\ Open(e) > 0}
    IN Cardinality(connections) <= PoolSize + MaxOverflow + Cardinality(losers)

(* 503 SERVICE_UNAVAILABLE takes MaxAttempts attempts, and connections     *)
(* that died idle never cost one: every attempt lost to the connection had *)
(* the database down in it (db.py:56-57, db.py:119-125).                   *)
UnavailableNeedsOutage ==
    \A w \in Workers :
        worker[w].reply = "SERVICE_UNAVAILABLE" =>
            worker[w].attempt = MaxAttempts - 1 /\ ~worker[w].spurious

(* The health check, which has one attempt only, never calls the database  *)
(* unreachable because of an idle connection that died (health.py:26-32,   *)
(* db.py:56).                                                              *)
NoFalseAlarm ==
    \A w \in Workers : worker[w].reply = "unhealthy" => ~worker[w].spurious
=============================================================================
