---------------------------- MODULE Correlation -----------------------------
(***************************************************************************)
(* The correlation id a log line carries.  A line either names its id or   *)
(* gets the one bound in the context it is written in.                     *)
(*                                                                         *)
(* The functions host is external and modelled as the code relies on it:   *)
(* synchronous functions (the HTTP API and the activities) run one at a    *)
(* time on a thread of a pool, and what one binds there stays bound for    *)
(* the next; an asynchronous function (the two starters) has a context of  *)
(* its own.                                                                *)
(***************************************************************************)
EXTENDS FiniteSets

CONSTANTS
    None,
    Threads,
    Requests,    \* HTTP requests to the API
    Starts,      \* HTTP requests to POST /api/reminders/run
    Instances,   \* orchestrations
    Activities,  \* activity executions
    RunOf,       \* the orchestration of each activity execution
    Local,       \* whether ENVIRONMENT is local, with a bypass token
    Configured   \* whether AAD_TENANT_ID and AAD_AUDIENCE are set

ASSUME RunOfAssumption == RunOf \in [Activities -> Instances]
ASSUME SettingsAssumption == Local \in BOOLEAN /\ Configured \in BOOLEAN
ASSUME KindsAssumption ==
    /\ Requests \cap Starts = {} /\ Requests \cap Activities = {}
    /\ Starts \cap Activities = {} /\ Threads \cap Starts = {}

Http == Requests \cup Starts
Invocations == Http \cup Activities

(* Ids: a run's instance id, and what a request sends or generates.        *)
Inbound(p) == <<p, "inbound">>
Generated(p, n) == <<p, n>>
IdsOf(p) == {Inbound(p), Generated(p, "first"), Generated(p, "second")}
Ids == Instances \cup UNION {IdsOf(p) : p \in Http}

ASSUME NoneAssumption == None \notin Threads \cup Starts \cup Ids

Tokens == {"none", "bypass", "jwt", "other"}

VARIABLES
    bound,   \* the id bound in each thread, and in each starter's own context
    inv,     \* each invocation: where it is, its thread, header, token and id
    lines,   \* log lines, as pairs of the invocation and the id they carry
    answer   \* the x-correlation-id of each HTTP answer

vars == <<bound, inv, lines, answer>>

Places == {"idle", "wrapper", "validate", "handler", "work", "start", "done"}

TypeOK ==
    /\ bound \in [Threads \cup Starts -> Ids \cup {None}]
    /\ inv \in [Invocations ->
          [at : Places, in : Threads \cup Starts \cup {None}, header : BOOLEAN,
           token : Tokens, cid : Ids \cup {None}]]
    /\ lines \subseteq Invocations \X Ids \cup Invocations \X {None}
    /\ answer \in [Http -> Ids \cup {None}]

Waiting == [at |-> "idle", in |-> None, header |-> FALSE, token |-> "none", cid |-> None]

Init ==
    /\ bound = [c \in Threads \cup Starts |-> None]
    /\ inv = [i \in Invocations |-> Waiting]
    /\ lines = {}
    /\ answer = [p \in Http |-> None]

At(i, place) == inv[i].at = place
Context(i) == inv[i].in
Free(t) == \A i \in Invocations : Context(i) # t
-----------------------------------------------------------------------------
Bind(i, cid) == bound' = [bound EXCEPT ![Context(i)] = cid]

(* Mutant: the header's id is returned and not bound. *)
BindNothing(i, cid) == UNCHANGED bound

(* The inbound id, or a new one at each call.                              *)
CorrelationId(p, call) == IF inv[p].header THEN Inbound(p) ELSE Generated(p, call)

(* get_correlation_id: what it returns is also bound.                      *)
BindRequest(p, cid) == Bind(p, cid)

Go(i, place) == [inv EXCEPT ![i].at = place]
GoAs(i, place, cid) == [inv EXCEPT ![i] = [@ EXCEPT !.at = place, !.cid = cid]]

(* A line that names its id, and one that gets the bound one.              *)
LogAs(i, cid) == lines' = lines \cup {<<i, cid>>}
LogBound(i) == LogAs(i, bound[Context(i)])

(* The answer is sent under the given id; the thread is free again.        *)
Reply(p, cid) ==
    /\ inv' = [inv EXCEPT ![p] = [@ EXCEPT !.at = "done", !.in = None, !.cid = cid]]
    /\ answer' = [answer EXCEPT ![p] = cid]

(* error_response logs the refusal under the id it answers with.           *)
Refuse(p, cid) == LogAs(p, cid) /\ Reply(p, cid)
-----------------------------------------------------------------------------
(* A request to a function under require_role, or to the health check.     *)
Dispatch(p, t) ==
    /\ At(p, "idle") /\ Free(t)
    /\ \E header \in BOOLEAN, token \in Tokens, place \in {"wrapper", "handler"} :
          inv' = [inv EXCEPT ![p] =
              [Waiting EXCEPT !.at = place, !.in = t, !.header = header, !.token = token]]
    /\ UNCHANGED <<bound, lines, answer>>

(* require_role binds an id before it looks at the Authorization header.   *)
Wrapper(p) ==
    /\ At(p, "wrapper")
    /\ LET cid == CorrelationId(p, "first")
       IN /\ BindRequest(p, cid)
          /\ IF inv[p].token = "none"
             THEN Refuse(p, cid)
             ELSE /\ inv' = GoAs(p, "validate", cid)
                  /\ UNCHANGED <<lines, answer>>

Bypassed(p) == Local /\ inv[p].token = "bypass"

(* The bypass is logged; a token is checked against the issuer's keys.     *)
Accept(p) ==
    /\ At(p, "validate")
    /\ IF Bypassed(p) THEN LogBound(p)
       ELSE Configured /\ inv[p].token = "jwt" /\ UNCHANGED lines
    /\ inv' = Go(p, "handler")
    /\ UNCHANGED <<bound, answer>>

(* Any other token, missing settings, or keys that cannot be fetched: 401; *)
(* roles that are not enough: 403.                                         *)
Deny(p) ==
    /\ At(p, "validate")
    /\ Refuse(p, inv[p].cid)
    /\ UNCHANGED bound

Handler(p) ==
    /\ At(p, "handler")
    /\ LET cid == CorrelationId(p, "second")
       IN /\ BindRequest(p, cid)
          /\ inv' = GoAs(p, "work", cid)
    /\ UNCHANGED <<lines, answer>>

(* What the handler does: lines that name the id, and lines of db.py,      *)
(* which do not.                                                           *)
Work(p) ==
    /\ At(p, "work")
    /\ LogAs(p, inv[p].cid) \/ LogBound(p)
    /\ UNCHANGED <<bound, inv, answer>>

Respond(p) ==
    /\ At(p, "work")
    /\ \/ Reply(p, inv[p].cid) /\ UNCHANGED lines
       \/ Refuse(p, inv[p].cid)
    /\ UNCHANGED bound
-----------------------------------------------------------------------------
(* POST /api/reminders/run: the request's id until the instance has one.   *)
StartReceived(s) ==
    /\ At(s, "idle")
    /\ \E header \in BOOLEAN :
          LET cid == IF header THEN Inbound(s) ELSE Generated(s, "first")
          IN /\ bound' = [bound EXCEPT ![s] = cid]
             /\ inv' = [inv EXCEPT ![s] =
                   [Waiting EXCEPT !.at = "start", !.in = s, !.header = header,
                                   !.cid = cid]]
    /\ UNCHANGED <<lines, answer>>

Started(s) ==
    /\ At(s, "start")
    /\ \E r \in Instances :
          /\ Bind(s, r)
          /\ LogAs(s, r)
          /\ Reply(s, r)

StartFails(s) ==
    /\ At(s, "start")
    /\ Refuse(s, inv[s].cid)
    /\ UNCHANGED bound
-----------------------------------------------------------------------------
(* Mutant: the orchestrator passes the activity's input on without its id. *)
NoCorrelation(a) == None

(* Mutant: the activity's own invocation instead of its run. *)
OwnId(a) == a

(* The correlationId of every activity's payload.                          *)
PayloadId(a) == RunOf[a]

(* _bind_from_payload comes first, and binds only what is there.           *)
Execute(a, t) ==
    /\ At(a, "idle") /\ Free(t)
    /\ inv' = [inv EXCEPT ![a] = [Waiting EXCEPT !.at = "work", !.in = t]]
    /\ bound' = IF PayloadId(a) = None THEN bound
                ELSE [bound EXCEPT ![t] = PayloadId(a)]
    /\ UNCHANGED <<lines, answer>>

(* The activity, the SendGrid client and db.py log without naming an id.   *)
ActivityLogs(a) ==
    /\ At(a, "work")
    /\ LogBound(a)
    /\ UNCHANGED <<bound, inv, answer>>

Return(a) ==
    /\ At(a, "work")
    /\ inv' = [inv EXCEPT ![a] = [@ EXCEPT !.at = "done", !.in = None]]
    /\ UNCHANGED <<bound, lines, answer>>
-----------------------------------------------------------------------------
Finished == \A i \in Invocations : At(i, "done")
Terminated == Finished /\ UNCHANGED vars

Next ==
    \/ \E p \in Requests :
          \/ \E t \in Threads : Dispatch(p, t)
          \/ Wrapper(p) \/ Accept(p) \/ Deny(p) \/ Handler(p) \/ Work(p) \/ Respond(p)
    \/ \E s \in Starts : StartReceived(s) \/ Started(s) \/ StartFails(s)
    \/ \E a \in Activities :
          (\E t \in Threads : Execute(a, t)) \/ ActivityLogs(a) \/ Return(a)
    \/ Terminated

Spec == Init /\ [][Next]_vars
-----------------------------------------------------------------------------
(* Every line an activity writes carries the id of its own run, whatever   *)
(* ran on its thread before and whatever else runs (README.md:511,         *)
(* activities.py:21-25, orchestrators.py:26-70).                           *)
RunLinesCarryRun == \A a \in Activities, id \in Ids \cup {None} :
    <<a, id>> \in lines => id = RunOf[a]

(* No line of a request carries an id of another request or run, left over *)
(* on its thread (errors.py:17-22, logging_setup.py:18-22).                *)
NoBorrowedId == \A p \in Requests, id \in Ids \cup {None} :
    <<p, id>> \in lines => id \in IdsOf(p)

(* A request that generates ids logs under one of them, that of its        *)
(* answer, although require_role and its handler generate one each; only   *)
(* the local bypass logs in between (README.md:510, rbac.py:61,            *)
(* jwt_validator.py:76).                                                   *)
OneIdPerRequest == \A p \in Requests, id \in Ids \cup {None} :
    <<p, id>> \in lines /\ answer[p] # None /\ ~Bypassed(p) => id = answer[p]
=============================================================================
