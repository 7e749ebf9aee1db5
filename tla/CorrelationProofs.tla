------------------------- MODULE CorrelationProofs --------------------------
(***************************************************************************)
(* Proofs about Correlation for every pool of threads, every set of        *)
(* requests, starts, runs and activities, and every setting.               *)
(*                                                                         *)
(* Who is at work on a thread has it alone and has bound its own id there  *)
(* before anything on it logs (IInv).                                      *)
(***************************************************************************)
EXTENDS Correlation, TLAPS

(* A request logs, and sends, under the id it bound last; what it logs     *)
(* before it has that id is the bypass.                                    *)
RequestInv(p) ==
    /\ Context(p) \in Threads \cup {None}
    /\ inv[p].at \in {"idle", "wrapper", "validate", "handler", "work", "done"}
    /\ inv[p].at \notin {"idle", "done"} => Context(p) \in Threads
    /\ inv[p].at \in {"validate", "work"} =>
          bound[Context(p)] = inv[p].cid /\ inv[p].cid \in IdsOf(p)
    /\ \A id \in Ids \cup {None} : <<p, id>> \in lines =>
          /\ inv[p].at # "idle" /\ id \in IdsOf(p)
          /\ ~Bypassed(p) => inv[p].at \in {"work", "done"} /\ id = inv[p].cid
    /\ answer[p] # None => inv[p].at = "done" /\ answer[p] = inv[p].cid

(* A start has a context of its own.                                       *)
StartInv(s) ==
    /\ Context(s) \in {s, None}
    /\ inv[s].at \in {"idle", "start", "done"}
    /\ inv[s].at = "start" => Context(s) = s

(* While an activity is at work, its thread has the id of its run.         *)
ActivityInv(a) ==
    /\ Context(a) \in Threads \cup {None}
    /\ inv[a].at \in {"idle", "work", "done"}
    /\ inv[a].at = "work" => Context(a) \in Threads /\ bound[Context(a)] = RunOf[a]
    /\ \A id \in Ids \cup {None} : <<a, id>> \in lines => id = RunOf[a]

(* No two invocations are on one thread.                                   *)
Exclusive ==
    \A i, j \in Invocations : Context(i) \in Threads /\ Context(i) = Context(j) => i = j

IInv ==
    /\ \A p \in Requests : RequestInv(p)
    /\ \A s \in Starts : StartInv(s)
    /\ \A a \in Activities : ActivityInv(a)
    /\ Exclusive
-----------------------------------------------------------------------------
Contexts == Threads \cup Starts
Invocation ==
    [at : Places, in : Contexts \cup {None}, header : BOOLEAN, token : Tokens,
     cid : Ids \cup {None}]

LEMMA IdTypes ==
    /\ \A p \in Http : IdsOf(p) \subseteq Ids
    /\ \A p \in Http, call \in {"first", "second"} : CorrelationId(p, call) \in IdsOf(p)
    /\ \A a \in Activities : RunOf[a] \in Ids /\ PayloadId(a) = RunOf[a] /\ RunOf[a] # None
    /\ Instances \subseteq Ids /\ None \notin Ids
BY RunOfAssumption, NoneAssumption DEF Ids, IdsOf, CorrelationId, PayloadId

LEMMA WaitingType == Waiting \in Invocation
BY DEF Waiting, Invocation, Places, Tokens

(* What may change in an invocation's record, and that nothing else does.  *)
LEMMA GoEffect ==
    ASSUME TypeOK, NEW i \in Invocations, NEW place \in Places, inv' = Go(i, place)
    PROVE  /\ inv' \in [Invocations -> Invocation]
           /\ inv'[i].at = place /\ inv'[i].in = inv[i].in
           /\ inv'[i].token = inv[i].token /\ inv'[i].cid = inv[i].cid
           /\ \A j \in Invocations \ {i} : inv'[j] = inv[j]
<1>1. inv \in [Invocations -> Invocation]
  BY DEF TypeOK, Invocation, Contexts
<1> QED
  BY <1>1 DEF Go, Invocation

LEMMA GoAsEffect ==
    ASSUME TypeOK, NEW i \in Invocations, NEW place \in Places, NEW cid \in Ids,
           inv' = GoAs(i, place, cid)
    PROVE  /\ inv' \in [Invocations -> Invocation]
           /\ inv'[i].at = place /\ inv'[i].in = inv[i].in
           /\ inv'[i].token = inv[i].token /\ inv'[i].cid = cid
           /\ \A j \in Invocations \ {i} : inv'[j] = inv[j]
<1>1. inv \in [Invocations -> Invocation]
  BY DEF TypeOK, Invocation, Contexts
<1> QED
  BY <1>1 DEF GoAs, Invocation

LEMMA ReplyEffect ==
    ASSUME TypeOK, NEW p \in Http, NEW cid \in Ids \cup {None}, Reply(p, cid)
    PROVE  /\ inv' \in [Invocations -> Invocation]
           /\ inv'[p].at = "done" /\ inv'[p].in = None
           /\ inv'[p].token = inv[p].token /\ inv'[p].cid = cid
           /\ \A j \in Invocations \ {p} : inv'[j] = inv[j]
           /\ answer' \in [Http -> Ids \cup {None}]
           /\ answer'[p] = cid
           /\ \A q \in Http \ {p} : answer'[q] = answer[q]
<1>1. inv \in [Invocations -> Invocation] /\ p \in Invocations
  BY DEF TypeOK, Invocation, Contexts, Invocations
<1>2. "done" \in Places
  BY DEF Places
<1> QED
  BY <1>1, <1>2 DEF Reply, Invocation, TypeOK

LEMMA ReturnEffect ==
    ASSUME TypeOK, NEW a \in Activities, Return(a)
    PROVE  /\ inv' \in [Invocations -> Invocation]
           /\ inv'[a].at = "done" /\ inv'[a].in = None
           /\ \A j \in Invocations \ {a} : inv'[j] = inv[j]
<1>1. inv \in [Invocations -> Invocation] /\ a \in Invocations
  BY DEF TypeOK, Invocation, Contexts, Invocations
<1>2. "done" \in Places
  BY DEF Places
<1> QED
  BY <1>1, <1>2 DEF Return, Invocation

LEMMA LogType ==
    ASSUME TypeOK, NEW i \in Invocations, NEW cid \in Ids \cup {None}, LogAs(i, cid)
    PROVE  /\ lines' \subseteq Invocations \X Ids \cup Invocations \X {None}
           /\ \A j \in Invocations, id \in Ids \cup {None} :
                 <<j, id>> \in lines' <=> <<j, id>> \in lines \/ (j = i /\ id = cid)
BY DEF LogAs, TypeOK

LEMMA BindType ==
    ASSUME TypeOK, NEW i \in Invocations, NEW cid \in Ids, Context(i) \in Contexts,
           Bind(i, cid)
    PROVE  /\ bound' \in [Contexts -> Ids \cup {None}]
           /\ bound'[Context(i)] = cid
           /\ \A c \in Contexts : c # Context(i) => bound'[c] = bound[c]
BY DEF Bind, TypeOK, Contexts
-----------------------------------------------------------------------------
(* A step of one invocation leaves the others alone: their records, the    *)
(* ids bound where they are, their lines and answers.                      *)
LocalStep(i) ==
    /\ \A j \in Invocations \ {i} :
          /\ inv'[j] = inv[j]
          /\ Context(j) # None => bound'[Context(j)] = bound[Context(j)]
          /\ \A id \in Ids \cup {None} : <<j, id>> \in lines' => <<j, id>> \in lines
          /\ inv'[i].in \in Threads => inv'[i].in # Context(j)
    /\ \A q \in Http \ {i} : answer'[q] = answer[q]

LEMMA Others ==
    ASSUME IInv, NEW i \in Invocations, LocalStep(i)
    PROVE  /\ \A p \in Requests \ {i} : RequestInv(p)'
           /\ \A s \in Starts \ {i} : StartInv(s)'
           /\ \A a \in Activities \ {i} : ActivityInv(a)'
           /\ Exclusive'
<1>1. ASSUME NEW p \in Requests \ {i} PROVE RequestInv(p)'
  <2>1. p \in Invocations \ {i} /\ p \in Http \ {i}
    BY DEF Invocations, Http
  <2>2. RequestInv(p)
    BY DEF IInv
  <2>3. /\ inv'[p] = inv[p] /\ answer'[p] = answer[p]
        /\ \A id \in Ids \cup {None} : <<p, id>> \in lines' => <<p, id>> \in lines
    BY <2>1 DEF LocalStep
  <2>4. Context(p) \in Threads => bound'[Context(p)] = bound[Context(p)]
    BY <2>1, NoneAssumption DEF LocalStep
  <2>5. inv[p].at \in {"validate", "work"} => bound'[Context(p)] = bound[Context(p)]
    BY <2>2, <2>4 DEF RequestInv
  <2> QED
    BY <2>2, <2>3, <2>5 DEF RequestInv, Context, Bypassed
<1>2. ASSUME NEW s \in Starts \ {i} PROVE StartInv(s)'
  <2>1. inv'[s] = inv[s]
    BY DEF Invocations, Http, LocalStep
  <2> QED
    BY <2>1 DEF IInv, StartInv, Context
<1>3. ASSUME NEW a \in Activities \ {i} PROVE ActivityInv(a)'
  <2>1. a \in Invocations \ {i}
    BY DEF Invocations
  <2>2. ActivityInv(a)
    BY DEF IInv
  <2>3. /\ inv'[a] = inv[a]
        /\ \A id \in Ids \cup {None} : <<a, id>> \in lines' => <<a, id>> \in lines
    BY <2>1 DEF LocalStep
  <2>4. Context(a) \in Threads => bound'[Context(a)] = bound[Context(a)]
    BY <2>1, NoneAssumption DEF LocalStep
  <2> QED
    BY <2>2, <2>3, <2>4 DEF ActivityInv, Context
<1>4. Exclusive'
  <2> SUFFICES ASSUME NEW j \in Invocations, NEW k \in Invocations,
                      inv'[j].in \in Threads, inv'[j].in = inv'[k].in
               PROVE  j = k
    BY DEF Exclusive, Context
  <2>1. Exclusive
    BY DEF IInv
  <2> QED
    BY <2>1 DEF LocalStep, Exclusive, Context
<1> QED
  BY <1>1, <1>2, <1>3, <1>4

(* The other threads are not the one an invocation is on.                  *)
LEMMA Elsewhere ==
    ASSUME IInv, NEW i \in Invocations, NEW j \in Invocations \ {i},
           Context(i) \in Threads \/ (i \in Starts /\ Context(i) = i),
           Context(j) # None
    PROVE  Context(j) # Context(i) /\ Context(j) \in Contexts
<1>1. j \in Starts => Context(j) = j
  BY DEF IInv, StartInv
<1>2. j \notin Starts => Context(j) \in Threads
  BY DEF IInv, Invocations, Http, RequestInv, ActivityInv
<1>3. Context(i) \in Threads => Context(j) # Context(i)
  BY DEF IInv, Exclusive
<1> QED
  BY <1>1, <1>2, <1>3, KindsAssumption DEF Contexts
-----------------------------------------------------------------------------
(* What a step of a request needs: it is a request, and has a thread.      *)
LEMMA RequestFacts ==
    ASSUME TypeOK, IInv, NEW p \in Requests
    PROVE  /\ p \in Invocations /\ p \in Http /\ RequestInv(p)
           /\ inv[p] \in Invocation
           /\ inv[p].at \notin {"idle", "done"} =>
                 Context(p) \in Threads /\ Context(p) \in Contexts
BY DEF IInv, Invocations, Http, TypeOK, Invocation, Contexts, RequestInv

LEMMA DispatchStep ==
    ASSUME TypeOK, IInv, NEW p \in Requests, NEW t \in Threads, Dispatch(p, t)
    PROVE  TypeOK' /\ LocalStep(p) /\ RequestInv(p)'
<1>1. PICK header \in BOOLEAN, token \in Tokens, place \in {"wrapper", "handler"} :
         inv' = [inv EXCEPT ![p] =
            [Waiting EXCEPT !.at = place, !.in = t, !.header = header, !.token = token]]
  BY DEF Dispatch
<1> DEFINE new ==
      [Waiting EXCEPT !.at = place, !.in = t, !.header = header, !.token = token]
<1>2. /\ new \in Invocation /\ new.at = place /\ new.in = t
  BY WaitingType DEF Waiting, Invocation, Places, Contexts
<1> HIDE DEF new
<1>3. inv \in [Invocations -> Invocation]
  BY DEF TypeOK, Invocation, Contexts
<1>4. /\ inv' \in [Invocations -> Invocation] /\ inv'[p] = new
      /\ \A j \in Invocations \ {p} : inv'[j] = inv[j]
  BY <1>1, <1>2, <1>3, RequestFacts DEF new
<1>5. UNCHANGED <<bound, lines, answer>> /\ inv[p].at = "idle" /\ Free(t)
  BY DEF Dispatch, At
<1>6. TypeOK'
  BY <1>4, <1>5 DEF TypeOK, Invocation, Contexts
<1>7. LocalStep(p)
  BY <1>2, <1>4, <1>5 DEF LocalStep, Free
<1>8. RequestInv(p)'
  BY <1>2, <1>4, <1>5, RequestFacts DEF RequestInv, Context
<1> QED
  BY <1>6, <1>7, <1>8

LEMMA WrapperStep ==
    ASSUME TypeOK, IInv, NEW p \in Requests, Wrapper(p)
    PROVE  TypeOK' /\ LocalStep(p) /\ RequestInv(p)'
<1> DEFINE cid == CorrelationId(p, "first")
<1>1. cid \in IdsOf(p) /\ cid \in Ids
  BY IdTypes DEF Http
<1>2. inv[p].at = "wrapper" /\ Bind(p, cid)
  BY DEF Wrapper, At, BindRequest
<1>3. \/ LogAs(p, cid) /\ Reply(p, cid)
      \/ inv' = GoAs(p, "validate", cid) /\ UNCHANGED <<lines, answer>>
  BY DEF Wrapper, Refuse
<1> HIDE DEF cid
<1>4. /\ p \in Invocations /\ p \in Http /\ RequestInv(p)
      /\ Context(p) \in Threads /\ Context(p) \in Contexts
  BY <1>2, RequestFacts
<1>5. /\ bound' \in [Contexts -> Ids \cup {None}] /\ bound'[Context(p)] = cid
      /\ \A c \in Contexts : c # Context(p) => bound'[c] = bound[c]
  BY <1>1, <1>2, <1>4, BindType
<1>6. \A j \in Invocations \ {p} : Context(j) # None => bound'[Context(j)] = bound[Context(j)]
  BY <1>4, <1>5, Elsewhere
<1>7. CASE LogAs(p, cid) /\ Reply(p, cid)
  <2>1. /\ lines' \subseteq Invocations \X Ids \cup Invocations \X {None}
        /\ \A j \in Invocations, id \in Ids \cup {None} :
              <<j, id>> \in lines' <=> <<j, id>> \in lines \/ (j = p /\ id = cid)
    BY <1>1, <1>4, <1>7, LogType
  <2>2. /\ inv' \in [Invocations -> Invocation]
        /\ inv'[p].at = "done" /\ inv'[p].in = None
        /\ inv'[p].token = inv[p].token /\ inv'[p].cid = cid
        /\ \A j \in Invocations \ {p} : inv'[j] = inv[j]
        /\ answer' \in [Http -> Ids \cup {None}] /\ answer'[p] = cid
        /\ \A q \in Http \ {p} : answer'[q] = answer[q]
    BY <1>1, <1>4, <1>7, ReplyEffect
  <2>3. TypeOK'
    BY <2>1, <2>2, <1>5 DEF TypeOK, Invocation, Contexts
  <2>4. LocalStep(p)
    BY <2>1, <2>2, <1>4, <1>6, NoneAssumption DEF LocalStep
  <2>5. RequestInv(p)'
    BY <2>1, <2>2, <1>1, <1>2, <1>4 DEF RequestInv, Context, Bypassed
  <2> QED
    BY <2>3, <2>4, <2>5
<1>8. CASE inv' = GoAs(p, "validate", cid) /\ UNCHANGED <<lines, answer>>
  <2>1. /\ inv' \in [Invocations -> Invocation]
        /\ inv'[p].at = "validate" /\ inv'[p].in = inv[p].in
        /\ inv'[p].token = inv[p].token /\ inv'[p].cid = cid
        /\ \A j \in Invocations \ {p} : inv'[j] = inv[j]
    BY <1>1, <1>4, <1>8, GoAsEffect DEF Places
  <2>2. TypeOK'
    BY <2>1, <1>5, <1>8 DEF TypeOK, Invocation, Contexts
  <2>3. LocalStep(p)
    BY <2>1, <1>4, <1>6, <1>8, Elsewhere, NoneAssumption DEF LocalStep, Context
  <2>4. RequestInv(p)'
    BY <2>1, <1>1, <1>2, <1>4, <1>5, <1>8 DEF RequestInv, Context, Bypassed
  <2> QED
    BY <2>2, <2>3, <2>4
<1> QED
  BY <1>3, <1>7, <1>8

(* An answer under the id the request bound last.                          *)
LEMMA AnswerStep ==
    ASSUME TypeOK, IInv, NEW p \in Requests, inv[p].at \in {"validate", "work"},
           Reply(p, inv[p].cid), UNCHANGED lines \/ LogAs(p, inv[p].cid), UNCHANGED bound
    PROVE  TypeOK' /\ LocalStep(p) /\ RequestInv(p)'
<1> DEFINE cid == inv[p].cid
<1>1. /\ p \in Invocations /\ p \in Http /\ RequestInv(p)
      /\ cid \in IdsOf(p) /\ cid \in Ids
  BY RequestFacts, IdTypes DEF RequestInv
<1>2. /\ inv' \in [Invocations -> Invocation]
      /\ inv'[p].at = "done" /\ inv'[p].in = None
      /\ inv'[p].token = inv[p].token /\ inv'[p].cid = cid
      /\ \A j \in Invocations \ {p} : inv'[j] = inv[j]
      /\ answer' \in [Http -> Ids \cup {None}] /\ answer'[p] = cid
      /\ \A q \in Http \ {p} : answer'[q] = answer[q]
  BY <1>1, ReplyEffect
<1>3. /\ lines' \subseteq Invocations \X Ids \cup Invocations \X {None}
      /\ \A j \in Invocations, id \in Ids \cup {None} :
            <<j, id>> \in lines' => <<j, id>> \in lines \/ (j = p /\ id = cid)
  BY <1>1, LogType DEF TypeOK
<1>4. TypeOK'
  BY <1>2, <1>3 DEF TypeOK, Invocation, Contexts
<1>5. LocalStep(p)
  BY <1>2, <1>3, NoneAssumption DEF LocalStep
<1>6. RequestInv(p)'
  BY <1>1, <1>2, <1>3 DEF RequestInv, Context, Bypassed
<1> QED
  BY <1>4, <1>5, <1>6

LEMMA AcceptStep ==
    ASSUME TypeOK, IInv, NEW p \in Requests, Accept(p)
    PROVE  TypeOK' /\ LocalStep(p) /\ RequestInv(p)'
<1>1. /\ inv[p].at = "validate" /\ UNCHANGED <<bound, answer>>
      /\ inv' = Go(p, "handler")
      /\ (LogBound(p) /\ Bypassed(p)) \/ UNCHANGED lines
  BY DEF Accept, At
<1>2. /\ p \in Invocations /\ RequestInv(p)
      /\ Context(p) \in Threads /\ Context(p) \in Contexts
      /\ bound[Context(p)] \in IdsOf(p) /\ bound[Context(p)] \in Ids
  BY <1>1, RequestFacts, IdTypes DEF RequestInv, Http
<1>3. /\ inv' \in [Invocations -> Invocation]
      /\ inv'[p].at = "handler" /\ inv'[p].in = inv[p].in
      /\ inv'[p].token = inv[p].token /\ inv'[p].cid = inv[p].cid
      /\ \A j \in Invocations \ {p} : inv'[j] = inv[j]
  BY <1>1, <1>2, GoEffect DEF Places
<1>4. /\ lines' \subseteq Invocations \X Ids \cup Invocations \X {None}
      /\ \A j \in Invocations, id \in Ids \cup {None} : <<j, id>> \in lines' =>
            \/ <<j, id>> \in lines
            \/ j = p /\ id = bound[Context(p)] /\ Bypassed(p)
  <2>1. CASE UNCHANGED lines
    BY <2>1 DEF TypeOK
  <2>2. CASE LogBound(p) /\ Bypassed(p)
    BY <2>2, <1>2, LogType DEF LogBound
  <2> QED
    BY <1>1, <2>1, <2>2
<1>5. TypeOK'
  BY <1>1, <1>3, <1>4 DEF TypeOK, Invocation, Contexts
<1>6. LocalStep(p)
  BY <1>1, <1>2, <1>3, <1>4, Elsewhere, NoneAssumption DEF LocalStep, Context
<1>7. RequestInv(p)'
  BY <1>1, <1>2, <1>3, <1>4 DEF RequestInv, Context, Bypassed
<1> QED
  BY <1>5, <1>6, <1>7

LEMMA HandlerStep ==
    ASSUME TypeOK, IInv, NEW p \in Requests, Handler(p)
    PROVE  TypeOK' /\ LocalStep(p) /\ RequestInv(p)'
<1> DEFINE cid == CorrelationId(p, "second")
<1>1. cid \in IdsOf(p) /\ cid \in Ids
  BY IdTypes DEF Http
<1>2. /\ inv[p].at = "handler" /\ Bind(p, cid)
      /\ inv' = GoAs(p, "work", cid) /\ UNCHANGED <<lines, answer>>
  BY DEF Handler, At, BindRequest
<1> HIDE DEF cid
<1>3. /\ p \in Invocations /\ RequestInv(p)
      /\ Context(p) \in Threads /\ Context(p) \in Contexts
  BY <1>2, RequestFacts
<1>4. /\ bound' \in [Contexts -> Ids \cup {None}] /\ bound'[Context(p)] = cid
      /\ \A c \in Contexts : c # Context(p) => bound'[c] = bound[c]
  BY <1>1, <1>2, <1>3, BindType
<1>5. \A j \in Invocations \ {p} : Context(j) # None => bound'[Context(j)] = bound[Context(j)]
  BY <1>3, <1>4, Elsewhere
<1>6. /\ inv' \in [Invocations -> Invocation]
      /\ inv'[p].at = "work" /\ inv'[p].in = inv[p].in
      /\ inv'[p].token = inv[p].token /\ inv'[p].cid = cid
      /\ \A j \in Invocations \ {p} : inv'[j] = inv[j]
  BY <1>1, <1>2, <1>3, GoAsEffect DEF Places
<1>7. TypeOK'
  BY <1>2, <1>4, <1>6 DEF TypeOK, Invocation, Contexts
<1>8. LocalStep(p)
  BY <1>2, <1>3, <1>5, <1>6, Elsewhere, NoneAssumption DEF LocalStep, Context
<1>9. RequestInv(p)'
  BY <1>1, <1>2, <1>3, <1>4, <1>6 DEF RequestInv, Context, Bypassed
<1> QED
  BY <1>7, <1>8, <1>9

LEMMA WorkStep ==
    ASSUME TypeOK, IInv, NEW p \in Requests, Work(p)
    PROVE  TypeOK' /\ LocalStep(p) /\ RequestInv(p)'
<1>1. inv[p].at = "work" /\ UNCHANGED <<bound, inv, answer>>
  BY DEF Work, At
<1>2. /\ p \in Invocations /\ RequestInv(p) /\ Context(p) \in Threads
      /\ bound[Context(p)] = inv[p].cid /\ inv[p].cid \in IdsOf(p) /\ inv[p].cid \in Ids
  BY <1>1, RequestFacts, IdTypes DEF RequestInv, Http
<1>3. LogAs(p, inv[p].cid)
  BY <1>2 DEF Work, LogBound
<1>4. /\ lines' \subseteq Invocations \X Ids \cup Invocations \X {None}
      /\ \A j \in Invocations, id \in Ids \cup {None} :
            <<j, id>> \in lines' => <<j, id>> \in lines \/ (j = p /\ id = inv[p].cid)
  BY <1>2, <1>3, LogType
<1>5. TypeOK'
  BY <1>1, <1>4 DEF TypeOK
<1>6. LocalStep(p)
  BY <1>1, <1>2, <1>4, Elsewhere, NoneAssumption DEF LocalStep, Context
<1>7. RequestInv(p)'
  BY <1>1, <1>2, <1>4 DEF RequestInv, Context, Bypassed
<1> QED
  BY <1>5, <1>6, <1>7
-----------------------------------------------------------------------------
(* Nobody else is ever in the context of a start.                          *)
LEMMA OwnContext ==
    ASSUME IInv, NEW s \in Starts, NEW j \in Invocations \ {s}
    PROVE  Context(j) # s
<1>1. j \in Starts => Context(j) \in {j, None}
  BY DEF IInv, StartInv
<1>2. j \notin Starts => Context(j) \in Threads \cup {None}
  BY DEF IInv, Invocations, Http, RequestInv, ActivityInv
<1> QED
  BY <1>1, <1>2, KindsAssumption, NoneAssumption

LEMMA ReceivedStep ==
    ASSUME TypeOK, IInv, NEW s \in Starts, StartReceived(s)
    PROVE  TypeOK' /\ LocalStep(s) /\ StartInv(s)'
<1>1. PICK header \in BOOLEAN :
         LET cid == IF header THEN Inbound(s) ELSE Generated(s, "first")
         IN /\ bound' = [bound EXCEPT ![s] = cid]
            /\ inv' = [inv EXCEPT ![s] =
                 [Waiting EXCEPT !.at = "start", !.in = s, !.header = header, !.cid = cid]]
  BY DEF StartReceived
<1> DEFINE cid == IF header THEN Inbound(s) ELSE Generated(s, "first")
           new == [Waiting EXCEPT !.at = "start", !.in = s, !.header = header, !.cid = cid]
<1>2. cid \in Ids /\ s \in Invocations /\ s \in Contexts
  <2>1. cid \in IdsOf(s)
    BY DEF IdsOf
  <2> QED
    BY <2>1, IdTypes DEF Http, Invocations, Contexts
<1>3. bound' = [bound EXCEPT ![s] = cid] /\ inv' = [inv EXCEPT ![s] = new]
  BY <1>1
<1> HIDE DEF cid
<1>4. new \in Invocation /\ new.at = "start" /\ new.in = s
  BY <1>2, WaitingType DEF Waiting, Invocation, Places, Contexts
<1> HIDE DEF new
<1>5. /\ inv' \in [Invocations -> Invocation] /\ inv'[s] = new
      /\ \A j \in Invocations \ {s} : inv'[j] = inv[j]
  BY <1>2, <1>3, <1>4 DEF TypeOK, Invocation, Contexts
<1>6. /\ bound' \in [Contexts -> Ids \cup {None}]
      /\ \A c \in Contexts : c # s => bound'[c] = bound[c]
  BY <1>2, <1>3 DEF TypeOK, Contexts
<1>7. UNCHANGED <<lines, answer>>
  BY DEF StartReceived
<1>8. TypeOK'
  BY <1>5, <1>6, <1>7 DEF TypeOK, Invocation, Contexts
<1>9. \A j \in Invocations \ {s} : Context(j) # None => bound'[Context(j)] = bound[Context(j)]
  <2>1. \A j \in Invocations : Context(j) \in Contexts \cup {None}
    BY DEF TypeOK, Context, Contexts
  <2> QED
    BY <2>1, <1>6, OwnContext
<1>10. LocalStep(s)
  BY <1>4, <1>5, <1>7, <1>9, KindsAssumption DEF LocalStep
<1>11. StartInv(s)'
  BY <1>4, <1>5 DEF StartInv, Context
<1> QED
  BY <1>8, <1>10, <1>11

(* Whether the instance was started or not, the start answers and is over. *)
LEMMA StartedStep ==
    ASSUME TypeOK, IInv, NEW s \in Starts, Started(s) \/ StartFails(s)
    PROVE  TypeOK' /\ LocalStep(s) /\ StartInv(s)'
<1>1. inv[s].at = "start" /\ s \in Invocations /\ s \in Http
  BY DEF Started, StartFails, At, Invocations, Http
<1>2. Context(s) = s /\ s \in Contexts
  BY <1>1 DEF IInv, StartInv, Contexts
<1>3. \A j \in Invocations : Context(j) \in Contexts \cup {None}
  BY DEF TypeOK, Context, Contexts
<1>4. PICK cid \in Ids \cup {None} :
         /\ LogAs(s, cid) /\ Reply(s, cid)
         /\ Bind(s, cid) \/ UNCHANGED bound
  <2>1. inv[s].cid \in Ids \cup {None}
    BY <1>1 DEF TypeOK
  <2> QED
    BY <2>1, IdTypes DEF Started, StartFails, Refuse
<1>5. /\ bound' \in [Contexts -> Ids \cup {None}]
      /\ \A c \in Contexts : c # s => bound'[c] = bound[c]
  BY <1>2, <1>4 DEF Bind, TypeOK, Contexts
<1>6. /\ inv' \in [Invocations -> Invocation]
      /\ inv'[s].at = "done" /\ inv'[s].in = None
      /\ \A j \in Invocations \ {s} : inv'[j] = inv[j]
      /\ answer' \in [Http -> Ids \cup {None}]
      /\ \A q \in Http \ {s} : answer'[q] = answer[q]
  BY <1>1, <1>4, ReplyEffect
<1>7. /\ lines' \subseteq Invocations \X Ids \cup Invocations \X {None}
      /\ \A j \in Invocations \ {s}, id \in Ids \cup {None} :
            <<j, id>> \in lines' => <<j, id>> \in lines
  BY <1>1, <1>4, LogType
<1>8. TypeOK'
  BY <1>5, <1>6, <1>7 DEF TypeOK, Invocation, Contexts
<1>9. \A j \in Invocations \ {s} : Context(j) # None => bound'[Context(j)] = bound[Context(j)]
  BY <1>3, <1>5, OwnContext
<1>10. LocalStep(s)
  BY <1>6, <1>7, <1>9, NoneAssumption DEF LocalStep
<1>11. StartInv(s)'
  BY <1>6 DEF StartInv, Context
<1> QED
  BY <1>8, <1>10, <1>11
-----------------------------------------------------------------------------
LEMMA ExecuteStep ==
    ASSUME TypeOK, IInv, NEW a \in Activities, NEW t \in Threads, Execute(a, t)
    PROVE  TypeOK' /\ LocalStep(a) /\ ActivityInv(a)'
<1> DEFINE new == [Waiting EXCEPT !.at = "work", !.in = t]
<1>1. new \in Invocation /\ new.at = "work" /\ new.in = t
  BY WaitingType DEF Waiting, Invocation, Places, Contexts
<1>2. /\ inv' = [inv EXCEPT ![a] = new] /\ Free(t)
      /\ bound' = [bound EXCEPT ![t] = RunOf[a]] /\ UNCHANGED <<lines, answer>>
  BY IdTypes DEF Execute
<1> HIDE DEF new
<1>3. a \in Invocations /\ t \in Contexts /\ RunOf[a] \in Ids /\ ActivityInv(a)
  BY IdTypes DEF Invocations, Contexts, IInv
<1>4. /\ inv' \in [Invocations -> Invocation] /\ inv'[a] = new
      /\ \A j \in Invocations \ {a} : inv'[j] = inv[j]
  BY <1>1, <1>2, <1>3 DEF TypeOK, Invocation, Contexts
<1>5. /\ bound' \in [Contexts -> Ids \cup {None}] /\ bound'[t] = RunOf[a]
      /\ \A c \in Contexts : c # t => bound'[c] = bound[c]
  BY <1>2, <1>3 DEF TypeOK, Contexts
<1>6. TypeOK'
  BY <1>2, <1>4, <1>5 DEF TypeOK, Invocation, Contexts
<1>7. \A j \in Invocations : Context(j) \in Contexts \cup {None} /\ Context(j) # t
  BY <1>2 DEF TypeOK, Context, Contexts, Free
<1>8. LocalStep(a)
  BY <1>1, <1>2, <1>4, <1>5, <1>7 DEF LocalStep
<1>9. ActivityInv(a)'
  BY <1>1, <1>2, <1>3, <1>4, <1>5 DEF ActivityInv, Context
<1> QED
  BY <1>6, <1>8, <1>9

LEMMA ActivityLogsStep ==
    ASSUME TypeOK, IInv, NEW a \in Activities, ActivityLogs(a)
    PROVE  TypeOK' /\ LocalStep(a) /\ ActivityInv(a)'
<1>1. inv[a].at = "work" /\ UNCHANGED <<bound, inv, answer>>
  BY DEF ActivityLogs, At
<1>2. /\ a \in Invocations /\ ActivityInv(a) /\ RunOf[a] \in Ids
      /\ Context(a) \in Threads /\ bound[Context(a)] = RunOf[a]
  BY <1>1, IdTypes DEF Invocations, IInv, ActivityInv
<1>3. LogAs(a, RunOf[a])
  BY <1>2 DEF ActivityLogs, LogBound
<1>4. /\ lines' \subseteq Invocations \X Ids \cup Invocations \X {None}
      /\ \A j \in Invocations, id \in Ids \cup {None} :
            <<j, id>> \in lines' => <<j, id>> \in lines \/ (j = a /\ id = RunOf[a])
  BY <1>2, <1>3, LogType
<1>5. TypeOK'
  BY <1>1, <1>4 DEF TypeOK
<1>6. LocalStep(a)
  BY <1>1, <1>2, <1>4, Elsewhere, NoneAssumption DEF LocalStep, Context
<1>7. ActivityInv(a)'
  BY <1>1, <1>2, <1>4 DEF ActivityInv, Context
<1> QED
  BY <1>5, <1>6, <1>7

LEMMA ReturnStep ==
    ASSUME TypeOK, IInv, NEW a \in Activities, Return(a)
    PROVE  TypeOK' /\ LocalStep(a) /\ ActivityInv(a)'
<1>1. UNCHANGED <<bound, lines, answer>> /\ ActivityInv(a)
  BY DEF Return, IInv
<1>2. /\ inv' \in [Invocations -> Invocation]
      /\ inv'[a].at = "done" /\ inv'[a].in = None
      /\ \A j \in Invocations \ {a} : inv'[j] = inv[j]
  BY ReturnEffect
<1>3. TypeOK'
  BY <1>1, <1>2 DEF TypeOK, Invocation, Contexts
<1>4. LocalStep(a)
  BY <1>1, <1>2, NoneAssumption DEF LocalStep
<1>5. ActivityInv(a)'
  BY <1>1, <1>2 DEF ActivityInv, Context
<1> QED
  BY <1>3, <1>4, <1>5
-----------------------------------------------------------------------------
LEMMA InitInv == Init => TypeOK /\ IInv
<1> SUFFICES ASSUME Init PROVE TypeOK /\ IInv
  OBVIOUS
<1>1. /\ bound = [c \in Contexts |-> None] /\ lines = {}
      /\ inv = [i \in Invocations |-> Waiting] /\ answer = [p \in Http |-> None]
  BY DEF Init, Contexts
<1>2. TypeOK
  BY <1>1, WaitingType DEF TypeOK, Invocation, Contexts
<1>3. /\ \A i \in Invocations : inv[i] = Waiting
      /\ Waiting.at = "idle" /\ Waiting.in = None
  BY <1>1 DEF Waiting
<1>4. \A p \in Requests : RequestInv(p)
  BY <1>1, <1>3 DEF RequestInv, Context, Invocations, Http
<1>5. \A s \in Starts : StartInv(s)
  BY <1>3 DEF StartInv, Context, Invocations, Http
<1>6. \A a \in Activities : ActivityInv(a)
  BY <1>1, <1>3 DEF ActivityInv, Context, Invocations
<1>7. Exclusive
  BY <1>3, NoneAssumption DEF Exclusive, Context
<1> QED
  BY <1>2, <1>4, <1>5, <1>6, <1>7 DEF IInv

LEMMA StepInv == TypeOK /\ IInv /\ [Next]_vars => TypeOK' /\ IInv'
<1> SUFFICES ASSUME TypeOK, IInv, [Next]_vars PROVE TypeOK' /\ IInv'
  OBVIOUS
<1>1. ASSUME NEW p \in Requests,
             \/ \E t \in Threads : Dispatch(p, t)
             \/ Wrapper(p) \/ Accept(p) \/ Deny(p) \/ Handler(p) \/ Work(p) \/ Respond(p)
      PROVE  TypeOK' /\ IInv'
  <2>1. Deny(p) \/ Respond(p) => TypeOK' /\ LocalStep(p) /\ RequestInv(p)'
    BY <1>1, AnswerStep DEF Deny, Respond, Refuse, At
  <2>2. TypeOK' /\ LocalStep(p) /\ RequestInv(p)'
    BY <1>1, <2>1, DispatchStep, WrapperStep, AcceptStep, HandlerStep, WorkStep
  <2>3. p \in Invocations /\ p \notin Starts /\ p \notin Activities
    BY <1>1, KindsAssumption DEF Invocations, Http
  <2> QED
    BY <2>2, <2>3, Others DEF IInv
<1>2. ASSUME NEW s \in Starts, StartReceived(s) \/ Started(s) \/ StartFails(s)
      PROVE  TypeOK' /\ IInv'
  <2>1. TypeOK' /\ LocalStep(s) /\ StartInv(s)'
    BY <1>2, ReceivedStep, StartedStep
  <2>2. s \in Invocations /\ s \notin Requests /\ s \notin Activities
    BY <1>2, KindsAssumption DEF Invocations, Http
  <2> QED
    BY <2>1, <2>2, Others DEF IInv
<1>3. ASSUME NEW a \in Activities,
             (\E t \in Threads : Execute(a, t)) \/ ActivityLogs(a) \/ Return(a)
      PROVE  TypeOK' /\ IInv'
  <2>1. TypeOK' /\ LocalStep(a) /\ ActivityInv(a)'
    BY <1>3, ExecuteStep, ActivityLogsStep, ReturnStep
  <2>2. a \in Invocations /\ a \notin Requests /\ a \notin Starts
    BY <1>3, KindsAssumption DEF Invocations
  <2> QED
    BY <2>1, <2>2, Others DEF IInv
<1>4. CASE UNCHANGED vars
  <2>1. TypeOK'
    BY <1>4 DEF vars, TypeOK
  <2>2. \A p \in Requests : RequestInv(p)'
    BY <1>4 DEF vars, IInv, RequestInv, Context, Bypassed
  <2>3. \A s \in Starts : StartInv(s)'
    BY <1>4 DEF vars, IInv, StartInv, Context
  <2>4. \A a \in Activities : ActivityInv(a)'
    BY <1>4 DEF vars, IInv, ActivityInv, Context
  <2>5. Exclusive'
    BY <1>4 DEF vars, IInv, Exclusive, Context
  <2> QED
    BY <2>1, <2>2, <2>3, <2>4, <2>5 DEF IInv
<1> QED
  BY <1>1, <1>2, <1>3, <1>4 DEF Next, Terminated

LEMMA Invariant == Spec => [](TypeOK /\ IInv)
BY InitInv, StepInv, PTL DEF Spec

(* Every state has the types TypeOK gives it.                              *)
THEOREM TypeCorrect == Spec => []TypeOK
BY Invariant, PTL

(* Whatever ran on its thread before, an activity's lines carry its run's  *)
(* id (activities.py:21-25, orchestrators.py:26-70).                       *)
THEOREM RunLinesFollowTheRun == Spec => []RunLinesCarryRun
<1>1. IInv => RunLinesCarryRun
  BY DEF IInv, ActivityInv, RunLinesCarryRun
<1> QED
  BY <1>1, Invariant, PTL

(* No line of a request carries another's id (errors.py:17-22,             *)
(* logging_setup.py:18-22).                                                *)
THEOREM NoIdIsBorrowed == Spec => []NoBorrowedId
<1>1. IInv => NoBorrowedId
  BY DEF IInv, RequestInv, NoBorrowedId
<1> QED
  BY <1>1, Invariant, PTL

(* But for the local bypass, a request logs under the id of its answer     *)
(* only, although its wrapper and its handler generate one each            *)
(* (rbac.py:61, jwt_validator.py:76).                                      *)
THEOREM RequestsKeepOneId == Spec => []OneIdPerRequest
<1>1. IInv => OneIdPerRequest
  BY DEF IInv, RequestInv, OneIdPerRequest
<1> QED
  BY <1>1, Invariant, PTL
=============================================================================
