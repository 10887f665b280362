----------------------------- MODULE RpcFailover -----------------------------
(***************************************************************************)
(* The JavaScript client's two transports over several endpoints:          *)
(* FailoverRpcClient (packages/soroban-sas-js/src/failover.ts) tries them  *)
(* in order behind circuit breakers and probes them in turn, and           *)
(* ResilientTransport (resilient.ts) ranks them by weight and health,      *)
(* retries reads and sends writes once.                                    *)
(*                                                                         *)
(* JavaScript runs one callback at a time, so what lies between two awaits *)
(* is one step; requests and probes that await an answer interleave, and   *)
(* answers come in any order.  The endpoints are external.                 *)
(***************************************************************************)
EXTENDS Integers, Sequences, FiniteSets, Ordered

CONSTANTS
    Endpoints,  \* number of endpoints, in priority order
    Requests,   \* requests in flight; the health check is one of them
    Weights,    \* weight of each endpoint
    threshold,  \* circuitBreakerThreshold, failureThreshold
    cooldown,   \* circuitCooldownMs, cooldownMs
    maxAttempts,
    MaxMs,      \* bound: last instant
    MaxAnswers  \* bound: answers received

ASSUME FailoverAssumption ==
    /\ Endpoints \in Nat \ {0} /\ Weights \in [1..Endpoints -> Nat \ {0}]
    /\ threshold \in Nat \ {0} /\ cooldown \in Nat \ {0} /\ maxAttempts \in Nat \ {0}
    /\ MaxMs \in Nat /\ MaxAnswers \in Nat

E == 1..Endpoints

EndpointKinds == {"rpc", "indexer"}

VARIABLES
    transport,     \* which of the two classes this behaviour runs
    kinds,         \* kind of each endpoint (ResilientTransport)
    ms,            \* now()
    failures,      \* consecutive failures
    openUntil,     \* end of an open circuit; 0: closed
    score,         \* health score in percent (ResilientTransport)
    state,         \* endpoint state (ResilientTransport)
    connection,    \* connection state (ResilientTransport)
    healthCursor,  \* where the next round of probes starts
    request,       \* the requests
    answers,       \* history: what each endpoint answered, in order
    begun          \* history: per request, the endpoints usable at its start

failoverVars == <<transport, kinds, ms, failures, openUntil, score, state, connection, healthCursor,
                  request, answers, begun>>
setup == <<transport, kinds>>

(* A request: what it does, for which kind of endpoint, whom it asks now,  *)
(* whom it may ask yet, whom it has asked, how it ended.                   *)
NewRequest ==
    [op |-> "none", kind |-> "rpc", asking |-> 0, left |-> <<>>, tried |-> <<>>, result |-> "none"]

Closed(e) == openUntil[e] = 0 \/ ms >= openUntil[e]

(* candidateOrder *)
CandidateOrder == InOrder({e \in E : Closed(e)})

(* The probes of runHealthChecks: every endpoint, from the cursor on. *)
RoundRobin == [i \in E |-> ((healthCursor - 1 + i - 1) % Endpoints) + 1]

------------------------------------------------------------------------------
(* Outcomes: markSuccess and markFailure, record and updateConnection.     *)

(* Mutant: an answer closes the circuit but keeps the count of failures. *)
MarkSuccess_Count(e) ==
    /\ openUntil' = [openUntil EXCEPT ![e] = 0]
    /\ UNCHANGED failures

MarkSuccess(e) ==
    /\ failures' = [failures EXCEPT ![e] = 0]
    /\ openUntil' = [openUntil EXCEPT ![e] = 0]

MarkFailure(e) ==
    /\ failures' = [failures EXCEPT ![e] = @ + 1]
    /\ openUntil' = IF failures[e] + 1 >= threshold
                      THEN [openUntil EXCEPT ![e] = ms + cooldown] ELSE openUntil

(* The score is smoothed with healthAlpha, here one half; 70 is healthy. *)
Smoothed(e, ok) == IF ok THEN score[e] + (100 - score[e]) \div 2 ELSE score[e] - score[e] \div 2

StateOf(e) ==
    IF failures'[e] >= threshold THEN "down" ELSE IF score'[e] >= 70 THEN "healthy" ELSE "degraded"

ConnectionOf(states) ==
    IF \E e \in E : states[e] = "healthy" THEN "connected"
    ELSE IF \E e \in E : states[e] = "degraded" THEN "degraded" ELSE "disconnected"

Record(e, ok) ==
    /\ answers' = [answers EXCEPT ![e] = Append(@, ok)]
    /\ IF ok THEN MarkSuccess(e) ELSE MarkFailure(e)
    /\ IF transport = "resilient"
         THEN /\ score' = [score EXCEPT ![e] = Smoothed(e, ok)]
              /\ state' = [state EXCEPT ![e] = StateOf(e)]
              /\ connection' = IF StateOf(e) # state[e] THEN ConnectionOf(state') ELSE connection
         ELSE UNCHANGED <<score, state, connection>>

Untouched == UNCHANGED <<failures, openUntil, score, state, connection, answers>>

------------------------------------------------------------------------------
(* FailoverRpcClient.request and checkHealth.                              *)

Start(r, op, order) ==
    /\ request[r].op = "none"
    /\ request' = [request EXCEPT ![r] =
                     IF order = <<>> THEN [NewRequest EXCEPT !.op = op, !.result = "failFast"]
                     ELSE [NewRequest EXCEPT !.op = op, !.asking = Head(order), !.left = Tail(order)]]
    /\ begun' = [begun EXCEPT ![r] = {e \in E : Closed(e)}]
    /\ Untouched
    /\ UNCHANGED <<setup, ms>>

StartRequest(r) ==
    /\ transport = "failover"
    /\ Start(r, "request", CandidateOrder)
    /\ UNCHANGED healthCursor

(* Single-flight: one round of probes at a time. *)
StartHealthCheck(r) ==
    /\ transport = "failover"
    /\ \A q \in Requests : ~(request[q].op = "probe" /\ request[q].result = "none")
    /\ Start(r, "probe", RoundRobin)
    /\ healthCursor' = (healthCursor % Endpoints) + 1

(* An endpoint answers, with a result or a JSON-RPC error, or the request  *)
(* to it fails or times out.  The order was fixed at the start: circuits   *)
(* that other requests open meanwhile do not shorten it.                   *)
Answered(r, ok) ==
    LET q == request[r]
        last == q.left = <<>>
        on == [q EXCEPT !.tried = Append(q.tried, q.asking),
                        !.asking = IF last THEN 0 ELSE Head(q.left),
                        !.left = IF last THEN <<>> ELSE Tail(q.left)]
        over == [q EXCEPT !.tried = Append(q.tried, q.asking), !.asking = 0, !.left = <<>>]
    IN  /\ q.asking # 0 /\ q.op \in {"request", "probe"}
        /\ Len(answers[q.asking]) < MaxAnswers
        /\ Record(q.asking, ok)
        /\ request' = [request EXCEPT ![r] =
                         IF q.op = "request" /\ ok THEN [over EXCEPT !.result = "answered"]
                         ELSE IF last THEN [on EXCEPT !.result = IF q.op = "probe" THEN "probed" ELSE "allFailed"]
                         ELSE on]
        /\ healthCursor' = IF q.op = "probe" /\ ~last THEN (Head(q.left) % Endpoints) + 1 ELSE healthCursor
        /\ UNCHANGED <<setup, ms, begun>>

------------------------------------------------------------------------------
(* ResilientTransport.read and write.                                      *)

(* pick: by weight and score among the usable endpoints of the kind, all   *)
(* of them if none is; later attempts go down the ranking of that moment,  *)
(* in which the endpoint that failed last has lost score.  Array.sort is   *)
(* stable.                                                                 *)
Pool(kind) == {e \in E : kinds[e] = kind}

Usable(kind) ==
    LET closed == {e \in Pool(kind) : Closed(e)}
    IN  IF closed # {} THEN closed ELSE Pool(kind)

Rank(kind, e) ==
    LET v(x) == Weights[x] * score[x]
    IN  Cardinality({x \in Usable(kind) : v(x) > v(e) \/ (v(x) = v(e) /\ x < e)})

Pick(kind, attempt) ==
    CHOOSE e \in Usable(kind) : Rank(kind, e) = attempt % Cardinality(Usable(kind))

(* A read or write for a kind nobody has configured is refused. *)
StartResilient(r, op, kind) ==
    LET q == [NewRequest EXCEPT !.op = op, !.kind = kind]
    IN  /\ transport = "resilient" /\ request[r].op = "none"
        /\ request' = [request EXCEPT ![r] =
                         IF Pool(kind) = {} THEN [q EXCEPT !.result = "noEndpoint"]
                         ELSE [q EXCEPT !.asking = Pick(kind, 0)]]
        /\ Untouched
        /\ UNCHANGED <<setup, ms, healthCursor, begun>>

(* A read that an endpoint is at fault for is tried again; an error that   *)
(* is not the endpoint's fault is not recorded and not retried.            *)
ResilientAnswered(r, outcome) ==
    LET q == request[r]
        done == [q EXCEPT !.tried = Append(q.tried, q.asking), !.asking = 0]
        again == q.op = "read" /\ outcome = "fault" /\ Len(q.tried) + 1 < maxAttempts
    IN  /\ q.asking # 0 /\ q.op \in {"read", "write"}
        /\ Len(answers[q.asking]) < MaxAnswers
        /\ IF outcome = "error" THEN Untouched ELSE Record(q.asking, outcome = "ok")
        /\ request' = [request EXCEPT ![r] =
                         [done EXCEPT !.result = IF again THEN "none"
                                                 ELSE IF outcome = "fault" THEN "allFailed" ELSE "answered"]]
        /\ UNCHANGED <<setup, ms, healthCursor, begun>>

(* After the backoff. *)
ReadAgain(r) ==
    LET q == request[r]
    IN  /\ q.op = "read" /\ q.result = "none" /\ q.asking = 0
        /\ request' = [request EXCEPT ![r].asking = Pick(q.kind, Len(q.tried))]
        /\ Untouched
        /\ UNCHANGED <<setup, ms, healthCursor, begun>>

Clock ==
    /\ ms < MaxMs
    /\ ms' = ms + 1
    /\ Untouched
    /\ UNCHANGED <<setup, healthCursor, request, begun>>

FailoverInit ==
    /\ transport \in {"failover", "resilient"}
    /\ kinds \in [E -> EndpointKinds] /\ (transport = "failover" => kinds = [e \in E |-> "rpc"])
    /\ ms = 1
    /\ failures = [e \in E |-> 0] /\ openUntil = [e \in E |-> 0]
    /\ score = [e \in E |-> 100] /\ state = [e \in E |-> "healthy"] /\ connection = "connected"
    /\ healthCursor = 1
    /\ request = [r \in Requests |-> NewRequest]
    /\ answers = [e \in E |-> <<>>]
    /\ begun = [r \in Requests |-> {}]

FailoverNext ==
    \/ \E r \in Requests : StartRequest(r)
    \/ \E r \in Requests : StartHealthCheck(r)
    \/ \E r \in Requests, ok \in BOOLEAN : Answered(r, ok)
    \/ \E r \in Requests, op \in {"read", "write"}, kind \in EndpointKinds : StartResilient(r, op, kind)
    \/ \E r \in Requests, o \in {"ok", "fault", "error"} : ResilientAnswered(r, o)
    \/ \E r \in Requests : ReadAgain(r)
    \/ Clock

FailoverSpec == FailoverInit /\ [][FailoverNext]_failoverVars

------------------------------------------------------------------------------
(* Properties.                                                             *)

(* The length of the run of failures at the end of what `e` answered. *)
FailureRun(e) ==
    LET s == answers[e]
    IN  Len(s) - CHOOSE k \in 0..Len(s) :
                   (k = 0 \/ s[k]) /\ \A i \in (k + 1)..Len(s) : ~s[i]

(* Whatever the order in which answers to concurrent requests, retries and *)
(* probes arrive: a circuit is open exactly after `threshold` failures in  *)
(* a row, in the order of arrival (an answer to an old request counts like *)
(* one to a new request), and the connection state is the one the          *)
(* endpoints' states add up to.  FailoverRpcClient reports "all failed"    *)
(* only after every endpoint usable at the start was asked, each once, and *)
(* fails fast only when there was none.  ResilientTransport gives a read   *)
(* up only after all its attempts, which need not reach every usable       *)
(* endpoint; it asks none of another kind; it sends a write once.          *)
CircuitsTruthful ==
    /\ \A e \in E : /\ openUntil[e] # 0 <=> FailureRun(e) >= threshold
                    /\ failures[e] = FailureRun(e)
    /\ connection = ConnectionOf(state)
    /\ \A r \in Requests :
         LET q == request[r]
             asked == {q.tried[i] : i \in DOMAIN q.tried}
         IN  /\ q.op = "request" => /\ Cardinality(asked) = Len(q.tried)
                                    /\ asked \subseteq begun[r]
                                    /\ q.result = "allFailed" => asked = begun[r]
             /\ q.result = "failFast" => begun[r] = {} /\ asked = {}
             /\ q.op = "read" /\ q.result = "allFailed" => Len(q.tried) = maxAttempts
             /\ q.op = "write" => Len(q.tried) <= 1
             /\ q.op \in {"read", "write"} => \A e \in asked : kinds[e] = q.kind
==============================================================================
