------------------------------ MODULE RpcClient ------------------------------
(***************************************************************************)
(* The SDK's JSON-RPC client (packages/soroban-sas-sdk/src/rpc.rs): several *)
(* callers use clones of one RpcClient, which share the request-id counter *)
(* and the HTTP agent.  Behind the endpoint stand nodes, some of which lag *)
(* behind the network; an answer may be lost, come late or reach another   *)
(* request, and each answer is matched by its id.                          *)
(*                                                                         *)
(* Time is counted in ledgers: ledger n closes at time n.  Abstracted: the *)
(* parameters and results of the methods other than the two that make up   *)
(* the ledger clock; a node may always refuse or fail a request.           *)
(***************************************************************************)
EXTENDS Naturals

CONSTANTS
    RpcCallers,
    SingleMethods,   \* the methods that are one request
    rate_retries,    \* RateLimitPolicy::max_retries
    max_skew,        \* the skew a caller of the ledger clock tolerates
    Lags,            \* how far the nodes are behind
    Offsets,         \* how far the local clock is ahead of the network's
    MaxRequests,     \* bound: requests built
    MaxTip           \* bound: the network's latest ledger

ASSUME RpcAssumption ==
    /\ rate_retries \in Nat /\ max_skew \in Nat /\ MaxRequests \in Nat /\ MaxTip \in Nat
    /\ Lags \subseteq Nat /\ Offsets \subseteq Nat
    /\ SingleMethods \subseteq {"sendTransaction", "getTransaction", "simulateTransaction",
                          "getLedgerEntries", "getLatestLedger"}

VARIABLES
    next_id,   \* the counter the clones share
    rpc,       \* what each caller is doing
    wire,      \* answers on their way
    tip,       \* the network's latest ledger
    offset,    \* the local clock less the network's
    built,     \* history: requests each caller has built
    handled,   \* history: how often nodes acted on a caller's last request
    returned   \* history: what a caller's last call returned

rpcVars == <<next_id, rpc, wire, tip, offset, built, handled, returned>>

Request(method, clock, local, sequence, id) ==
    [state |-> "post", method |-> method, clock |-> clock, local |-> local,
     sequence |-> sequence, id |-> id, attempt |-> 0]

NoCall == [Request("none", FALSE, 0, 0, 0) EXCEPT !.state = "idle"]

(* Which request of which caller, whatever its id. *)
Tag(c) == [caller |-> c, number |-> built[c]]

(* What a call returns: a failure, the answer to a request, or with it a   *)
(* time.                                                                   *)
RpcResult(kind, answered, close_time, local) ==
    [kind |-> kind, answered |-> answered, close_time |-> close_time, local |-> local]

NoTag == [caller |-> "none", number |-> 0]
RpcFailure(why) == RpcResult(why, NoTag, 0, 0)
NoOutcome == RpcFailure("none")

------------------------------------------------------------------------------
(* build_*_request.                                                        *)

(* Mutant: each clone counts its own requests. *)
RequestId_Own(c) == built[c] + 1

RequestId(c) == next_id

BuildRequest(c, method, clock, local, sequence) ==
    /\ next_id <= MaxRequests
    /\ next_id' = next_id + 1
    /\ built' = [built EXCEPT ![c] = @ + 1]
    /\ rpc' = [rpc EXCEPT ![c] = Request(method, clock, local, sequence, RequestId(c))]
    /\ handled' = [handled EXCEPT ![c] = 0]

(* send_transaction, get_transaction and the others of one request. *)
Call(c, m) ==
    /\ rpc[c] = NoCall
    /\ BuildRequest(c, m, FALSE, 0, 0)
    /\ returned' = [returned EXCEPT ![c] = NoOutcome]
    /\ UNCHANGED <<wire, tip, offset>>

(* get_latest_ledger_clock; the local time it is compared with was read    *)
(* before.                                                                 *)
GetLatestLedgerClock(c) ==
    /\ rpc[c] = NoCall
    /\ BuildRequest(c, "getLatestLedger", TRUE, tip + offset, 0)
    /\ returned' = [returned EXCEPT ![c] = NoOutcome]
    /\ UNCHANGED <<wire, tip, offset>>

(* The call ends. *)
RpcReturn(c, result) ==
    /\ rpc' = [rpc EXCEPT ![c] = NoCall]
    /\ returned' = [returned EXCEPT ![c] = result]

Fails(c, why) == RpcReturn(c, RpcFailure(why))

------------------------------------------------------------------------------
(* The nodes.                                                              *)

Posted(c) == rpc[c].state = "post"

(* What the node with that view has to say: a sequence or a close time.    *)
(* getLedgers of a ledger the node has not seen lists none, and the client *)
(* then takes the close time of the node's latest.                         *)
NodeValue(r, view) ==
    IF r.method = "getLedgers" /\ r.sequence <= view THEN r.sequence ELSE view

(* A node acts on the request; its answer may be a JSON-RPC error, or one  *)
(* the client refuses: longer than max_response_bytes, malformed, of       *)
(* another version, with an unsupported transaction envelope.              *)
NodeAnswers(c, lag, body) ==
    /\ Posted(c) /\ lag <= tip
    /\ handled' = [handled EXCEPT ![c] = @ + 1]
    /\ wire' = wire \cup {[id |-> rpc[c].id, tag |-> Tag(c), body |-> body,
                           value |-> IF rpc[c].clock THEN NodeValue(rpc[c], tip - lag) ELSE 0]}
    /\ rpc' = [rpc EXCEPT ![c].state = "wait"]
    /\ UNCHANGED <<next_id, tip, offset, built, returned>>

(* 429: the endpoint refuses before a node acts.  The request is posted    *)
(* again, with its id, after the delay the answer or the policy names.     *)
RateLimited(c) ==
    /\ Posted(c)
    /\ IF rpc[c].attempt < rate_retries
         THEN rpc' = [rpc EXCEPT ![c].attempt = @ + 1] /\ UNCHANGED returned
         ELSE Fails(c, "RateLimited")
    /\ UNCHANGED <<next_id, wire, tip, offset, built, handled>>

(* The request is lost, or its answer has not come within the timeout. *)
TransportError(c) ==
    /\ rpc[c].state \in {"post", "wait"}
    /\ Fails(c, "TransportError")
    /\ UNCHANGED <<next_id, wire, tip, offset, built, handled>>

CloseNextLedger ==
    /\ tip < MaxTip
    /\ tip' = tip + 1
    /\ UNCHANGED <<next_id, rpc, wire, offset, built, handled, returned>>

------------------------------------------------------------------------------
(* The answers.                                                            *)

(* read_body_bounded, parse_response and                                   *)
(* validate_supported_transaction_envelope.                                *)
ParseResponse(a, expected_id) ==
    IF a.body = "unsupported" \/ a.id # expected_id THEN "Refused"
    ELSE IF a.body = "error" THEN "RpcError"
    ELSE "Ok"

(* resolve_issuance_time; the caller decides what to do without. *)
ResolveIssuanceTime(close_time, local_time) ==
    IF close_time > local_time + max_skew THEN "LedgerInFuture"
    ELSE IF close_time + max_skew < local_time THEN "LedgerStale"
    ELSE "time"

TakeAnswer(c, a) ==
    LET r == rpc[c]
        verdict == ParseResponse(a, r.id)
    IN  /\ r.state = "wait" /\ a \in wire
        /\ wire' = wire \ {a}
        /\ \/ /\ verdict # "Ok"
              /\ Fails(c, verdict)
              /\ UNCHANGED <<next_id, built, handled>>
           \/ /\ verdict = "Ok" /\ ~r.clock
              /\ RpcReturn(c, RpcResult("Ok", a.tag, 0, 0))
              /\ UNCHANGED <<next_id, built, handled>>
           \/ /\ verdict = "Ok" /\ r.clock /\ r.method = "getLatestLedger"
              /\ BuildRequest(c, "getLedgers", TRUE, r.local, a.value)
              /\ UNCHANGED returned
           \/ /\ verdict = "Ok" /\ r.method = "getLedgers"
              /\ RpcReturn(c, RpcResult(ResolveIssuanceTime(a.value, r.local), a.tag, a.value, r.local))
              /\ UNCHANGED <<next_id, built, handled>>
        /\ UNCHANGED <<tip, offset>>

------------------------------------------------------------------------------
RpcInit ==
    /\ next_id = 1
    /\ rpc = [c \in RpcCallers |-> NoCall]
    /\ wire = {}
    /\ tip = 0
    /\ offset \in Offsets
    /\ built = [c \in RpcCallers |-> 0]
    /\ handled = [c \in RpcCallers |-> 0]
    /\ returned = [c \in RpcCallers |-> NoOutcome]

RpcNext ==
    \/ \E c \in RpcCallers :
         \/ \E m \in SingleMethods : Call(c, m)
         \/ GetLatestLedgerClock(c)
         \/ \E lag \in Lags, body \in {"result", "error", "unsupported"} :
              NodeAnswers(c, lag, body)
         \/ RateLimited(c)
         \/ TransportError(c)
         \/ \E a \in wire : TakeAnswer(c, a)
    \/ CloseNextLedger

RpcSpec == RpcInit /\ [][RpcNext]_rpcVars

------------------------------------------------------------------------------
(* Properties.                                                             *)

(* Whatever answers are lost, late or crossed between the clones: a call   *)
(* only returns the answer to its own request; no request is acted on      *)
(* twice, and none that is reported as rate limited; and an issuance time  *)
(* is the close time of a closed ledger, within the skew of the local time *)
(* the caller had read.                                                    *)
AnswersOwn ==
    \A c \in RpcCallers :
      LET r == returned[c] IN
        /\ handled[c] <= 1
        /\ r.kind \in {"Ok", "time"} => r.answered = Tag(c)
        /\ r.kind = "RateLimited" => handled[c] = 0
        /\ r.kind = "time" =>
             /\ r.close_time \in 0..tip
             /\ r.close_time <= r.local + max_skew /\ r.local <= r.close_time + max_skew
==============================================================================
