------------------------------ MODULE SdkProofs ------------------------------
(***************************************************************************)
(* Safety of the SDK for any number of calls, callers, requests,             *)
(* transactions, schemas and endpoints: the contract client, the JSON-RPC    *)
(* client, the fee-bump submitter, the schema cache, the JavaScript          *)
(* transports and the React hooks.  They share no state, so each part has    *)
(* its own inductive invariant.                                              *)
(***************************************************************************)
EXTENDS SASClient, RpcClient, FeeBumpSubmitter, SchemaCache, RpcFailover, ReactHooks,
        CollectionTheorems

------------------------------------------------------------------------------
(* The contract client.                                                    *)

Places == {"new", "check", "reading", "number", "build", "send", "poll", "done"}

ClientTypeOK ==
    /\ account \in Nat
    /\ mempool \subseteq [by : Calls, seq : Nat]
    /\ ledger \subseteq [by : Calls, seq : Nat, ok : BOOLEAN]
    /\ at \in [Calls -> Places]
    /\ number \in [Calls -> Nat]
    /\ DOMAIN outcome = Calls

(* What is of a call on the network: nothing until it has been sent, and   *)
(* then only under the number it was last signed with.                     *)
Mine(c) ==
    /\ \A t \in mempool : t.by = c => t.seq = number[c] /\ at[c] \in {"poll", "done"}
    /\ \A t \in ledger : t.by = c => t.seq = number[c] /\ at[c] \in {"poll", "done"}

Untold(c) == at[c] # "done" => outcome[c] = Nothing

Told(c) ==
    /\ outcome[c] = "success" => \E t \in ledger : t.by = c /\ t.ok
    /\ outcome[c] = "failed" => \E t \in ledger : t.by = c /\ ~t.ok
    /\ outcome[c] \in {"refused", "contractError", "rejected", "answer", "archived"} =>
         /\ \A t \in mempool : t.by # c
         /\ \A t \in ledger : t.by # c

ClientInv == ClientTypeOK /\ \A c \in Calls : Mine(c) /\ Untold(c) /\ Told(c)

(* A client that has not been called satisfies the invariant. *)
LEMMA ClientInitInv == ClientInit => ClientInv
BY ClientAssumption DEF ClientInit, ClientInv, ClientTypeOK, Places, Mine, Untold, Told

(* A call that moves on and tells nothing, with nothing on the network. *)
LEMMA CallMoves ==
    ASSUME ClientInv, NEW c \in Calls, UNCHANGED <<account, mempool, ledger, outcome>>,
           at[c] \notin {"poll", "done"},
           NEW p \in {"check", "reading", "number", "build", "send"}, at' = [at EXCEPT ![c] = p],
           number' \in [Calls -> Nat], \A d \in Calls : d # c => number'[d] = number[d]
    PROVE  ClientInv'
<1>1. ClientTypeOK'
    BY DEF ClientInv, ClientTypeOK, Places
<1>2. ASSUME NEW d \in Calls PROVE (Mine(d) /\ Untold(d) /\ Told(d))'
    <2>1. Mine(d) /\ Untold(d) /\ Told(d) /\ Mine(c) /\ Untold(c) /\ at \in [Calls -> Places]
        BY DEF ClientInv, ClientTypeOK
    <2>. QED BY <2>1 DEF Mine, Untold, Told
<1>. QED BY <1>1, <1>2 DEF ClientInv

(* A call that ends: what it is told is true. *)
LEMMA CallEnds ==
    ASSUME ClientInv, NEW c \in Calls, UNCHANGED <<account, ledger, number>>,
           NEW o, Return(c, o),
           mempool' \in {mempool, mempool \cup {Tx(c)}}, mempool' # mempool => o \in {"accepted", "unsure"},
           o = "success" => \E t \in ledger : t.by = c /\ t.ok,
           o = "failed" => \E t \in ledger : t.by = c /\ ~t.ok,
           o \in {"refused", "contractError", "rejected", "answer", "archived"} =>
             at[c] \notin {"poll", "done"}
    PROVE  ClientInv'
<1>0. ClientTypeOK /\ at' = [at EXCEPT ![c] = "done"] /\ outcome' = [outcome EXCEPT ![c] = o]
      /\ Tx(c) \in [by : Calls, seq : Nat] /\ Tx(c).by = c /\ Tx(c).seq = number[c]
    BY DEF ClientInv, ClientTypeOK, Return, At, Tx
<1>1. ClientTypeOK'
    BY <1>0 DEF ClientTypeOK, Places
<1>2. ASSUME NEW d \in Calls PROVE (Mine(d) /\ Untold(d) /\ Told(d))'
    <2>1. Mine(d) /\ Untold(d) /\ Told(d) /\ Mine(c) /\ Untold(c) /\ at \in [Calls -> Places]
          /\ DOMAIN outcome = Calls
        BY DEF ClientInv, ClientTypeOK
    <2>2. /\ d # c => at'[d] = at[d] /\ outcome'[d] = outcome[d]
          /\ d = c => at'[d] = "done" /\ outcome'[d] = o
        BY <1>0, <2>1
    <2>3. \A t \in mempool' : t \in mempool \/ t = Tx(c)
        OBVIOUS
    <2>. HIDE DEF Tx
    <2>4. Mine(d)'
        BY <1>0, <2>1, <2>2, <2>3 DEF Mine
    <2>5. Untold(d)'
        BY <2>1, <2>2 DEF Untold
    <2>6. Told(d)'
        <3>1. CASE d = c
            <4>1. o \in {"refused", "contractError", "rejected", "answer", "archived"} =>
                    mempool' = mempool /\ (\A t \in mempool : t.by # c) /\ \A t \in ledger : t.by # c
                BY <2>1 DEF Mine
            <4>. QED BY <2>2, <3>1, <4>1 DEF Told
        <3>2. CASE d # c
            BY <1>0, <2>1, <2>2, <2>3, <3>2 DEF Told
        <3>. QED BY <3>1, <3>2
    <2>. QED BY <2>4, <2>5, <2>6
<1>. QED BY <1>1, <1>2 DEF ClientInv

(* submit_write ends the call, or makes its one more attempt while nothing *)
(* of it is on the network.                                                *)
LEMMA CallGivesUp ==
    ASSUME ClientInv, NEW c \in Calls, UNCHANGED <<account, ledger, number>>,
           NEW o \in {"badSequence", "rejected", "unsure", "failed"}, GiveUp(c, o),
           mempool' \in {mempool, mempool \cup {Tx(c)}}, mempool' # mempool => o = "unsure",
           o = "failed" => \E t \in ledger : t.by = c /\ ~t.ok,
           o \in {"badSequence", "rejected"} => at[c] = "send"
    PROVE  ClientInv'
<1>1. CASE MayRetry(c, o)
    <2>1. /\ o = "badSequence" /\ mempool' = mempool /\ at[c] \notin {"poll", "done"}
          /\ at' = [at EXCEPT ![c] = "number"] /\ outcome' = outcome
        BY <1>1 DEF GiveUp, MayRetry, At
    <2>2. number' \in [Calls -> Nat] /\ \A d \in Calls : d # c => number'[d] = number[d]
        BY DEF ClientInv, ClientTypeOK
    <2>. QED BY <2>1, <2>2, CallMoves
<1>2. CASE ~MayRetry(c, o)
    <2>. DEFINE e == IF o = "badSequence" THEN "rejected" ELSE o
    <2>1. Return(c, e)
        BY <1>2 DEF GiveUp
    <2>2. /\ mempool' # mempool => e \in {"accepted", "unsure"}
          /\ e = "success" => \E t \in ledger : t.by = c /\ t.ok
          /\ e = "failed" => \E t \in ledger : t.by = c /\ ~t.ok
          /\ e \in {"refused", "contractError", "rejected", "answer", "archived"} =>
               at[c] \notin {"poll", "done"}
        OBVIOUS
    <2>. HIDE DEF e
    <2>. QED BY <2>1, <2>2, CallEnds
<1>. QED BY <1>1, <1>2

(* Every step of a call keeps the invariant. *)
LEMMA CallStepInv ==
    ASSUME ClientInv, NEW c \in Calls, CallStep(c) PROVE ClientInv'
<1>0. number \in [Calls -> Nat] /\ ClientTypeOK
    BY DEF ClientInv, ClientTypeOK
<1>1. ASSUME NEW valid \in BOOLEAN, NEW own \in BOOLEAN, Check(c, valid, own) PROVE ClientInv'
    <2>1. at[c] = "check" /\ UNCHANGED <<account, mempool, ledger, number>>
        BY <1>1 DEF Check, networkVars
    <2>2. CASE CheckPasses(c, valid, own)
        <3>. DEFINE p == IF kind[c].path \in {"read", "readEntry"} THEN "reading" ELSE "number"
        <3>1. at' = [at EXCEPT ![c] = p] /\ outcome' = outcome /\ p \in {"check", "reading", "number", "build", "send"}
            BY <1>1, <2>2 DEF Check, At
        <3>. HIDE DEF p
        <3>. QED BY <1>0, <2>1, <3>1, CallMoves
    <2>3. CASE ~CheckPasses(c, valid, own)
        <3>1. Return(c, "refused")
            BY <1>1, <2>3 DEF Check
        <3>. QED BY <2>1, <3>1, CallEnds
    <2>. QED BY <2>2, <2>3
<1>2. ASSUME NEW o \in {"answer", "archived", "contractError", "unsure"}, ReadAnswer(c, o) PROVE ClientInv'
    <2>1. at[c] = "reading" /\ UNCHANGED <<account, mempool, ledger, number>> /\ Return(c, o)
        BY <1>2 DEF ReadAnswer, networkVars
    <2>. QED BY <2>1, CallEnds
<1>3. ASSUME NEW n \in 1..(LastSeq + 1), ObtainNumber(c, n) PROVE ClientInv'
    <2>1. /\ at[c] = "number" /\ UNCHANGED <<account, mempool, ledger, outcome>>
          /\ at' = [at EXCEPT ![c] = "build"] /\ number' = [number EXCEPT ![c] = n]
        BY <1>3 DEF ObtainNumber, At, networkVars
    <2>2. number' \in [Calls -> Nat] /\ \A d \in Calls : d # c => number'[d] = number[d]
        BY <1>0, <2>1, ClientAssumption
    <2>. QED BY <2>1, <2>2, CallMoves
<1>4. CASE Build(c)
    <2>1. at[c] = "build" /\ UNCHANGED <<account, mempool, ledger, number>>
        BY <1>4 DEF Build, networkVars
    <2>2. CASE At(c, "send") /\ UNCHANGED outcome
        BY <1>0, <2>1, <2>2, CallMoves DEF At
    <2>3. ASSUME NEW o \in {"answer", "contractError", "refused", "unsure"}, Return(c, o) PROVE ClientInv'
        BY <2>1, <2>3, CallEnds
    <2>. QED BY <1>4, <2>2, <2>3 DEF Build
<1>5. ASSUME NEW kept \in BOOLEAN, Sent(c, kept) PROVE ClientInv'
    <2>1. /\ at[c] = "send" /\ UNCHANGED <<account, ledger, number>>
          /\ mempool' \in {mempool, mempool \cup {Tx(c)}}
        BY <1>5 DEF Sent
    <2>2. CASE Return(c, "accepted")
        BY <2>1, <2>2, CallEnds
    <2>3. CASE At(c, "poll") /\ UNCHANGED outcome
        <3>1. at' = [at EXCEPT ![c] = "poll"] /\ outcome' = outcome
            BY <2>3 DEF At
        <3>2. Tx(c) \in [by : Calls, seq : Nat] /\ Tx(c).by = c /\ Tx(c).seq = number[c]
            BY <1>0 DEF Tx
        <3>3. \A t \in mempool' : t \in mempool \/ t = Tx(c)
            BY <2>1
        <3>4. ClientTypeOK'
            BY <1>0, <2>1, <3>1, <3>2 DEF ClientTypeOK, Places
        <3>. HIDE DEF Tx
        <3>5. ASSUME NEW d \in Calls PROVE (Mine(d) /\ Untold(d) /\ Told(d))'
            <4>1. Mine(d) /\ Untold(d) /\ Told(d) /\ at \in [Calls -> Places]
                BY DEF ClientInv, ClientTypeOK
            <4>2. (d # c => at'[d] = at[d]) /\ (d = c => at'[d] = "poll" /\ outcome[d] = Nothing)
                BY <2>1, <3>1, <4>1 DEF Untold
            <4>3. Mine(d)'
                BY <2>1, <3>2, <3>3, <4>1, <4>2 DEF Mine
            <4>4. Untold(d)'
                BY <3>1, <4>1, <4>2 DEF Untold
            <4>5. Told(d)'
                BY <2>1, <3>1, <3>2, <3>3, <4>1, <4>2, ClientAssumption DEF Told
            <4>. QED BY <4>3, <4>4, <4>5
        <3>. QED BY <3>4, <3>5 DEF ClientInv
    <2>. QED BY <1>5, <2>2, <2>3 DEF Sent
<1>6. ASSUME NEW o \in {"badSequence", "rejected"}, SendRejected(c, o) PROVE ClientInv'
    <2>1. at[c] = "send" /\ UNCHANGED <<account, mempool, ledger, number>> /\ GiveUp(c, o)
        BY <1>6 DEF SendRejected, networkVars
    <2>. QED BY <2>1, CallGivesUp
<1>7. ASSUME NEW kept \in BOOLEAN, SendUnsure(c, kept) PROVE ClientInv'
    <2>1. /\ UNCHANGED <<account, ledger, number>> /\ GiveUp(c, "unsure")
          /\ mempool' \in {mempool, mempool \cup {Tx(c)}}
        BY <1>7 DEF SendUnsure
    <2>. QED BY <2>1, CallGivesUp
<1>8. ASSUME UNCHANGED <<at, outcome>>, UNCHANGED <<account, mempool, ledger, number>> PROVE ClientInv'
    BY <1>8 DEF ClientInv, ClientTypeOK, Mine, Untold, Told
<1>9. ASSUME NEW t \in BOOLEAN, PollFails(c, t) PROVE ClientInv'
    <2>1. UNCHANGED <<account, mempool, ledger, number>>
        BY <1>9 DEF PollFails, networkVars
    <2>2. CASE KeepPolling(c)
        BY <1>8, <2>1, <2>2 DEF KeepPolling
    <2>3. CASE GiveUp(c, "unsure")
        BY <2>1, <2>3, CallGivesUp
    <2>. QED BY <1>9, <2>2, <2>3 DEF PollFails
<1>10. CASE Poll(c)
    <2>1. UNCHANGED <<account, mempool, ledger, number>>
        BY <1>10 DEF Poll, networkVars
    <2>2. CASE Included(c, TRUE) /\ Return(c, "success")
        <3>1. \E t \in ledger : t.by = c /\ t.ok
            BY <2>2 DEF Included
        <3>. QED BY <2>1, <2>2, <3>1, CallEnds
    <2>3. CASE Included(c, FALSE) /\ GiveUp(c, "failed")
        <3>1. \E t \in ledger : t.by = c /\ ~t.ok
            BY <2>3 DEF Included
        <3>. QED BY <2>1, <2>3, <3>1, CallGivesUp
    <2>4. CASE KeepPolling(c)
        BY <1>8, <2>1, <2>4 DEF KeepPolling
    <2>5. CASE GiveUp(c, "unsure")
        BY <2>1, <2>5, CallGivesUp
    <2>. QED BY <1>10, <2>2, <2>3, <2>4, <2>5 DEF Poll
<1>. QED BY <1>1, <1>2, <1>3, <1>4, <1>5, <1>6, <1>7, <1>9, <1>10 DEF CallStep

(* So does every step of the client and its network. *)
LEMMA ClientNextInv == ClientInv /\ [ClientNext]_clientVars => ClientInv'
<1>. SUFFICES ASSUME ClientInv, [ClientNext]_clientVars PROVE ClientInv'
    OBVIOUS
<1>1. ASSUME NEW c \in Calls, NEW k \in Kinds, Begin(c, k) PROVE ClientInv'
    <2>1. /\ at[c] = "new" /\ UNCHANGED <<account, mempool, ledger, outcome>>
          /\ at' = [at EXCEPT ![c] = "check"] /\ number' = number
        BY <1>1 DEF Begin, At, networkVars
    <2>2. number' \in [Calls -> Nat]
        BY <2>1 DEF ClientInv, ClientTypeOK
    <2>. QED BY <2>1, <2>2, CallMoves
<1>2. ASSUME NEW t \in mempool, NEW ok \in BOOLEAN, Include(t, ok) PROVE ClientInv'
    <2>. DEFINE x == [by |-> t.by, seq |-> t.seq, ok |-> ok]
    <2>1. /\ t.seq = account + 1 /\ account' = t.seq /\ mempool' = mempool \ {t} /\ ledger' = ledger \cup {x}
          /\ UNCHANGED <<at, number, outcome>>
        BY <1>2 DEF Include
    <2>2. ClientTypeOK /\ t \in [by : Calls, seq : Nat]
        BY DEF ClientInv, ClientTypeOK
    <2>3. x \in [by : Calls, seq : Nat, ok : BOOLEAN] /\ t.seq \in Nat /\ x.by = t.by /\ x.seq = t.seq
        BY <2>2
    <2>. HIDE DEF x
    <2>4. ClientTypeOK'
        BY <2>1, <2>2, <2>3 DEF ClientTypeOK
    <2>5. ASSUME NEW d \in Calls PROVE (Mine(d) /\ Untold(d) /\ Told(d))'
        <3>1. Mine(d) /\ Untold(d) /\ Told(d)
            BY DEF ClientInv
        <3>2. Mine(d)'
            BY <2>1, <2>3, <3>1 DEF Mine
        <3>3. Untold(d)'
            BY <2>1, <3>1 DEF Untold
        <3>4. Told(d)'
            BY <2>1, <2>3, <3>1 DEF Told
        <3>. QED BY <3>2, <3>3, <3>4
    <2>. QED BY <2>4, <2>5 DEF ClientInv
<1>3. ASSUME NEW t \in mempool, DropTx(t) PROVE ClientInv'
    BY <1>3 DEF DropTx, ClientInv, ClientTypeOK, Mine, Untold, Told
<1>4. CASE OtherWrite
    BY <1>4 DEF OtherWrite, ClientInv, ClientTypeOK, Mine, Untold, Told
<1>5. CASE UNCHANGED clientVars
    BY <1>5 DEF clientVars, ClientInv, ClientTypeOK, Mine, Untold, Told
<1>. QED BY <1>1, <1>2, <1>3, <1>4, <1>5, CallStepInv DEF ClientNext

(* Whatever is lost, refused or dropped, for any number of concurrent      *)
(* calls and polls: a write reaches the network as at most one             *)
(* transaction, and what submit_write tells its caller is what happened.   *)
THEOREM CallersToldTruth == ClientSpec => []CallOutcomesHonest
<1>1. ClientInv => CallOutcomesHonest
    <2>. SUFFICES ASSUME ClientInv, NEW c \in Calls
                  PROVE  /\ Cardinality(Traces(c)) <= 1
                         /\ outcome[c] = "success" => \E t \in ledger : t.by = c /\ t.ok
                         /\ outcome[c] = "failed" => \E t \in ledger : t.by = c /\ ~t.ok
                         /\ outcome[c] \in {"refused", "contractError", "rejected", "answer", "archived"} =>
                              Traces(c) = {}
        BY DEF CallOutcomesHonest
    <2>1. Mine(c) /\ Told(c) /\ mempool \subseteq [by : Calls, seq : Nat]
        BY DEF ClientInv, ClientTypeOK
    <2>2. Traces(c) \subseteq {Tx(c)}
        <3>1. \A t \in mempool : t.by = c => t = [by |-> c, seq |-> number[c]]
            BY <2>1 DEF Mine
        <3>2. \A t \in ledger : t.by = c => [by |-> t.by, seq |-> t.seq] = [by |-> c, seq |-> number[c]]
            BY <2>1 DEF Mine
        <3>. QED BY <3>1, <3>2 DEF Traces, Tx
    <2>3. Traces(c) = {} \/ Traces(c) = {Tx(c)}
        BY <2>2
    <2>4. Cardinality(Traces(c)) <= 1
        <3>1. CASE Traces(c) = {}
            <4>1. Cardinality(Traces(c)) = 0
                BY <3>1, FS_EmptySet, Zenon
            <4>. QED BY <4>1
        <3>2. CASE Traces(c) = {Tx(c)}
            <4>1. Cardinality(Traces(c)) = 1
                BY <3>2, FS_Singleton, Zenon
            <4>. QED BY <4>1
        <3>. QED BY <2>3, <3>1, <3>2
    <2>. QED BY <2>1, <2>4 DEF Told, Traces
<1>. QED BY <1>1, ClientInitInv, ClientNextInv, PTL DEF ClientSpec

------------------------------------------------------------------------------
(* The JSON-RPC client.                                                    *)

RequestRec ==
    [state : {"idle", "post", "wait"}, method : SingleMethods \cup {"none", "getLatestLedger", "getLedgers"},
     clock : BOOLEAN, local : Nat, sequence : Nat, id : Nat, attempt : Nat]

AnswerRec ==
    [id : Nat, tag : [caller : RpcCallers, number : Nat],
     body : {"result", "error", "unsupported"}, value : Nat]

Asking(c) == rpc[c].state # "idle"

RpcTypeOK ==
    /\ next_id \in Nat \ {0} /\ tip \in Nat /\ offset \in Nat
    /\ rpc \in [RpcCallers -> RequestRec]
    /\ wire \subseteq AnswerRec
    /\ built \in [RpcCallers -> Nat] /\ handled \in [RpcCallers -> Nat]
    /\ DOMAIN returned = RpcCallers

(* An id is that of one request: no two callers wait under the same one,   *)
(* and every answer under a caller's id answers its request.               *)
IdsApart ==
    /\ \A c \in RpcCallers : rpc[c].id < next_id
    /\ \A c, d \in RpcCallers : Asking(c) /\ Asking(d) /\ rpc[c].id = rpc[d].id => c = d
    /\ \A a \in wire : a.id < next_id /\ a.value <= tip
    /\ \A c \in RpcCallers, a \in wire : Asking(c) /\ a.id = rpc[c].id => a.tag = Tag(c)

(* A caller's request has been acted on at most once, not while it is still *)
(* to be posted, and the call has returned nothing yet.                     *)
HandledOnce ==
    \A c \in RpcCallers :
      /\ handled[c] <= 1
      /\ rpc[c].state = "post" => handled[c] = 0
      /\ Asking(c) => returned[c] = NoOutcome

ReturnedOwn(c) ==
    LET r == returned[c] IN
      /\ r.kind \in {"Ok", "time"} => r.answered = Tag(c)
      /\ r.kind = "RateLimited" => handled[c] = 0
      /\ r.kind = "time" =>
           /\ r.close_time \in 0..tip
           /\ r.close_time <= r.local + max_skew /\ r.local <= r.close_time + max_skew

RpcInv ==
    RpcTypeOK /\ IdsApart /\ HandledOnce /\ \A c \in RpcCallers : ReturnedOwn(c)

(* A clone that waits for nothing has no request out. *)
LEMMA IdleFacts ==
    /\ NoCall \in RequestRec /\ NoCall.state = "idle" /\ NoCall.id = 0
    /\ NoOutcome.kind = "none"
BY DEF NoCall, Request, RequestRec, NoOutcome, RpcFailure, RpcResult

(* Fresh clones satisfy the invariant. *)
LEMMA RpcInitInv == RpcInit => RpcInv
<1>. SUFFICES ASSUME RpcInit PROVE RpcInv
    OBVIOUS
<1>1. RpcTypeOK
    BY RpcAssumption, IdleFacts DEF RpcInit, RpcTypeOK
<1>2. IdsApart
    BY IdleFacts DEF RpcInit, IdsApart, Asking
<1>3. HandledOnce
    <2>1. \A c \in RpcCallers : rpc[c] = NoCall /\ handled[c] = 0 /\ returned[c] = NoOutcome
        BY DEF RpcInit
    <2>2. \A c \in RpcCallers : rpc[c].state = "idle"
        BY <2>1, IdleFacts
    <2>3. ASSUME NEW c \in RpcCallers PROVE handled[c] <= 1
        <3>1. handled[c] = 0
            BY <2>1
        <3>. QED BY <3>1
    <2>. QED BY <2>1, <2>2, <2>3 DEF HandledOnce, Asking
<1>4. \A c \in RpcCallers : ReturnedOwn(c)
    BY IdleFacts DEF RpcInit, ReturnedOwn
<1>. QED BY <1>1, <1>2, <1>3, <1>4 DEF RpcInv

(* A request is built, under an id nobody waits for and nothing answers. *)
LEMMA BuildInv ==
    ASSUME RpcInv, NEW c \in RpcCallers,
           NEW m \in SingleMethods \cup {"getLatestLedger", "getLedgers"}, NEW k \in BOOLEAN,
           NEW l \in Nat, NEW q \in Nat, BuildRequest(c, m, k, l, q),
           wire' \subseteq wire, UNCHANGED <<tip, offset>>, DOMAIN returned' = RpcCallers,
           returned'[c] = NoOutcome, \A d \in RpcCallers : d # c => returned'[d] = returned[d]
    PROVE  RpcInv'
<1>. DEFINE r == Request(m, k, l, q, next_id)
<1>0. RpcTypeOK /\ IdsApart /\ HandledOnce /\ \A d \in RpcCallers : ReturnedOwn(d)
    BY DEF RpcInv
<1>1. /\ next_id' = next_id + 1 /\ built' = [built EXCEPT ![c] = @ + 1]
      /\ rpc' = [rpc EXCEPT ![c] = r] /\ handled' = [handled EXCEPT ![c] = 0]
    BY DEF BuildRequest, RequestId
<1>2. r \in RequestRec /\ r.state = "post" /\ r.id = next_id
    BY <1>0 DEF Request, RequestRec, RpcTypeOK
<1>. HIDE DEF r
<1>3. RpcTypeOK'
    BY <1>0, <1>1, <1>2 DEF RpcTypeOK
<1>4. /\ rpc'[c] = r /\ handled'[c] = 0
      /\ \A d \in RpcCallers : d # c => rpc'[d] = rpc[d] /\ handled'[d] = handled[d] /\ built'[d] = built[d]
    BY <1>0, <1>1 DEF RpcTypeOK
<1>5. /\ \A d \in RpcCallers : rpc[d].id < next_id /\ rpc[d].id \in Nat
      /\ \A a \in wire : a.id < next_id /\ a.id \in Nat
      /\ next_id \in Nat
    <2>1. \A d \in RpcCallers : rpc[d] \in RequestRec
        BY <1>0 DEF RpcTypeOK
    <2>2. \A d \in RpcCallers : rpc[d].id \in Nat
        BY <2>1 DEF RequestRec
    <2>3. \A a \in wire : a \in AnswerRec
        BY <1>0 DEF RpcTypeOK
    <2>4. \A a \in wire : a.id \in Nat
        BY <2>3 DEF AnswerRec
    <2>. QED BY <1>0, <2>2, <2>4 DEF IdsApart, RpcTypeOK
<1>6. IdsApart'
    <2>1. \A d \in RpcCallers : rpc'[d].id < next_id'
        BY <1>1, <1>2, <1>4, <1>5
    <2>2. \A d, e \in RpcCallers : Asking(d)' /\ Asking(e)' /\ rpc'[d].id = rpc'[e].id => d = e
        BY <1>0, <1>2, <1>4, <1>5 DEF IdsApart, Asking
    <2>3. \A a \in wire' : a.id < next_id' /\ a.value <= tip'
        BY <1>0, <1>1, <1>5 DEF IdsApart
    <2>4. \A d \in RpcCallers, a \in wire' : Asking(d)' /\ a.id = rpc'[d].id => a.tag = Tag(d)'
        BY <1>0, <1>2, <1>4, <1>5 DEF IdsApart, Asking, Tag
    <2>. QED BY <2>1, <2>2, <2>3, <2>4 DEF IdsApart
<1>7. HandledOnce'
    BY <1>0, <1>4 DEF HandledOnce, Asking
<1>8. ASSUME NEW d \in RpcCallers PROVE ReturnedOwn(d)'
    <2>1. CASE d = c
        BY <2>1, IdleFacts DEF ReturnedOwn
    <2>2. CASE d # c
        BY <1>0, <1>4, <2>2 DEF ReturnedOwn, Tag
    <2>. QED BY <2>1, <2>2
<1>. QED BY <1>3, <1>6, <1>7, <1>8 DEF RpcInv

(* A call returns. *)
LEMMA ReturnInv ==
    ASSUME RpcInv, NEW c \in RpcCallers, NEW o, RpcReturn(c, o),
           wire' \subseteq wire, UNCHANGED <<next_id, tip, offset, built, handled>>,
           o.kind \in {"Ok", "time"} => o.answered = Tag(c),
           o.kind = "RateLimited" => handled[c] = 0,
           o.kind = "time" => /\ o.close_time \in 0..tip
                              /\ o.close_time <= o.local + max_skew /\ o.local <= o.close_time + max_skew
    PROVE  RpcInv'
<1>0. RpcTypeOK /\ IdsApart /\ HandledOnce /\ \A d \in RpcCallers : ReturnedOwn(d)
    BY DEF RpcInv
<1>1. rpc' = [rpc EXCEPT ![c] = NoCall] /\ returned' = [returned EXCEPT ![c] = o]
    BY DEF RpcReturn
<1>2. RpcTypeOK'
    BY <1>0, <1>1, IdleFacts DEF RpcTypeOK
<1>3. /\ rpc'[c] = NoCall /\ returned'[c] = o
      /\ \A d \in RpcCallers : d # c => rpc'[d] = rpc[d] /\ returned'[d] = returned[d]
    BY <1>0, <1>1 DEF RpcTypeOK
<1>4. IdsApart'
    <2>1. \A d \in RpcCallers : rpc'[d].id < next_id'
        BY <1>0, <1>3, IdleFacts DEF IdsApart, RpcTypeOK
    <2>2. \A d, e \in RpcCallers : Asking(d)' /\ Asking(e)' /\ rpc'[d].id = rpc'[e].id => d = e
        BY <1>0, <1>3, IdleFacts DEF IdsApart, Asking
    <2>3. \A a \in wire' : a.id < next_id' /\ a.value <= tip'
        BY <1>0 DEF IdsApart
    <2>4. \A d \in RpcCallers, a \in wire' : Asking(d)' /\ a.id = rpc'[d].id => a.tag = Tag(d)'
        BY <1>0, <1>3, IdleFacts DEF IdsApart, Asking, Tag
    <2>. QED BY <2>1, <2>2, <2>3, <2>4 DEF IdsApart
<1>5. HandledOnce'
    BY <1>0, <1>3, IdleFacts DEF HandledOnce, Asking
<1>6. ASSUME NEW d \in RpcCallers PROVE ReturnedOwn(d)'
    <2>1. CASE d = c
        BY <1>3, <2>1 DEF ReturnedOwn, Tag
    <2>2. CASE d # c
        BY <1>0, <1>3, <2>2 DEF ReturnedOwn, Tag
    <2>. QED BY <2>1, <2>2
<1>. QED BY <1>2, <1>4, <1>5, <1>6 DEF RpcInv

(* A call that fails tells its caller of its own failure. *)
LEMMA FailsInv ==
    ASSUME RpcInv, NEW c \in RpcCallers,
           NEW why \in {"RateLimited", "TransportError", "Refused", "RpcError"}, Fails(c, why),
           wire' \subseteq wire, UNCHANGED <<next_id, tip, offset, built, handled>>,
           why = "RateLimited" => handled[c] = 0
    PROVE  RpcInv'
<1>. DEFINE o == RpcFailure(why)
<1>1. o.kind = why /\ RpcReturn(c, o)
    BY DEF Fails, RpcFailure, RpcResult
<1>. HIDE DEF o
<1>. QED BY <1>1, ReturnInv

(* An answer of the node is for the request it names. *)
LEMMA NodeAnswersInv ==
    ASSUME RpcInv, NEW c \in RpcCallers, NEW lag \in Lags,
           NEW body \in {"result", "error", "unsupported"}, NodeAnswers(c, lag, body)
    PROVE  RpcInv'
<1>0. RpcTypeOK /\ IdsApart /\ HandledOnce /\ \A d \in RpcCallers : ReturnedOwn(d)
    BY DEF RpcInv
<1>. DEFINE v == IF rpc[c].clock THEN NodeValue(rpc[c], tip - lag) ELSE 0
            x == [id |-> rpc[c].id, tag |-> Tag(c), body |-> body, value |-> v]
<1>1. /\ rpc[c].state = "post" /\ lag <= tip
      /\ handled' = [handled EXCEPT ![c] = @ + 1] /\ wire' = wire \cup {x}
      /\ rpc' = [rpc EXCEPT ![c].state = "wait"] /\ UNCHANGED <<next_id, tip, offset, built, returned>>
    BY DEF NodeAnswers, Posted
<1>2. rpc[c] \in RequestRec /\ tip \in Nat /\ lag \in Nat
    BY <1>0, RpcAssumption DEF RpcTypeOK
<1>3. rpc[c].id \in Nat /\ rpc[c].sequence \in Nat
    BY <1>2 DEF RequestRec
<1>4. v \in Nat /\ v <= tip
    BY <1>1, <1>2, <1>3 DEF NodeValue
<1>. HIDE DEF v
<1>5. x \in AnswerRec /\ x.id = rpc[c].id /\ x.tag = Tag(c) /\ x.value = v
    BY <1>0, <1>3, <1>4 DEF AnswerRec, Tag, RpcTypeOK
<1>. HIDE DEF x
<1>6. /\ rpc'[c] \in RequestRec /\ rpc'[c].state = "wait" /\ rpc'[c].id = rpc[c].id
      /\ \A d \in RpcCallers : d # c => rpc'[d] = rpc[d] /\ handled'[d] = handled[d]
      /\ handled'[c] = 1 /\ rpc' \in [RpcCallers -> RequestRec]
    <2>. DEFINE r == [rpc[c] EXCEPT !.state = "wait"]
    <2>1. r \in RequestRec /\ r.state = "wait" /\ r.id = rpc[c].id
        BY <1>2 DEF RequestRec
    <2>2. rpc' = [rpc EXCEPT ![c] = r]
        BY <1>0, <1>1 DEF RpcTypeOK
    <2>3. handled[c] = 0
        BY <1>0, <1>1 DEF HandledOnce
    <2>. HIDE DEF r
    <2>. QED BY <1>0, <1>1, <2>1, <2>2, <2>3 DEF RpcTypeOK
<1>7. RpcTypeOK'
    BY <1>0, <1>1, <1>5, <1>6 DEF RpcTypeOK
<1>8. IdsApart'
    <2>0. \A d \in RpcCallers : rpc'[d].id = rpc[d].id /\ (Asking(d)' <=> Asking(d)) /\ Tag(d)' = Tag(d)
        BY <1>1, <1>6 DEF Asking, Tag
    <2>1. \A d \in RpcCallers : rpc'[d].id < next_id'
        BY <1>0, <1>1, <2>0 DEF IdsApart
    <2>2. \A d, e \in RpcCallers : Asking(d)' /\ Asking(e)' /\ rpc'[d].id = rpc'[e].id => d = e
        BY <1>0, <2>0 DEF IdsApart
    <2>3. \A a \in wire' : a.id < next_id' /\ a.value <= tip'
        BY <1>0, <1>1, <1>4, <1>5 DEF IdsApart
    <2>4. \A d \in RpcCallers, a \in wire' : Asking(d)' /\ a.id = rpc'[d].id => a.tag = Tag(d)'
        BY <1>0, <1>1, <1>5, <2>0 DEF IdsApart, Asking
    <2>. QED BY <2>1, <2>2, <2>3, <2>4 DEF IdsApart
<1>9. HandledOnce'
    BY <1>0, <1>1, <1>6 DEF HandledOnce, Asking
<1>10. ASSUME NEW d \in RpcCallers PROVE ReturnedOwn(d)'
    <2>1. CASE d = c
        <3>1. returned'[c] = NoOutcome
            BY <1>0, <1>1 DEF HandledOnce, Asking
        <3>. QED BY <2>1, <3>1, IdleFacts DEF ReturnedOwn
    <2>2. CASE d # c
        BY <1>0, <1>1, <1>6, <2>2 DEF ReturnedOwn, Tag
    <2>. QED BY <2>1, <2>2
<1>. QED BY <1>7, <1>8, <1>9, <1>10 DEF RpcInv

(* A throttled call is one the node never handled. *)
LEMMA RateLimitedInv ==
    ASSUME RpcInv, NEW c \in RpcCallers, RateLimited(c)
    PROVE  RpcInv'
<1>0. RpcTypeOK /\ IdsApart /\ HandledOnce /\ \A d \in RpcCallers : ReturnedOwn(d)
    BY DEF RpcInv
<1>1. rpc[c].state = "post" /\ handled[c] = 0 /\ UNCHANGED <<next_id, wire, tip, offset, built, handled>>
    BY <1>0 DEF RateLimited, Posted, HandledOnce
<1>2. CASE Fails(c, "RateLimited")
    BY <1>1, <1>2, FailsInv
<1>3. CASE rpc' = [rpc EXCEPT ![c].attempt = @ + 1] /\ UNCHANGED returned
    <2>. DEFINE r == [rpc[c] EXCEPT !.attempt = @ + 1]
    <2>1. rpc[c] \in RequestRec
        BY <1>0 DEF RpcTypeOK
    <2>2. r \in RequestRec /\ r.state = rpc[c].state /\ r.id = rpc[c].id
        BY <2>1 DEF RequestRec
    <2>3. rpc' = [rpc EXCEPT ![c] = r]
        BY <1>0, <1>3 DEF RpcTypeOK
    <2>. HIDE DEF r
    <2>4. RpcTypeOK' /\ \A d \in RpcCallers : rpc'[d].id = rpc[d].id /\ rpc'[d].state = rpc[d].state
        BY <1>0, <1>1, <1>3, <2>2, <2>3 DEF RpcTypeOK
    <2>5. IdsApart'
        BY <1>0, <1>1, <2>4 DEF IdsApart, Asking, Tag
    <2>6. HandledOnce'
        BY <1>0, <1>1, <1>3, <2>4 DEF HandledOnce, Asking
    <2>7. \A d \in RpcCallers : ReturnedOwn(d)'
        BY <1>0, <1>1, <1>3 DEF ReturnedOwn, Tag
    <2>. QED BY <2>4, <2>5, <2>6, <2>7 DEF RpcInv
<1>. QED BY <1>2, <1>3 DEF RateLimited

(* An answer is taken: it is the answer to the caller's own request, or    *)
(* its id is another's and it is refused.                                  *)
LEMMA TakeAnswerInv ==
    ASSUME RpcInv, NEW c \in RpcCallers, NEW a \in wire, TakeAnswer(c, a)
    PROVE  RpcInv'
<1>0. RpcTypeOK /\ IdsApart /\ HandledOnce /\ \A d \in RpcCallers : ReturnedOwn(d)
    BY DEF RpcInv
<1>. DEFINE r == rpc[c]
            verdict == ParseResponse(a, r.id)
<1>1. /\ r.state = "wait" /\ wire' \subseteq wire /\ UNCHANGED <<tip, offset>>
      /\ \/ verdict # "Ok" /\ Fails(c, verdict) /\ UNCHANGED <<next_id, built, handled>>
         \/ /\ verdict = "Ok" /\ RpcReturn(c, RpcResult("Ok", a.tag, 0, 0))
            /\ UNCHANGED <<next_id, built, handled>>
         \/ BuildRequest(c, "getLedgers", TRUE, r.local, a.value) /\ UNCHANGED returned
         \/ /\ verdict = "Ok"
            /\ RpcReturn(c, RpcResult(ResolveIssuanceTime(a.value, r.local), a.tag, a.value, r.local))
            /\ UNCHANGED <<next_id, built, handled>>
    BY DEF TakeAnswer
<1>2. a \in AnswerRec /\ r \in RequestRec /\ tip \in Nat
    BY <1>0 DEF RpcTypeOK
<1>3. a.value \in Nat /\ r.local \in Nat
    BY <1>2 DEF AnswerRec, RequestRec
<1>4. a.value <= tip /\ (verdict = "Ok" => a.tag = Tag(c))
    BY <1>0, <1>1 DEF IdsApart, Asking, ParseResponse
<1>5. CASE verdict # "Ok" /\ Fails(c, verdict) /\ UNCHANGED <<next_id, built, handled>>
    <2>1. verdict \in {"Refused", "RpcError"}
        BY <1>5 DEF ParseResponse
    <2>. HIDE DEF verdict
    <2>. QED BY <1>1, <1>5, <2>1, FailsInv
<1>6. CASE /\ verdict = "Ok" /\ RpcReturn(c, RpcResult("Ok", a.tag, 0, 0))
           /\ UNCHANGED <<next_id, built, handled>>
    <2>. DEFINE o == RpcResult("Ok", a.tag, 0, 0)
    <2>1. o.kind = "Ok" /\ o.answered = Tag(c)
        BY <1>4, <1>6 DEF RpcResult
    <2>2. RpcReturn(c, o)
        BY <1>6
    <2>. HIDE DEF o
    <2>. QED BY <1>1, <1>6, <2>1, <2>2, ReturnInv
<1>7. CASE BuildRequest(c, "getLedgers", TRUE, r.local, a.value) /\ UNCHANGED returned
    <2>1. DOMAIN returned = RpcCallers /\ returned[c] = NoOutcome
        BY <1>0, <1>1 DEF RpcTypeOK, HandledOnce, Asking
    <2>2. DOMAIN returned' = RpcCallers /\ returned'[c] = NoOutcome /\ \A d \in RpcCallers : d # c => returned'[d] = returned[d]
        BY <1>7, <2>1
    <2>. HIDE DEF r
    <2>. QED BY <1>1, <1>3, <1>7, <2>2, BuildInv
<1>8. CASE /\ verdict = "Ok"
           /\ RpcReturn(c, RpcResult(ResolveIssuanceTime(a.value, r.local), a.tag, a.value, r.local))
           /\ UNCHANGED <<next_id, built, handled>>
    <2>. DEFINE k == ResolveIssuanceTime(a.value, r.local)
                o == RpcResult(k, a.tag, a.value, r.local)
    <2>1. k \in {"LedgerInFuture", "LedgerStale", "time"}
        BY DEF ResolveIssuanceTime
    <2>2. k = "time" => a.value <= r.local + max_skew /\ r.local <= a.value + max_skew
        BY <1>3, RpcAssumption DEF ResolveIssuanceTime
    <2>3. RpcReturn(c, o)
        BY <1>8
    <2>. HIDE DEF k
    <2>4. o.kind = k /\ o.answered = a.tag /\ o.close_time = a.value /\ o.local = r.local
        BY DEF RpcResult
    <2>. HIDE DEF o
    <2>5. /\ o.kind \in {"Ok", "time"} => o.answered = Tag(c)
          /\ o.kind = "RateLimited" => handled[c] = 0
          /\ o.kind = "time" => /\ o.close_time \in 0..tip
                                /\ o.close_time <= o.local + max_skew /\ o.local <= o.close_time + max_skew
        BY <1>2, <1>3, <1>4, <1>8, <2>1, <2>2, <2>4
    <2>. QED BY <1>1, <1>8, <2>3, <2>5, ReturnInv
<1>. QED BY <1>1, <1>5, <1>6, <1>7, <1>8

(* Every step of the clones and the node keeps the invariant. *)
LEMMA RpcNextInv == RpcInv /\ [RpcNext]_rpcVars => RpcInv'
<1>. SUFFICES ASSUME RpcInv, [RpcNext]_rpcVars PROVE RpcInv'
    OBVIOUS
<1>0. RpcTypeOK
    BY DEF RpcInv
<1>1. ASSUME NEW c \in RpcCallers, NEW m \in SingleMethods, Call(c, m) PROVE RpcInv'
    <2>. DEFINE z == 0
    <2>1. BuildRequest(c, m, FALSE, z, z) /\ wire' \subseteq wire /\ UNCHANGED <<tip, offset>> /\ z \in Nat
        BY <1>1 DEF Call
    <2>2. DOMAIN returned' = RpcCallers /\ returned'[c] = NoOutcome /\ \A d \in RpcCallers : d # c => returned'[d] = returned[d]
        BY <1>0, <1>1 DEF RpcTypeOK, Call
    <2>. HIDE DEF z
    <2>. QED BY <2>1, <2>2, BuildInv
<1>2. ASSUME NEW c \in RpcCallers, GetLatestLedgerClock(c) PROVE RpcInv'
    <2>. DEFINE z == 0
                l == tip + offset
    <2>0. z \in Nat /\ l \in Nat
        BY <1>0 DEF RpcTypeOK
    <2>1. BuildRequest(c, "getLatestLedger", TRUE, l, z) /\ wire' \subseteq wire /\ UNCHANGED <<tip, offset>>
        BY <1>2 DEF GetLatestLedgerClock
    <2>2. DOMAIN returned' = RpcCallers /\ returned'[c] = NoOutcome /\ \A d \in RpcCallers : d # c => returned'[d] = returned[d]
        BY <1>0, <1>2 DEF RpcTypeOK, GetLatestLedgerClock
    <2>. HIDE DEF z, l
    <2>. QED BY <2>0, <2>1, <2>2, BuildInv
<1>3. ASSUME NEW c \in RpcCallers, TransportError(c) PROVE RpcInv'
    <2>1. Fails(c, "TransportError") /\ UNCHANGED <<next_id, wire, tip, offset, built, handled>>
        BY <1>3 DEF TransportError
    <2>. QED BY <2>1, FailsInv
<1>4. CASE CloseNextLedger
    <2>1. tip' = tip + 1 /\ UNCHANGED <<next_id, rpc, wire, offset, built, handled, returned>> /\ tip \in Nat
        BY <1>0, <1>4 DEF CloseNextLedger, RpcTypeOK
    <2>2. RpcTypeOK'
        BY <1>0, <2>1 DEF RpcTypeOK
    <2>3. \A a \in wire : a.value \in Nat
        <3>1. \A a \in wire : a \in AnswerRec
            BY <1>0 DEF RpcTypeOK
        <3>. QED BY <3>1 DEF AnswerRec
    <2>4. IdsApart'
        BY <2>1, <2>3 DEF RpcInv, IdsApart, Asking, Tag
    <2>5. HandledOnce'
        BY <2>1 DEF RpcInv, HandledOnce, Asking
    <2>6. ASSUME NEW d \in RpcCallers PROVE ReturnedOwn(d)'
        <3>1. ReturnedOwn(d) /\ \A x \in 0..tip : x \in 0..tip'
            BY <2>1 DEF RpcInv
        <3>. QED BY <2>1, <3>1 DEF ReturnedOwn, Tag
    <2>. QED BY <2>2, <2>4, <2>5, <2>6 DEF RpcInv
<1>5. CASE UNCHANGED rpcVars
    BY <1>5 DEF rpcVars, RpcInv, RpcTypeOK, IdsApart, HandledOnce, ReturnedOwn, Asking, Tag
<1>. QED BY <1>1, <1>2, <1>3, <1>4, <1>5, NodeAnswersInv, RateLimitedInv, TakeAnswerInv DEF RpcNext

(* However many clones share the counter, and whatever answers are lost,   *)
(* late or crossed: a call returns only the answer to its own request, no  *)
(* request is acted on twice, and an issuance time is a close time within  *)
(* the skew (RpcClient::post, parse_response, resolve_issuance_time).      *)
THEOREM ClonesGetOwnAnswers == RpcSpec => []AnswersOwn
<1>1. RpcInv => AnswersOwn
    BY DEF RpcInv, HandledOnce, ReturnedOwn, AnswersOwn
<1>. QED BY <1>1, RpcInitInv, RpcNextInv, PTL DEF RpcSpec

------------------------------------------------------------------------------
(* The fee-bump submitter.                                                 *)

Prices == 1..max_fee_strops

CallRec ==
    [op : {"idle", "ledger", "submit", "check", "bump", "send"}, tx : Nat, fee : Nat,
     latest : Nat, todo : SUBSET Txs]

BumpTypeOK ==
    /\ closed \in Nat /\ sequence \in Nat
    /\ offered \subseteq [tx : Txs, fee : Prices]
    /\ waiting \subseteq offered
    /\ chosen \in [Txs -> Nat]
    /\ pending \in [Txs -> PendingTransaction \cup {NotTracked}]
    /\ accepted \subseteq Txs
    /\ call \in CallRec

(* What the running method has read still holds: nobody else submits the   *)
(* transaction of submit, and the entries of a round stay tracked until    *)
(* the round is done with them.                                            *)
CallCurrent ==
    /\ call.op \in {"ledger", "submit"} =>
         /\ call.tx \in Txs /\ call.fee \in Prices
         /\ call.tx \notin accepted /\ \A e \in offered : e.tx # call.tx
    /\ \A t \in call.todo : pending[t] # NotTracked
    /\ call.op \in {"bump", "send"} =>
         call.tx \in call.todo /\ pending[call.tx].attempts < max_attempts
    /\ call.op = "send" => call.fee = NextFee(pending[call.tx].fee) /\ call.fee # 0

Below(F, f) == {x \in F : x < f}

(* The fees F of a transaction that is followed as p: those below the fee  *)
(* on record were answered and counted, and above it there is at most the  *)
(* one bump whose answer was lost.                                         *)
Followed(F, p) ==
    /\ p.fee \in F /\ p.attempts <= max_attempts
    /\ Cardinality(Below(F, p.fee)) = p.attempts
    /\ \A x \in F : x > p.fee => x = NextFee(p.fee) /\ p.attempts < max_attempts

Tracking(t) ==
    IF pending[t] = NotTracked
      THEN (t \in accepted => Settled(t)) /\ Cardinality(Fees(t)) <= max_attempts + 1
      ELSE Followed(Fees(t), pending[t])

BumpInv == BumpTypeOK /\ CallCurrent /\ \A t \in Txs : Tracking(t)

(* The fees of a transaction are finitely many prices. *)
LEMMA PricesFinite == max_fee_strops \in Nat /\ Prices \subseteq Nat \ {0} /\ IsFiniteSet(Prices)
<1>1. max_fee_strops \in Nat /\ Prices \subseteq Nat \ {0}
    BY BumpAssumption DEF ValidStrategy, Prices
<1>. QED BY <1>1, FS_Interval DEF Prices

(* The fees a transaction was offered at are prices. *)
LEMMA FeesArePrices ==
    ASSUME BumpTypeOK, NEW t \in Txs
    PROVE  Fees(t) \in SUBSET Prices
<1>1. \A e \in offered : e.fee \in Prices
    BY DEF BumpTypeOK
<1>. QED BY <1>1 DEF Fees

(* A fee bump is a higher price. *)
LEMMA NextFeeHigher ==
    ASSUME NEW f \in Nat, f # 0
    PROVE  /\ NextFee(f) \in Nat
           /\ NextFee(f) # 0 => NextFee(f) > f /\ NextFee(f) \in Prices
BY BumpAssumption DEF ValidStrategy, NextFee, Larger, Prices

(* A followed transaction has not more envelopes than it may. *)
LEMMA FollowedBound ==
    ASSUME NEW F \in SUBSET Prices, NEW p \in PendingTransaction, Followed(F, p)
    PROVE  Cardinality(F) <= max_attempts + 1
<1>. DEFINE f == p.fee
            k == p.attempts
            L == Below(F, f)
            n == NextFee(f)
<1>0. max_attempts \in Nat
    BY BumpAssumption DEF ValidStrategy
<1>2. f \in Nat /\ k \in Nat
    BY DEF PendingTransaction
<1>3. F \subseteq Nat /\ IsFiniteSet(F) /\ f \in F /\ k <= max_attempts /\ Cardinality(L) = k
      /\ \A x \in F : x > f => x = n /\ k < max_attempts
    BY PricesFinite, FS_Subset DEF Followed
<1>4. L \subseteq F /\ f \notin L /\ \A x \in F : x \in L \/ x = f \/ x > f
    BY <1>2, <1>3 DEF Below
<1>. HIDE DEF f, k, L, n
<1>5. IsFiniteSet(L) /\ IsFiniteSet(L \cup {f}) /\ Cardinality(L \cup {f}) = k + 1
    BY <1>3, <1>4, FS_Subset, FS_AddElement
<1>6. CASE \A x \in F : ~(x > f)
    <2>1. F = L \cup {f}
        BY <1>3, <1>4, <1>6
    <2>2. Cardinality(F) = k + 1
        BY <1>5, <2>1
    <2>. QED BY <1>0, <1>2, <1>3, <2>2
<1>7. CASE \E x \in F : x > f
    <2>1. k < max_attempts /\ n \in F /\ n > f
        BY <1>3, <1>7
    <2>2. F = (L \cup {f}) \cup {n} /\ n \notin L \cup {f}
        <3>1. n \notin L /\ n # f
            BY <1>2, <1>3, <2>1 DEF L, Below
        <3>. QED BY <1>3, <1>4, <2>1, <3>1
    <2>3. Cardinality((L \cup {f}) \cup {n}) = (k + 1) + 1
        BY <1>5, <2>2, FS_AddElement
    <2>4. Cardinality(F) = (k + 1) + 1
        BY <2>2, <2>3
    <2>. QED BY <1>0, <1>2, <2>1, <2>4
<1>. QED BY <1>6, <1>7

(* A submitter with nothing pending satisfies the invariant. *)
LEMMA BumpInitInv == BumpInit => BumpInv
<1>. SUFFICES ASSUME BumpInit PROVE BumpInv
    OBVIOUS
<1>1. BumpTypeOK
    BY DEF BumpInit, BumpTypeOK, Idle, CallRec
<1>2. CallCurrent
    BY DEF BumpInit, CallCurrent, Idle
<1>3. ASSUME NEW t \in Txs PROVE Tracking(t)
    <2>1. Fees(t) = {}
        BY DEF BumpInit, Fees
    <2>2. Cardinality(Fees(t)) = 0
        BY <2>1, FS_EmptySet, Zenon
    <2>. QED BY <2>2, BumpAssumption DEF BumpInit, Tracking, ValidStrategy
<1>. QED BY <1>1, <1>2, <1>3 DEF BumpInv

(* What sending an envelope does. *)
LEMMA Delivered ==
    ASSUME BumpTypeOK, NEW e \in [tx : Txs, fee : Prices], NEW a \in Answers, Deliver(e, a)
    PROVE  /\ offered' = offered \cup {e} /\ offered' \subseteq [tx : Txs, fee : Prices]
           /\ waiting' \subseteq offered' /\ chosen' \in [Txs -> Nat] /\ sequence' \in Nat
           /\ \A t \in Txs : chosen[t] # 0 => chosen'[t] # 0
           /\ a = "confirmed" => chosen'[e.tx] # 0
           /\ Fees(e.tx)' = Fees(e.tx) \cup {e.fee}
           /\ \A t \in Txs : t # e.tx => Fees(t)' = Fees(t)
<1>1. e.tx \in Txs /\ e.fee \in Prices /\ e.tx \in Nat /\ e.fee \in Nat /\ e.fee # 0
    BY BumpAssumption DEF Txs, Prices, ValidStrategy
<1>2. offered' = offered \cup {e}
    BY DEF Deliver
<1>3. Fees(e.tx)' = Fees(e.tx) \cup {e.fee} /\ \A t \in Txs : t # e.tx => Fees(t)' = Fees(t)
    BY <1>2 DEF Fees
<1>4. /\ waiting' \subseteq offered' /\ chosen' \in [Txs -> Nat] /\ sequence' \in Nat
      /\ \A t \in Txs : chosen[t] # 0 => chosen'[t] # 0
      /\ a = "confirmed" => chosen'[e.tx] # 0
    BY <1>1, <1>2 DEF Deliver, BumpTypeOK
<1>. QED BY <1>2, <1>3, <1>4 DEF BumpTypeOK

(* Steps that leave the envelopes and the entries alone. *)
LEMMA TrackingFrame ==
    ASSUME NEW t \in Txs, Tracking(t), UNCHANGED <<offered, pending, accepted>>,
           chosen[t] # 0 => chosen'[t] # 0
    PROVE  Tracking(t)'
<1>1. Fees(t)' = Fees(t)
    BY DEF Fees
<1>. QED BY <1>1 DEF Tracking, Settled

(* A step that moves only the call in progress keeps the invariant. *)
LEMMA CallOnly ==
    ASSUME BumpInv, UNCHANGED <<closed, sequence, offered, waiting, chosen, pending, accepted>>,
           call' \in CallRec, CallCurrent'
    PROVE  BumpInv'
<1>1. BumpTypeOK'
    BY DEF BumpInv, BumpTypeOK
<1>2. ASSUME NEW t \in Txs PROVE Tracking(t)'
    <2>1. Tracking(t) /\ chosen' = chosen
        BY DEF BumpInv
    <2>. QED BY <2>1, TrackingFrame
<1>. QED BY <1>1, <1>2 DEF BumpInv

(* An idle submitter has nothing to do. *)
LEMMA IdleCall == Idle \in CallRec /\ Idle.op = "idle" /\ Idle.todo = {}
BY DEF Idle, CallRec

(* An idle submitter holds no stale copy. *)
LEMMA IdleCurrent == ASSUME call' = Idle PROVE CallCurrent'
BY IdleCall DEF CallCurrent

(* check_and_bump is done with an entry: the others stay as they were. *)
LEMMA DoneCurrent ==
    ASSUME BumpInv, NEW t \in Txs, call.op \in {"check", "bump", "send"}, Done(t),
           \A u \in Txs : u # t => pending'[u] = pending[u]
    PROVE  call' \in CallRec /\ CallCurrent'
<1>. DEFINE rest == call.todo \ {t}
<1>0. call \in CallRec /\ \A u \in call.todo : pending[u] # NotTracked
    BY DEF BumpInv, BumpTypeOK, CallCurrent
<1>1. rest \subseteq Txs /\ \A u \in rest : u # t /\ pending[u] # NotTracked
    BY <1>0 DEF CallRec
<1>2. CASE rest = {}
    <2>1. call' = Idle
        BY <1>2 DEF Done
    <2>. QED BY <2>1, IdleCall, IdleCurrent
<1>3. CASE rest # {}
    <2>1. call' = [call EXCEPT !.op = "check", !.tx = 0, !.todo = rest]
        BY <1>3 DEF Done
    <2>. HIDE DEF rest
    <2>2. call' \in CallRec /\ call'.op = "check" /\ call'.todo = rest
        BY <1>0, <1>1, <2>1 DEF CallRec
    <2>3. \A u \in rest : pending'[u] # NotTracked
        BY <1>1
    <2>. QED BY <2>2, <2>3 DEF CallCurrent
<1>. QED BY <1>2, <1>3

(* A first submission is tracked. *)
LEMMA SubmitInv ==
    ASSUME BumpInv, NEW a \in Answers, SubmitSend(a)
    PROVE  BumpInv'
<1>0. BumpTypeOK /\ CallCurrent /\ \A u \in Txs : Tracking(u)
    BY DEF BumpInv
<1>1. PICK t \in Txs, fee \in Prices, latest \in Nat : t = call.tx /\ fee = call.fee /\ latest = call.latest
    <2>1. call \in CallRec
        BY <1>0 DEF BumpTypeOK
    <2>2. call.latest \in Nat
        BY <2>1 DEF CallRec
    <2>. QED BY <1>0, <2>2 DEF SubmitSend, CallCurrent
<1>1a. t \notin accepted /\ \A x \in offered : x.tx # t
    BY <1>0, <1>1 DEF SubmitSend, CallCurrent
<1>. DEFINE e == Envelope(t, fee)
            p == Track(fee, latest, 0)
<1>2. e \in [tx : Txs, fee : Prices] /\ e.tx = t /\ e.fee = fee
    BY <1>1 DEF Envelope
<1>3. Deliver(e, a)
    BY <1>1 DEF SubmitSend
<1>4. /\ accepted' = IF a \in {"pending", "confirmed"} THEN accepted \cup {t} ELSE accepted
      /\ pending' = IF a = "pending" THEN [pending EXCEPT ![t] = p] ELSE pending
      /\ call' = Idle /\ closed' = closed
    BY <1>1 DEF SubmitSend
<1>4a. fee \in Nat
    BY PricesFinite
<1>5. p \in PendingTransaction /\ p.fee = fee /\ p.attempts = 0
    BY <1>4a DEF Track, PendingTransaction
<1>6. Fees(t) = {}
    BY <1>1a DEF Fees
<1>7. pending[t] = NotTracked
    BY <1>0, <1>1, <1>6 DEF Tracking, Followed
<1>. HIDE DEF e, p
<1>8. /\ offered' = offered \cup {e} /\ offered' \subseteq [tx : Txs, fee : Prices]
      /\ waiting' \subseteq offered' /\ chosen' \in [Txs -> Nat] /\ sequence' \in Nat
      /\ \A u \in Txs : chosen[u] # 0 => chosen'[u] # 0
      /\ a = "confirmed" => chosen'[e.tx] # 0
      /\ Fees(e.tx)' = Fees(e.tx) \cup {e.fee}
      /\ \A u \in Txs : u # e.tx => Fees(u)' = Fees(u)
    BY <1>0, <1>2, <1>3, Delivered
<1>9. BumpTypeOK'
    BY <1>0, <1>1, <1>4, <1>5, <1>8, IdleCall DEF BumpTypeOK
<1>10. CallCurrent'
    BY <1>4, IdleCurrent
<1>11. ASSUME NEW u \in Txs PROVE Tracking(u)'
    <2>1. CASE u # t
        <3>1. Fees(u)' = Fees(u) /\ pending'[u] = pending[u] /\ (u \in accepted' => u \in accepted)
              /\ (chosen[u] # 0 => chosen'[u] # 0)
            BY <1>0, <1>2, <1>4, <1>8, <2>1 DEF BumpTypeOK
        <3>2. Tracking(u)
            BY <1>0
        <3>. QED BY <3>1, <3>2 DEF Tracking, Settled
    <2>2. CASE u = t
        <3>1. Fees(t)' = {fee}
            BY <1>2, <1>6, <1>8
        <3>2. CASE a = "pending"
            <4>1. pending'[t] = p /\ pending'[t] # NotTracked
                BY <1>0, <1>4, <1>5, <3>2, BumpAssumption DEF BumpTypeOK
            <4>2. Below({fee}, p.fee) = {}
                BY <1>4a, <1>5 DEF Below
            <4>3. Cardinality(Below({fee}, p.fee)) = 0
                BY <4>2, FS_EmptySet, Zenon
            <4>4. Followed({fee}, p)
                BY <1>4a, <1>5, <4>3, BumpAssumption DEF Followed, ValidStrategy
            <4>. QED BY <2>2, <3>1, <4>1, <4>4 DEF Tracking
        <3>3. CASE a # "pending"
            <4>1. pending'[t] = NotTracked
                BY <1>4, <1>7, <3>3
            <4>2. t \in accepted' => chosen'[t] # 0
                BY <1>1a, <1>2, <1>4, <1>8, <3>3
            <4>3. Cardinality(Fees(t)') = 1
                BY <3>1, FS_Singleton, Zenon
            <4>4. Cardinality(Fees(t)') <= max_attempts + 1
                BY <4>3, BumpAssumption DEF ValidStrategy
            <4>. QED BY <2>2, <4>1, <4>2, <4>4 DEF Tracking, Settled
        <3>. QED BY <3>2, <3>3
    <2>. QED BY <2>1, <2>2
<1>. QED BY <1>9, <1>10, <1>11 DEF BumpInv

(* A bump is sent: unanswered it is the one envelope above the record, and *)
(* answered it is the record.                                              *)
LEMMA FollowedBumped ==
    ASSUME NEW F \in SUBSET Prices, NEW p \in PendingTransaction, Followed(F, p),
           p.attempts < max_attempts, NEW n, n = NextFee(p.fee), n # 0
    PROVE  /\ n \in Prices
           /\ Followed(F \cup {n}, p)
           /\ \A q \in PendingTransaction :
                q.fee = n /\ q.attempts = p.attempts + 1 => Followed(F \cup {n}, q)
<1>. DEFINE f == p.fee
            k == p.attempts
            L == Below(F, f)
<1>0. max_attempts \in Nat
    BY BumpAssumption DEF ValidStrategy
<1>1. f \in Nat /\ k \in Nat
    BY DEF PendingTransaction
<1>2. f \in F /\ k < max_attempts /\ Cardinality(L) = k /\ F \subseteq Nat \ {0}
      /\ \A x \in F : x > f => x = n
    BY PricesFinite DEF Followed
<1>3. n \in Nat /\ n > f /\ n \in Prices
    BY <1>1, <1>2, NextFeeHigher
<1>4. Below(F \cup {n}, f) = L
    BY <1>1, <1>3 DEF Below
<1>5. Below(F \cup {n}, n) = L \cup {f} /\ f \notin L
    <2>1. \A x \in F \cup {n} : x < n <=> x < f \/ x = f
        BY <1>1, <1>2, <1>3
    <2>2. \A x : x \in Below(F \cup {n}, n) <=> x \in F \cup {n} /\ (x < f \/ x = f)
        BY <2>1 DEF Below
    <2>3. ~(f < f) /\ ~(n < f) /\ n # f
        BY <1>1, <1>3
    <2>4. \A x : x \in Below(F \cup {n}, n) <=> x \in L \/ x = f
        BY <1>2, <2>2, <2>3 DEF Below
    <2>5. f \notin L
        BY <2>3 DEF Below
    <2>. HIDE DEF L, f
    <2>. QED BY <2>4, <2>5
<1>6. IsFiniteSet(L)
    BY PricesFinite, FS_Subset DEF Below
<1>. HIDE DEF f, k, L
<1>7. Cardinality(L \cup {f}) = k + 1
    BY <1>2, <1>5, <1>6, FS_AddElement
<1>8. Followed(F \cup {n}, p)
    <2>1. Cardinality(Below(F \cup {n}, f)) = k
        BY <1>2, <1>4
    <2>. QED BY <1>0, <1>1, <1>2, <2>1 DEF Followed, f, k
<1>9. ASSUME NEW q \in PendingTransaction, q.fee = n, q.attempts = k + 1 PROVE Followed(F \cup {n}, q)
    <2>1. Cardinality(Below(F \cup {n}, q.fee)) = q.attempts
        BY <1>5, <1>7, <1>9
    <2>2. \A x \in F \cup {n} : ~(x > n)
        BY <1>1, <1>2, <1>3
    <2>3. q.attempts <= max_attempts
        BY <1>0, <1>1, <1>2, <1>9
    <2>. QED BY <1>9, <2>1, <2>2, <2>3 DEF Followed
<1>. QED BY <1>3, <1>8, <1>9 DEF k

(* A bump replaces the transaction that is tracked. *)
LEMMA BumpSendInv ==
    ASSUME BumpInv, NEW a \in Answers, BumpSend(a)
    PROVE  BumpInv'
<1>0. BumpTypeOK /\ CallCurrent /\ (\A u \in Txs : Tracking(u)) /\ call \in CallRec
    BY DEF BumpInv, BumpTypeOK
<1>a. /\ call.tx \in call.todo /\ call.latest \in Nat /\ call.todo \subseteq Txs /\ call.tx \in Txs
      /\ pending[call.tx].attempts < max_attempts
      /\ call.fee = NextFee(pending[call.tx].fee) /\ call.fee # 0
    BY <1>0 DEF CallRec, CallCurrent, BumpSend
<1>b. pending[call.tx] \in PendingTransaction /\ pending[call.tx] # NotTracked
    BY <1>0, <1>a DEF BumpTypeOK, CallCurrent
<1>c. PICK t \in Txs : t = call.tx
    BY <1>a
<1>d. PICK p \in PendingTransaction : p = pending[t]
    BY <1>b, <1>c
<1>e. PICK latest \in Nat : latest = call.latest
    BY <1>a
<1>f. PICK n : n = call.fee
    OBVIOUS
<1>1. /\ t = call.tx /\ t \in call.todo /\ p = pending[t] /\ p # NotTracked /\ p.attempts < max_attempts
      /\ n = NextFee(p.fee) /\ n # 0 /\ n = call.fee /\ latest = call.latest
    BY <1>a, <1>b, <1>c, <1>d, <1>e, <1>f
<1>2. Followed(Fees(t), p) /\ Fees(t) \in SUBSET Prices
    BY <1>0, <1>1, FeesArePrices DEF Tracking
<1>3. PICK F \in SUBSET Prices : F = Fees(t)
    BY <1>2
<1>. DEFINE e == Envelope(t, n)
            q == Track(n, latest, p.attempts + 1)
<1>4. /\ n \in Prices /\ Followed(F \cup {n}, p)
      /\ \A x \in PendingTransaction : x.fee = n /\ x.attempts = p.attempts + 1 => Followed(F \cup {n}, x)
    BY <1>1, <1>2, <1>3, FollowedBumped
<1>5. e \in [tx : Txs, fee : Prices] /\ e.tx = t /\ e.fee = n
    BY <1>4 DEF Envelope
<1>6. q \in PendingTransaction /\ q.fee = n /\ q.attempts = p.attempts + 1
    <2>1. p.attempts \in Nat /\ n \in Nat
        BY <1>4, PricesFinite DEF PendingTransaction
    <2>. QED BY <2>1 DEF Track, PendingTransaction
<1>7. Deliver(e, a) /\ UNCHANGED <<closed, accepted>> /\ call.op = "send"
    BY <1>1 DEF BumpSend
<1>8. /\ a = "pending" => pending' = [pending EXCEPT ![t] = q] /\ Done(t)
      /\ a = "confirmed" => pending' = [pending EXCEPT ![t] = NotTracked] /\ Done(t)
      /\ a \notin {"pending", "confirmed"} => pending' = pending /\ call' = Idle
    BY <1>1 DEF BumpSend, Forget, Abort
<1>. HIDE DEF e, q
<1>9. /\ offered' = offered \cup {e} /\ offered' \subseteq [tx : Txs, fee : Prices]
      /\ waiting' \subseteq offered' /\ chosen' \in [Txs -> Nat] /\ sequence' \in Nat
      /\ \A u \in Txs : chosen[u] # 0 => chosen'[u] # 0
      /\ a = "confirmed" => chosen'[e.tx] # 0
      /\ Fees(e.tx)' = Fees(e.tx) \cup {e.fee}
      /\ \A u \in Txs : u # e.tx => Fees(u)' = Fees(u)
    BY <1>0, <1>5, <1>7, Delivered
<1>10. Fees(t)' = F \cup {n} /\ \A u \in Txs : u # t => Fees(u)' = Fees(u)
    BY <1>3, <1>5, <1>9
<1>11. /\ pending' \in [Txs -> PendingTransaction \cup {NotTracked}]
       /\ \A u \in Txs : u # t => pending'[u] = pending[u]
       /\ a = "pending" => pending'[t] = q
       /\ a = "confirmed" => pending'[t] = NotTracked
       /\ a \notin {"pending", "confirmed"} => pending'[t] = p
    BY <1>0, <1>1, <1>6, <1>8 DEF BumpTypeOK
<1>12. call' \in CallRec /\ CallCurrent'
    <2>1. CASE a \in {"pending", "confirmed"}
        BY <1>7, <1>8, <1>11, <2>1, DoneCurrent
    <2>2. CASE a \notin {"pending", "confirmed"}
        BY <1>8, <2>2, IdleCall, IdleCurrent
    <2>. QED BY <2>1, <2>2
<1>13. BumpTypeOK'
    BY <1>0, <1>7, <1>9, <1>11, <1>12 DEF BumpTypeOK
<1>14. ASSUME NEW u \in Txs PROVE Tracking(u)'
    <2>1. CASE u # t
        <3>1. Tracking(u) /\ Fees(u)' = Fees(u) /\ pending'[u] = pending[u] /\ accepted' = accepted
              /\ (chosen[u] # 0 => chosen'[u] # 0)
            BY <1>0, <1>7, <1>9, <1>10, <1>11, <2>1
        <3>. QED BY <3>1 DEF Tracking, Settled
    <2>2. CASE u = t /\ a = "pending"
        <3>1. Followed(F \cup {n}, q) /\ pending'[t] = q /\ q # NotTracked
            BY <1>4, <1>6, <1>11, <2>2, BumpAssumption
        <3>. QED BY <1>10, <2>2, <3>1 DEF Tracking
    <2>3. CASE u = t /\ a = "confirmed"
        <3>1. F \cup {n} \in SUBSET Prices
            BY <1>4
        <3>2. Cardinality(F \cup {n}) <= max_attempts + 1
            BY <1>4, <3>1, FollowedBound
        <3>3. Cardinality(Fees(t)') <= max_attempts + 1
            BY <1>10, <3>2
        <3>4. chosen'[t] # 0 /\ pending'[t] = NotTracked
            BY <1>5, <1>9, <1>11, <2>3
        <3>. QED BY <2>3, <3>3, <3>4 DEF Tracking, Settled
    <2>4. CASE u = t /\ a \notin {"pending", "confirmed"}
        <3>1. pending'[t] = p /\ p # NotTracked
            BY <1>1, <1>11, <2>4
        <3>. QED BY <1>4, <1>10, <2>4, <3>1 DEF Tracking
    <2>. QED BY <2>1, <2>2, <2>3, <2>4
<1>. QED BY <1>12, <1>13, <1>14 DEF BumpInv

(* A status check settles only what the ledger settled. *)
LEMMA CheckStatusInv ==
    ASSUME BumpInv, NEW t \in call.todo, NEW found \in BOOLEAN, CheckStatus(t, found)
    PROVE  BumpInv'
<1>0. BumpTypeOK /\ CallCurrent /\ (\A u \in Txs : Tracking(u)) /\ call \in CallRec
    BY DEF BumpInv, BumpTypeOK
<1>1. /\ call.op = "check" /\ t \in call.todo /\ t \in Txs
      /\ UNCHANGED <<closed, sequence, offered, waiting, chosen, accepted>>
    BY <1>0 DEF CheckStatus, CallRec
<1>2. CASE found
    <2>1. pending' = [pending EXCEPT ![t] = NotTracked] /\ Done(t) /\ chosen[t] # 0
        BY <1>2 DEF CheckStatus, Forget, Settled
    <2>2. /\ pending' \in [Txs -> PendingTransaction \cup {NotTracked}] /\ pending'[t] = NotTracked
          /\ \A u \in Txs : u # t => pending'[u] = pending[u]
        BY <1>0, <1>1, <2>1 DEF BumpTypeOK
    <2>3. call' \in CallRec /\ CallCurrent'
        BY <1>1, <2>1, <2>2, DoneCurrent
    <2>4. BumpTypeOK'
        BY <1>0, <1>1, <2>2, <2>3 DEF BumpTypeOK
    <2>5. ASSUME NEW u \in Txs PROVE Tracking(u)'
        <3>0. Fees(u)' = Fees(u)
            BY <1>1 DEF Fees
        <3>1. CASE u # t
            <4>1. Tracking(u) /\ pending'[u] = pending[u]
                BY <1>0, <2>2, <3>1
            <4>. QED BY <1>1, <3>0, <4>1 DEF Tracking, Settled
        <3>2. CASE u = t
            <4>1. pending[t] \in PendingTransaction /\ Followed(Fees(t), pending[t]) /\ Fees(t) \in SUBSET Prices
                BY <1>0, <1>1, FeesArePrices DEF Tracking, CallCurrent, BumpTypeOK
            <4>2. Cardinality(Fees(t)) <= max_attempts + 1
                BY <4>1, FollowedBound
            <4>. QED BY <1>1, <2>1, <2>2, <3>0, <3>2, <4>2 DEF Tracking, Settled
        <3>. QED BY <3>1, <3>2
    <2>. QED BY <2>3, <2>4, <2>5 DEF BumpInv
<1>3. CASE ~found
    <2>1. UNCHANGED pending
        BY <1>3 DEF CheckStatus
    <2>2. CASE Done(t)
        <3>1. call' \in CallRec /\ CallCurrent'
            BY <1>1, <2>1, <2>2, DoneCurrent
        <3>. QED BY <1>1, <2>1, <3>1, CallOnly
    <2>3. CASE Abort
        <3>1. call' \in CallRec /\ CallCurrent'
            BY <2>3, IdleCall, IdleCurrent DEF Abort
        <3>. QED BY <1>1, <2>1, <3>1, CallOnly
    <2>4. CASE ~(pending[t].attempts >= max_attempts) /\ call' = [call EXCEPT !.op = "bump", !.tx = t]
        <3>1. t \in Nat /\ pending[t] \in PendingTransaction
            BY <1>0, <1>1 DEF Txs, CallCurrent, BumpTypeOK
        <3>2. pending[t].attempts \in Nat /\ max_attempts \in Nat
            BY <3>1, BumpAssumption DEF PendingTransaction, ValidStrategy
        <3>3. call' \in CallRec /\ call'.op = "bump" /\ call'.tx = t /\ call'.todo = call.todo
            BY <1>0, <2>4, <3>1 DEF CallRec
        <3>4. CallCurrent'
            BY <1>0, <1>1, <2>1, <2>4, <3>2, <3>3 DEF CallCurrent
        <3>. QED BY <1>1, <2>1, <3>3, <3>4, CallOnly
    <2>. QED BY <1>3, <2>2, <2>3, <2>4 DEF CheckStatus
<1>. QED BY <1>2, <1>3

(* Starting a submission keeps the invariant. *)
LEMMA BumpSubmitStartInv ==
    ASSUME BumpInv, NEW t \in Txs, NEW fee \in BaseFees, SubmitStart(t, fee)
    PROVE  BumpInv'
<1>1. /\ t \notin accepted /\ (\A e \in offered : e.tx # t) /\ fee <= max_fee_strops
      /\ call' = [Idle EXCEPT !.op = "ledger", !.tx = t, !.fee = fee]
      /\ UNCHANGED <<closed, sequence, offered, waiting, chosen, pending, accepted>>
    BY DEF SubmitStart
<1>2. t \in Nat /\ fee \in Nat /\ fee \in Prices
    BY <1>1, BumpAssumption DEF Txs, ValidStrategy, Prices
<1>3. call' \in CallRec /\ call'.op = "ledger" /\ call'.tx = t /\ call'.fee = fee /\ call'.todo = {}
    BY <1>1, <1>2, IdleCall DEF CallRec
<1>4. CallCurrent'
    BY <1>1, <1>2, <1>3 DEF CallCurrent
<1>. QED BY <1>1, <1>3, <1>4, CallOnly

(* Reading the ledger for it keeps the invariant. *)
LEMMA BumpSubmitLedgerInv ==
    ASSUME BumpInv, SubmitLedger
    PROVE  BumpInv'
<1>1. /\ call.op = "ledger" /\ call' = [call EXCEPT !.op = "submit", !.latest = closed]
      /\ UNCHANGED <<closed, sequence, offered, waiting, chosen, pending, accepted>>
    BY DEF SubmitLedger
<1>2. CallCurrent /\ call \in CallRec /\ closed \in Nat
    BY DEF BumpInv, BumpTypeOK
<1>3. /\ call' \in CallRec /\ call'.op = "submit" /\ call'.tx = call.tx /\ call'.fee = call.fee
      /\ call'.todo = call.todo
    BY <1>1, <1>2 DEF CallRec
<1>4. CallCurrent'
    BY <1>1, <1>2, <1>3 DEF CallCurrent
<1>. QED BY <1>1, <1>3, <1>4, CallOnly

(* Starting a check keeps the invariant. *)
LEMMA CheckStartInv ==
    ASSUME BumpInv, CheckStart
    PROVE  BumpInv'
<1>. DEFINE S == {t \in Txs : pending[t] # NotTracked}
<1>1. /\ call' = [Idle EXCEPT !.op = "check", !.latest = closed, !.todo = S]
      /\ UNCHANGED <<closed, sequence, offered, waiting, chosen, pending, accepted>>
    BY DEF CheckStart
<1>2. S \subseteq Txs /\ \A t \in S : pending[t] # NotTracked
    OBVIOUS
<1>3. closed \in Nat
    BY DEF BumpInv, BumpTypeOK
<1>. HIDE DEF S
<1>4. call' \in CallRec /\ call'.op = "check" /\ call'.todo = S
    BY <1>1, <1>2, <1>3, IdleCall DEF CallRec
<1>5. CallCurrent'
    BY <1>1, <1>2, <1>4 DEF CallCurrent
<1>. QED BY <1>1, <1>4, <1>5, CallOnly

(* Deciding whether to bump keeps the invariant. *)
LEMMA BumpCheckInv ==
    ASSUME BumpInv, BumpCheck
    PROVE  BumpInv'
<1>1. /\ call.op = "bump"
      /\ UNCHANGED <<closed, sequence, offered, waiting, chosen, pending, accepted>>
    BY DEF BumpCheck
<1>2. CallCurrent /\ call \in CallRec
    BY DEF BumpInv, BumpTypeOK
<1>3. CASE Abort
    <2>1. call' \in CallRec /\ CallCurrent'
        BY <1>3, IdleCall, IdleCurrent DEF Abort
    <2>. QED BY <1>1, <2>1, CallOnly
<1>4. CASE /\ NextFee(pending[call.tx].fee) # 0
           /\ call' = [call EXCEPT !.op = "send", !.fee = NextFee(pending[call.tx].fee)]
    <2>. DEFINE n == NextFee(pending[call.tx].fee)
    <2>1. call.tx \in call.todo /\ call.tx \in Txs /\ pending[call.tx] # NotTracked
        BY <1>1, <1>2 DEF CallCurrent, CallRec
    <2>2. pending[call.tx] \in PendingTransaction
        BY <2>1 DEF BumpInv, BumpTypeOK
    <2>3. pending[call.tx].fee \in Nat
        BY <2>2 DEF PendingTransaction
    <2>4. n \in Nat
        BY <2>3, BumpAssumption DEF ValidStrategy, NextFee, Larger
    <2>5. n # 0 /\ call' = [call EXCEPT !.op = "send", !.fee = n]
        BY <1>4
    <2>6. n = NextFee(pending[call.tx].fee)
        OBVIOUS
    <2>. HIDE DEF n
    <2>7. call' \in CallRec /\ call'.op = "send" /\ call'.tx = call.tx /\ call'.fee = n /\ call'.todo = call.todo
        BY <1>2, <2>4, <2>5 DEF CallRec
    <2>8. CallCurrent'
        BY <1>1, <1>2, <2>5, <2>6, <2>7 DEF CallCurrent
    <2>. QED BY <1>1, <2>7, <2>8, CallOnly
<1>. QED BY <1>3, <1>4 DEF BumpCheck

(* Closing a ledger keeps the invariant. *)
LEMMA BumpCloseInv ==
    ASSUME BumpInv, CloseLedger
    PROVE  BumpInv'
<1>0. BumpTypeOK /\ CallCurrent /\ \A u \in Txs : Tracking(u)
    BY DEF BumpInv
<1>1. UNCHANGED <<offered, pending, accepted, call>> /\ closed' = closed + 1
    BY DEF CloseLedger
<1>2. \A e \in offered : e.tx \in Txs /\ e.tx \in Nat /\ e.fee \in Nat /\ e.fee # 0
    BY <1>0, BumpAssumption DEF BumpTypeOK, Txs, Prices, ValidStrategy
<1>3. /\ waiting' \subseteq offered /\ chosen' \in [Txs -> Nat] /\ sequence' \in Nat
      /\ \A t \in Txs : chosen[t] # 0 => chosen'[t] # 0
    BY <1>0, <1>2 DEF CloseLedger, BumpTypeOK
<1>4. BumpTypeOK'
    BY <1>0, <1>1, <1>3 DEF BumpTypeOK
<1>5. CallCurrent'
    BY <1>0, <1>1 DEF CallCurrent
<1>6. \A t \in Txs : Tracking(t)'
    BY <1>0, <1>1, <1>3, TrackingFrame
<1>. QED BY <1>4, <1>5, <1>6 DEF BumpInv

(* Every step keeps the invariant. *)
LEMMA BumpNextInv ==
    ASSUME BumpInv, [BumpNext]_bumpVars
    PROVE  BumpInv'
<1>1. CASE ReadFails
    <2>1. call' \in CallRec /\ CallCurrent'
        BY <1>1, IdleCall, IdleCurrent DEF ReadFails, Abort
    <2>. QED BY <1>1, <2>1, CallOnly DEF ReadFails
<1>2. CASE UNCHANGED bumpVars
    <2>1. UNCHANGED <<closed, sequence, offered, waiting, chosen, pending, accepted>> /\ call' = call
        BY <1>2 DEF bumpVars
    <2>2. call' \in CallRec /\ CallCurrent'
        BY <2>1 DEF BumpInv, BumpTypeOK, CallCurrent
    <2>. QED BY <2>1, <2>2, CallOnly
<1>3. CASE \E t \in Txs, fee \in BaseFees : SubmitStart(t, fee)
    BY <1>3, BumpSubmitStartInv
<1>4. CASE \E a \in Answers : SubmitSend(a)
    BY <1>4, SubmitInv
<1>5. CASE \E a \in Answers : BumpSend(a)
    BY <1>5, BumpSendInv
<1>6. CASE \E t \in call.todo, found \in BOOLEAN : CheckStatus(t, found)
    <2>. PICK t \in call.todo, found \in BOOLEAN : CheckStatus(t, found)
        BY <1>6
    <2>. QED BY CheckStatusInv
<1>. QED BY <1>1, <1>2, <1>3, <1>4, <1>5, <1>6, BumpSubmitLedgerInv, CheckStartInv, BumpCheckInv,
            BumpCloseInv DEF BumpNext

(* What the invariant says of a followed transaction. *)
LEMMA FollowedTracked ==
    ASSUME NEW F \in SUBSET Prices, NEW p \in PendingTransaction, Followed(F, p)
    PROVE  /\ p.fee \in F
           /\ Cardinality({x \in F : x > p.fee}) <= 1
           /\ Cardinality({x \in F : x < p.fee}) = p.attempts
<1>. DEFINE H == {x \in F : x > p.fee}
            n == NextFee(p.fee)
<1>1. p.fee \in F /\ H \subseteq {n} /\ Cardinality(Below(F, p.fee)) = p.attempts
    BY DEF Followed
<1>2. H = {} \/ H = {n}
    BY <1>1
<1>3. Cardinality(H) = 0 \/ Cardinality(H) = 1
    BY <1>2, FS_EmptySet, FS_Singleton, Zenon
<1>4. Cardinality(H) <= 1
    BY <1>3
<1>. QED BY <1>1, <1>4 DEF Below

(* Every transaction that submit accepted is followed until its number is  *)
(* used, its envelopes stay under the fee cap and the number of attempts,  *)
(* and the entry's fee and attempts are those of the envelopes that were   *)
(* answered: for any strategy, any fees callers offer and any losses.      *)
THEOREM BumpsAlwaysTracked == BumpSpec => []BumpsTracked
<1>1. BumpInv => BumpsTracked
    <2>. SUFFICES ASSUME BumpInv, NEW t \in Txs
                  PROVE  /\ t \in accepted /\ pending[t] = NotTracked => Settled(t)
                         /\ \A fee \in Fees(t) : fee <= max_fee_strops
                         /\ Cardinality(Fees(t)) <= max_attempts + 1
                         /\ pending[t] # NotTracked =>
                              /\ Envelope(t, pending[t].fee) \in offered
                              /\ Cardinality({fee \in Fees(t) : fee > pending[t].fee}) <= 1
                              /\ Cardinality({fee \in Fees(t) : fee < pending[t].fee}) = pending[t].attempts
        BY DEF BumpsTracked
    <2>1. BumpTypeOK /\ Tracking(t) /\ Fees(t) \in SUBSET Prices
        BY FeesArePrices DEF BumpInv
    <2>2. \A fee \in Fees(t) : fee <= max_fee_strops
        BY <2>1, BumpAssumption DEF Prices, ValidStrategy
    <2>3. CASE pending[t] = NotTracked
        BY <2>1, <2>2, <2>3 DEF Tracking
    <2>4. CASE pending[t] # NotTracked
        <3>1. pending[t] \in PendingTransaction /\ Followed(Fees(t), pending[t])
            BY <2>1, <2>4 DEF BumpTypeOK, Tracking
        <3>2. /\ pending[t].fee \in Fees(t)
              /\ Cardinality({fee \in Fees(t) : fee > pending[t].fee}) <= 1
              /\ Cardinality({fee \in Fees(t) : fee < pending[t].fee}) = pending[t].attempts
            BY <2>1, <3>1, FollowedTracked
        <3>3. Cardinality(Fees(t)) <= max_attempts + 1
            BY <2>1, <3>1, FollowedBound
        <3>4. Envelope(t, pending[t].fee) \in offered
            <4>1. PICK e \in offered : e.tx = t /\ e.fee = pending[t].fee
                BY <3>2 DEF Fees
            <4>2. e \in [tx : Txs, fee : Prices]
                BY <2>1 DEF BumpTypeOK
            <4>3. e = Envelope(t, pending[t].fee)
                BY <4>1, <4>2 DEF Envelope
            <4>. QED BY <4>3
        <3>. QED BY <2>2, <2>4, <3>2, <3>3, <3>4
    <2>. QED BY <2>3, <2>4
<1>. QED BY <1>1, BumpInitInv, BumpNextInv, PTL DEF BumpSpec

------------------------------------------------------------------------------
(* The schema cache.                                                       *)

CacheThread ==
    [phase : {"idle", "fetching", "fetched", "answered"}, uid : SchemaUids \cup {Missing},
     value : RegistryAnswers \cup {Missing}, at : Nat, took : Nat]

CacheTypeOK ==
    /\ instant \in Nat
    /\ registered \in [SchemaUids -> RegistryAnswers]
    /\ ceased \in [SchemaUids -> [RegistryAnswers -> Nat \cup {Missing}]]
    /\ entries \in [SchemaUids -> CacheEntry \cup {Missing}]
    /\ lru \in Seq(SchemaUids)
    /\ thread \in [Threads -> CacheThread]

(* s lists the members of S, each once, in at most `capacity` places. *)
Recency(s, S) ==
    /\ s \in Seq(SchemaUids) /\ Len(s) <= capacity
    /\ \A i \in 1..Len(s) : s[i] \in S
    /\ \A u \in S : \E i \in 1..Len(s) : s[i] = u
    /\ \A i, j \in 1..Len(s) : s[i] = s[j] => i = j

(* The answer of the registry has not ceased, nor have the later ones. *)
OneWay ==
    \A u \in SchemaUids :
      /\ ceased[u]["deprecated"] = Missing
      /\ registered[u] # "deprecated" => ceased[u]["active"] = Missing
      /\ registered[u] = "unknown" => ceased[u]["unknown"] = Missing

(* Recent enough, also if the registry stops saying so now. *)
Recent(u, value, span, now) == SaidWithin(u, value, span, now) /\ now <= instant + span

(* A thread carries an answer no older than its fetch, and a caller's      *)
(* answer is recent.                                                       *)
ThreadRecent(th) ==
    /\ th.phase # "idle" => th.uid \in SchemaUids
    /\ th.phase \in {"fetched", "answered"} => th.value \in RegistryAnswers
    /\ th.phase = "fetched" => Recent(th.uid, th.value, 0, th.at)
    /\ th.phase = "answered" => Recent(th.uid, th.value, th.took + ttl, th.at)

EntryRecent(u, e) ==
    e.value # "deprecated" /\ Recent(u, e.value, e.took + ttl, e.expires_at)

CacheInv ==
    /\ CacheTypeOK /\ OneWay
    /\ Recency(lru, Cached)
    /\ \A u \in Cached : EntryRecent(u, entries[u])
    /\ \A t \in Threads : ThreadRecent(thread[t])

LEMMA RestingType == Resting \in CacheThread /\ Resting.phase = "idle"
BY DEF Resting, CacheThread

LEMMA CacheInitInv == CacheInit => CacheInv
<1>. SUFFICES ASSUME CacheInit PROVE CacheInv
    OBVIOUS
<1>1. CacheTypeOK
    BY RestingType DEF CacheInit, CacheTypeOK, RegistryAnswers
<1>2. Cached = {} /\ Len(lru) = 0 /\ lru \in Seq(SchemaUids)
    BY DEF CacheInit, Cached
<1>3. Recency(lru, Cached)
    BY <1>2, CacheAssumption DEF Recency
<1>4. OneWay
    BY DEF CacheInit, OneWay, RegistryAnswers
<1>5. \A t \in Threads : ThreadRecent(thread[t])
    BY RestingType DEF CacheInit, ThreadRecent
<1>. QED BY <1>1, <1>2, <1>3, <1>4, <1>5 DEF CacheInv

(* retain: u goes, the others stay, and a place is free if u was there. *)
LEMMA WithoutLists ==
    ASSUME NEW s, NEW S, Recency(s, S), NEW u
    PROVE  /\ Recency(Without(s, u), S \ {u})
           /\ Len(Without(s, u)) \in Nat
           /\ u \in S => Len(Without(s, u)) < capacity
<1>. DEFINE P == {i \in 1..Len(s) : s[i] # u}
            w == Without(s, u)
            n == Cardinality(P)
            p == InOrder(P)
<1>1. s \in Seq(SchemaUids) /\ Len(s) \in Nat /\ Len(s) <= capacity /\ capacity \in Nat
    BY CacheAssumption DEF Recency
<1>2. /\ p \in [1..n -> P] /\ n \in Nat /\ n <= Len(s) /\ Kept(s, P) \in Seq(SchemaUids) /\ Len(Kept(s, P)) = n
      /\ \A i \in 1..n : Kept(s, P)[i] = s[p[i]]
      /\ \A i, j \in 1..n : i < j => p[i] < p[j]
      /\ \A x \in P : \E i \in 1..n : p[i] = x
    <2>1. P \in SUBSET (1..Len(s))
        OBVIOUS
    <2>. HIDE DEF P
    <2>. QED BY <1>1, <2>1, KeptLists
<1>3. w = Kept(s, P)
    BY DEF Without
<1>. HIDE DEF p
<1>4. \A i \in 1..n : p[i] \in 1..Len(s) /\ s[p[i]] # u /\ p[i] \in Nat
    BY <1>2
<1>5. \A i \in 1..Len(s) : s[i] # u => i \in P
    OBVIOUS
<1>6. u \in S => n < capacity
    <2>. SUFFICES ASSUME u \in S PROVE n < capacity
        OBVIOUS
    <2>1. PICK k \in 1..Len(s) : s[k] = u
        BY DEF Recency
    <2>2. P \in SUBSET ((1..Len(s)) \ {k})
        BY <2>1
    <2>3. IsFiniteSet(1..Len(s)) /\ Cardinality(1..Len(s)) = Len(s)
        BY <1>1, UpToFinite
    <2>4. IsFiniteSet((1..Len(s)) \ {k}) /\ Cardinality((1..Len(s)) \ {k}) = Len(s) - 1
        BY <2>3, FS_RemoveElement
    <2>. HIDE DEF P
    <2>5. n <= Cardinality((1..Len(s)) \ {k})
        BY <2>2, <2>4, FS_Subset
    <2>. QED BY <1>1, <1>2, <2>4, <2>5
<1>. HIDE DEF P, n, w
<1>7. w \in Seq(SchemaUids) /\ Len(w) = n /\ n <= capacity
    BY <1>1, <1>2, <1>3
<1>8. ASSUME NEW i \in 1..n PROVE w[i] \in S \ {u}
    BY <1>2, <1>3, <1>4 DEF Recency
<1>9. ASSUME NEW v \in S \ {u} PROVE \E i \in 1..n : w[i] = v
    <2>1. PICK k \in 1..Len(s) : s[k] = v
        BY DEF Recency
    <2>2. PICK i \in 1..n : p[i] = k
        BY <1>2, <1>5, <2>1
    <2>. QED BY <1>2, <1>3, <2>1, <2>2
<1>10. ASSUME NEW i \in 1..n, NEW j \in 1..n, w[i] = w[j] PROVE i = j
    <2>1. s[p[i]] = s[p[j]] /\ p[i] \in 1..Len(s) /\ p[j] \in 1..Len(s)
        BY <1>2, <1>3, <1>4, <1>10
    <2>2. p[i] = p[j]
        BY <2>1 DEF Recency
    <2>3. ~(i < j) /\ ~(j < i)
        BY <1>2, <1>4, <2>2
    <2>4. i \in Nat /\ j \in Nat
        BY <1>2
    <2>. QED BY <2>3, <2>4
<1>11. Recency(w, S \ {u})
    BY <1>7, <1>8, <1>9, <1>10 DEF Recency
<1>. QED BY <1>2, <1>6, <1>7, <1>11 DEF w

(* The last place. *)
LEMMA AppendLists ==
    ASSUME NEW s, NEW S, Recency(s, S), NEW u \in SchemaUids, u \notin S, Len(s) < capacity
    PROVE  Recency(Append(s, u), S \cup {u})
<1>. DEFINE a == Append(s, u)
            n == Len(s)
<1>1. s \in Seq(SchemaUids) /\ n \in Nat /\ capacity \in Nat
    BY CacheAssumption DEF Recency
<1>2. a \in Seq(SchemaUids) /\ Len(a) = n + 1 /\ a[n + 1] = u /\ \A i \in 1..n : a[i] = s[i]
    BY <1>1
<1>. HIDE DEF a
<1>3. /\ \A i \in 1..n : s[i] \in S
      /\ \A v \in S : \E i \in 1..n : s[i] = v
      /\ \A i, j \in 1..n : s[i] = s[j] => i = j
    BY DEF Recency
<1>. HIDE DEF n
<1>4. \A i \in 1..(n + 1) : i \in 1..n \/ i = n + 1
    BY <1>1
<1>4a. \A i \in 1..n : i \in 1..(n + 1)
    BY <1>1
<1>4b. n + 1 \in 1..(n + 1) /\ n + 1 <= capacity
    BY <1>1 DEF n
<1>5. \A i \in 1..Len(a) : a[i] \in S \cup {u}
    BY <1>2, <1>3, <1>4
<1>6. \A v \in S \cup {u} : \E i \in 1..Len(a) : a[i] = v
    BY <1>2, <1>3, <1>4a, <1>4b
<1>7. ASSUME NEW i \in 1..Len(a), NEW j \in 1..Len(a), a[i] = a[j] PROVE i = j
    BY <1>2, <1>3, <1>4, <1>7
<1>. QED BY <1>2, <1>4b, <1>5, <1>6, <1>7 DEF Recency, a

(* Dropping the oldest. *)
LEMMA SuffixLists ==
    ASSUME NEW s, NEW S, Recency(s, S), NEW m \in 1..(Len(s) + 1), NEW k, k = SubSeq(s, m, Len(s))
    PROVE  /\ Recency(k, ToSet(k)) /\ ToSet(k) \subseteq S
           /\ Len(k) = Len(s) - m + 1
<1>. DEFINE n == Len(s)
<1>1. s \in Seq(SchemaUids) /\ n \in Nat /\ m \in Nat /\ m <= n + 1 /\ m >= 1 /\ capacity \in Nat
    BY CacheAssumption DEF Recency
<1>2. /\ k \in Seq(SchemaUids) /\ Len(k) = n - m + 1 /\ Len(k) \in Nat
      /\ \A i \in 1..Len(k) : k[i] = s[i + m - 1]
    BY <1>1
<1>3. \A i \in 1..Len(k) : (i + m - 1) \in 1..n
    BY <1>1, <1>2
<1>4. ToSet(k) = {k[i] : i \in 1..Len(k)}
    <2>1. DOMAIN k = 1..Len(k)
        BY <1>2
    <2>. QED BY <2>1 DEF ToSet
<1>5. ToSet(k) \subseteq S
    BY <1>2, <1>3, <1>4 DEF Recency
<1>6. ASSUME NEW i \in 1..Len(k), NEW j \in 1..Len(k), k[i] = k[j] PROVE i = j
    <2>1. s[i + m - 1] = s[j + m - 1]
        BY <1>2, <1>6
    <2>2. i + m - 1 = j + m - 1
        BY <1>3, <2>1 DEF Recency
    <2>. QED BY <1>1, <1>2, <2>2
<1>7. Len(k) <= capacity
    BY <1>1, <1>2 DEF Recency
<1>. QED BY <1>2, <1>4, <1>5, <1>6, <1>7 DEF Recency

LEMMA RecencyStart == ASSUME NEW s, NEW S, Recency(s, S) PROVE Len(s) \in Nat /\ S \subseteq SchemaUids
BY DEF Recency

(* remove_entry *)
LEMMA RemoveEntryCoherent ==
    ASSUME CacheInv, NEW u \in SchemaUids, RemoveEntry(u), UNCHANGED <<instant, ceased>>
    PROVE  /\ entries' \in [SchemaUids -> CacheEntry \cup {Missing}] /\ lru' \in Seq(SchemaUids)
           /\ Recency(lru', Cached')
           /\ \A v \in Cached' : EntryRecent(v, entries'[v])
<1>1. entries \in [SchemaUids -> CacheEntry \cup {Missing}] /\ Recency(lru, Cached)
    BY DEF CacheInv, CacheTypeOK
<1>2. entries' = [entries EXCEPT ![u] = Missing] /\ lru' = Without(lru, u)
    BY DEF RemoveEntry
<1>3. Cached' = Cached \ {u}
    BY <1>1, <1>2 DEF Cached
<1>4. Recency(lru', Cached')
    BY <1>1, <1>2, <1>3, WithoutLists
<1>5. \A v \in Cached' : v \in Cached /\ entries'[v] = entries[v]
    BY <1>1, <1>2, <1>3 DEF Cached
<1>6. \A v \in Cached : EntryRecent(v, entries[v])
    BY DEF CacheInv
<1>7. entries' \in [SchemaUids -> CacheEntry \cup {Missing}]
    BY <1>1, <1>2
<1>8. \A v \in Cached' : EntryRecent(v, entries'[v])
    BY <1>5, <1>6
<1>. QED BY <1>4, <1>7, <1>8 DEF Recency

(* insert_encoded *)
LEMMA InsertEncodedCoherent ==
    ASSUME CacheInv, capacity # 0, NEW u \in SchemaUids, NEW value \in RegistryAnswers,
           value # "deprecated", NEW took \in Nat, InsertEncoded(u, value, took),
           Recent(u, value, took + ttl, instant + ttl)
    PROVE  /\ entries' \in [SchemaUids -> CacheEntry \cup {Missing}] /\ lru' \in Seq(SchemaUids)
           /\ Recency(lru', Cached')
           /\ \A v \in Cached' : EntryRecent(v, entries'[v])
<1>. DEFINE left == Without(lru, u)
            kept == IF Len(left) >= capacity THEN SubSeq(left, Len(left) - capacity + 2, Len(left))
                    ELSE left
            new == [value |-> value, expires_at |-> instant + ttl, took |-> took]
<1>1. /\ entries \in [SchemaUids -> CacheEntry \cup {Missing}] /\ Recency(lru, Cached) /\ instant \in Nat
      /\ \A v \in Cached : EntryRecent(v, entries[v])
    BY DEF CacheInv, CacheTypeOK
<1>2. /\ entries' = [v \in SchemaUids |-> IF v = u THEN new ELSE IF v \in ToSet(kept) THEN entries[v] ELSE Missing]
      /\ lru' = Append(kept, u)
    BY DEF InsertEncoded
<1>3. new \in CacheEntry /\ new # Missing /\ EntryRecent(u, new)
    <2>1. instant + ttl \in Nat
        BY <1>1, CacheAssumption
    <2>2. new \in CacheEntry
        BY <2>1 DEF CacheEntry
    <2>3. EntryRecent(u, new)
        BY DEF EntryRecent
    <2>. QED BY <2>2, <2>3, CacheAssumption
<1>4. Recency(left, Cached \ {u}) /\ Len(left) \in Nat /\ capacity \in Nat \ {0} /\ Len(left) <= capacity
    <2>1. Recency(left, Cached \ {u}) /\ Len(left) \in Nat
        BY <1>1, WithoutLists
    <2>. HIDE DEF left
    <2>. QED BY <2>1, CacheAssumption DEF Recency
<1>. HIDE DEF left
<1>5. Recency(kept, ToSet(kept)) /\ ToSet(kept) \subseteq Cached \ {u} /\ Len(kept) < capacity
    <2>1. CASE Len(left) >= capacity
        <3>1. kept = SubSeq(left, Len(left) - capacity + 2, Len(left)) /\ Len(left) - capacity + 2 = 2
              /\ 2 \in 1..(Len(left) + 1)
            BY <1>4, <2>1
        <3>. HIDE DEF kept
        <3>2. kept = SubSeq(left, 2, Len(left))
            BY <3>1
        <3>3. Recency(kept, ToSet(kept)) /\ ToSet(kept) \subseteq Cached \ {u} /\ Len(kept) = Len(left) - 2 + 1
            BY <1>4, <3>1, <3>2, SuffixLists
        <3>. QED BY <1>4, <3>3
    <2>2. CASE Len(left) < capacity
        <3>1. kept = left
            BY <1>4, <2>2
        <3>. HIDE DEF kept
        <3>2. ToSet(kept) = Cached \ {u}
            BY <1>4, <3>1 DEF ToSet, Recency
        <3>. QED BY <1>4, <2>2, <3>1, <3>2
    <2>. QED BY <1>4, <2>1, <2>2
<1>. HIDE DEF kept, new
<1>6. Cached' = ToSet(kept) \cup {u}
    <2>1. ASSUME NEW v \in SchemaUids PROVE entries'[v] # Missing <=> v \in ToSet(kept) \cup {u}
        BY <1>2, <1>3, <1>5 DEF Cached
    <2>2. ToSet(kept) \subseteq SchemaUids
        BY <1>5 DEF Cached
    <2>. QED BY <2>1, <2>2 DEF Cached
<1>7. Recency(lru', Cached')
    BY <1>2, <1>5, <1>6, AppendLists
<1>8. ASSUME NEW v \in Cached' PROVE EntryRecent(v, entries'[v])
    <2>1. CASE v = u
        BY <1>2, <1>3, <2>1
    <2>2. CASE v # u
        BY <1>1, <1>2, <1>5, <1>6, <2>2 DEF Cached
    <2>. QED BY <2>1, <2>2
<1>9. entries' \in [SchemaUids -> CacheEntry \cup {Missing}]
    BY <1>1, <1>2, <1>3
<1>. QED BY <1>7, <1>8, <1>9 DEF Recency

(* With the registry and the clock as they were, it is enough to look at   *)
(* the entries and at the thread that moved.                               *)
LEMMA CacheStep ==
    ASSUME CacheInv, NEW t \in Threads, NEW new \in CacheThread, ThreadRecent(new),
           thread' = [thread EXCEPT ![t] = new],
           entries' \in [SchemaUids -> CacheEntry \cup {Missing}], Recency(lru', Cached'),
           \A v \in Cached' : EntryRecent(v, entries'[v]),
           UNCHANGED <<instant, registered, ceased>>
    PROVE  CacheInv'
<1>1. CacheTypeOK /\ OneWay /\ \A o \in Threads : ThreadRecent(thread[o])
    BY DEF CacheInv
<1>2. CacheTypeOK' /\ OneWay'
    BY <1>1 DEF CacheTypeOK, OneWay, Recency
<1>3. \A o \in Threads : ThreadRecent(thread'[o])
    BY <1>1 DEF CacheTypeOK
<1>4. \A o \in Threads : ThreadRecent(thread[o])'
    BY <1>3 DEF ThreadRecent, Recent, SaidWithin
<1>5. \A v \in Cached' : EntryRecent(v, entries[v])'
    BY DEF EntryRecent, Recent, SaidWithin
<1>. QED BY <1>2, <1>4, <1>5 DEF CacheInv

(* A thread alone moves on. *)
LEMMA ThreadMoves ==
    ASSUME CacheInv, NEW t \in Threads, NEW new \in CacheThread, ThreadRecent(new),
           thread' = [thread EXCEPT ![t] = new],
           UNCHANGED <<instant, registered, ceased, entries, lru>>
    PROVE  CacheInv'
<1>1. /\ entries' \in [SchemaUids -> CacheEntry \cup {Missing}] /\ Cached' = Cached
      /\ Recency(lru', Cached') /\ \A v \in Cached' : EntryRecent(v, entries'[v])
    BY DEF CacheInv, CacheTypeOK, Cached
<1>. QED BY <1>1, CacheStep

LEMMA RestingRecent == ThreadRecent(Resting)
BY RestingType DEF ThreadRecent

LEMMA LookupInv ==
    ASSUME CacheInv, NEW t \in Threads, NEW u \in SchemaUids, Lookup(t, u)
    PROVE  CacheInv'
<1>. DEFINE fresh == entries[u] # Missing /\ entries[u].expires_at > instant
            hit == [phase |-> "answered", uid |-> u, value |-> entries[u].value,
                    at |-> instant, took |-> entries[u].took]
            miss == [Resting EXCEPT !.phase = "fetching", !.uid = u]
            new == IF fresh THEN hit ELSE miss
<1>1. /\ CacheTypeOK /\ Recency(lru, Cached) /\ instant \in Nat
      /\ entries \in [SchemaUids -> CacheEntry \cup {Missing}]
      /\ \A v \in Cached : EntryRecent(v, entries[v])
    BY DEF CacheInv, CacheTypeOK
<1>2. /\ UNCHANGED <<instant, registered, ceased, entries>> /\ thread' = [thread EXCEPT ![t] = new]
      /\ lru' = IF entries[u] = Missing THEN lru ELSE Append(Without(lru, u), u)
    BY DEF Lookup, LookupUntil
<1>3. Cached' = Cached
    BY <1>2 DEF Cached
<1>4. Recency(lru', Cached')
    <2>1. CASE entries[u] = Missing
        BY <1>1, <1>2, <1>3, <2>1
    <2>2. CASE entries[u] # Missing
        <3>1. u \in Cached /\ lru' = Append(Without(lru, u), u)
            BY <1>2, <2>2 DEF Cached
        <3>2. Recency(Without(lru, u), Cached \ {u}) /\ Len(Without(lru, u)) < capacity
            BY <1>1, <3>1, WithoutLists
        <3>3. (Cached \ {u}) \cup {u} = Cached /\ u \notin Cached \ {u}
            BY <3>1
        <3>4. Recency(lru', (Cached \ {u}) \cup {u})
            BY <3>1, <3>2, <3>3, AppendLists
        <3>. QED BY <1>3, <3>3, <3>4
    <2>. QED BY <2>1, <2>2
<1>5. CASE fresh
    <2>1. entries[u] \in CacheEntry /\ EntryRecent(u, entries[u])
        BY <1>1, <1>5 DEF Cached
    <2>2. hit \in CacheThread
        BY <1>1, <2>1 DEF CacheEntry, CacheThread
    <2>3. Recent(u, entries[u].value, entries[u].took + ttl, instant)
        <3>1. /\ entries[u].took \in Nat /\ entries[u].expires_at \in Nat /\ ttl \in Nat
              /\ entries[u].value \in RegistryAnswers
            BY <2>1, CacheAssumption DEF CacheEntry
        <3>2. ceased[u][entries[u].value] \in Nat \cup {Missing}
            BY <1>1, <3>1 DEF CacheTypeOK
        <3>. QED BY <1>1, <1>5, <2>1, <3>1, <3>2 DEF EntryRecent, Recent, SaidWithin
    <2>4. ThreadRecent(hit)
        BY <2>1, <2>3 DEF ThreadRecent, CacheEntry
    <2>. QED BY <1>1, <1>2, <1>3, <1>4, <1>5, <2>2, <2>4, CacheStep
<1>6. CASE ~fresh
    <2>1. miss \in CacheThread /\ ThreadRecent(miss)
        BY DEF Resting, CacheThread, ThreadRecent
    <2>. QED BY <1>1, <1>2, <1>3, <1>4, <1>6, <2>1, CacheStep
<1>. QED BY <1>5, <1>6

LEMMA FetchInv == ASSUME CacheInv, NEW t \in Threads, Fetch(t) PROVE CacheInv'
<1>. DEFINE u == thread[t].uid
            v == registered[u]
            new == [thread[t] EXCEPT !.phase = "fetched", !.value = v, !.at = instant]
<1>1. /\ thread[t] \in CacheThread /\ u \in SchemaUids /\ thread \in [Threads -> CacheThread]
      /\ v \in RegistryAnswers /\ OneWay /\ instant \in Nat
    BY DEF CacheInv, CacheTypeOK, ThreadRecent, Fetch
<1>2. new \in CacheThread /\ new.phase = "fetched" /\ new.value = v /\ new.uid = u /\ new.at = instant
    BY <1>1 DEF CacheThread
<1>3. ceased[u][v] = Missing
    BY <1>1 DEF OneWay, RegistryAnswers
<1>4. thread' = [thread EXCEPT ![t] = new] /\ UNCHANGED <<instant, registered, ceased, entries, lru>>
    BY <1>1 DEF Fetch
<1>. HIDE DEF new, u, v
<1>5. ThreadRecent(new)
    BY <1>1, <1>2, <1>3 DEF ThreadRecent, Recent, SaidWithin
<1>. QED BY <1>2, <1>4, <1>5, ThreadMoves

LEMMA FetchFailsInv == ASSUME CacheInv, NEW t \in Threads, FetchFails(t) PROVE CacheInv'
BY RestingType, RestingRecent, ThreadMoves DEF FetchFails

LEMMA ReturnAnswerInv == ASSUME CacheInv, NEW t \in Threads, HandBack(t) PROVE CacheInv'
BY RestingType, RestingRecent, ThreadMoves DEF HandBack

LEMMA InsertInv == ASSUME CacheInv, NEW t \in Threads, Insert(t) PROVE CacheInv'
<1>. DEFINE u == thread[t].uid
            v == thread[t].value
            read == thread[t].at
            took == instant - read
            new == [thread[t] EXCEPT !.phase = "answered", !.at = instant, !.took = took]
<1>1. /\ thread[t] \in CacheThread /\ thread \in [Threads -> CacheThread] /\ instant \in Nat
      /\ u \in SchemaUids /\ v \in RegistryAnswers /\ Recent(u, v, 0, read)
      /\ ceased \in [SchemaUids -> [RegistryAnswers -> Nat \cup {Missing}]]
    BY DEF CacheInv, CacheTypeOK, ThreadRecent, Insert
<1>2. /\ IF v = "deprecated" \/ capacity = 0 THEN RemoveEntry(u) ELSE InsertEncoded(u, v, took)
      /\ thread' = [thread EXCEPT ![t] = new]
      /\ UNCHANGED <<instant, registered, ceased>>
    BY <1>1 DEF Insert
<1>3. read \in Nat /\ read <= instant /\ took \in Nat /\ instant = read + took /\ ttl \in Nat
    BY <1>1, CacheAssumption DEF CacheThread, Recent
<1>4. /\ new \in CacheThread /\ new.phase = "answered" /\ new.at = instant /\ new.took = took
      /\ new.uid = u /\ new.value = v
    BY <1>1, <1>3 DEF CacheThread
<1>. HIDE DEF u, v, read, took, new
<1>5. ceased[u][v] \in Nat \cup {Missing}
    BY <1>1
<1>6. Recent(u, v, took + ttl, instant + ttl) /\ Recent(u, v, took + ttl, instant)
    BY <1>1, <1>3, <1>5 DEF Recent, SaidWithin
<1>7. ThreadRecent(new)
    BY <1>1, <1>4, <1>6 DEF ThreadRecent
<1>8. /\ entries' \in [SchemaUids -> CacheEntry \cup {Missing}] /\ lru' \in Seq(SchemaUids)
      /\ Recency(lru', Cached')
      /\ \A w \in Cached' : EntryRecent(w, entries'[w])
    <2>1. CASE v = "deprecated" \/ capacity = 0
        BY <1>1, <1>2, <2>1, RemoveEntryCoherent
    <2>2. CASE v # "deprecated" /\ capacity # 0
        BY <1>1, <1>2, <1>3, <1>6, <2>2, InsertEncodedCoherent
    <2>. QED BY <2>1, <2>2
<1>. QED BY <1>2, <1>4, <1>7, <1>8, CacheStep

LEMMA InvalidateInv == ASSUME CacheInv, NEW u \in SchemaUids, Invalidate(u) PROVE CacheInv'
<1>1. RemoveEntry(u) /\ UNCHANGED <<instant, registered, ceased, thread>>
    BY DEF Invalidate
<1>2. /\ entries' \in [SchemaUids -> CacheEntry \cup {Missing}] /\ lru' \in Seq(SchemaUids)
      /\ Recency(lru', Cached')
      /\ \A v \in Cached' : EntryRecent(v, entries'[v])
    BY <1>1, RemoveEntryCoherent
<1>3. CacheTypeOK' /\ OneWay' /\ \A t \in Threads : ThreadRecent(thread[t])'
    BY <1>1, <1>2 DEF CacheInv, CacheTypeOK, OneWay, ThreadRecent, Recent, SaidWithin
<1>4. \A v \in Cached' : EntryRecent(v, entries[v])'
    BY <1>1, <1>2 DEF EntryRecent, Recent, SaidWithin
<1>. QED BY <1>2, <1>3, <1>4 DEF CacheInv

(* The registry's moves and time leave a recent answer recent. *)
LEMMA RecentLasts ==
    ASSUME CacheInv, TimePasses \/ \E w \in SchemaUids : RegistryMoves(w),
           NEW u \in SchemaUids, NEW value \in RegistryAnswers, NEW span \in Nat, NEW now \in Nat,
           Recent(u, value, span, now)
    PROVE  Recent(u, value, span, now)'
<1>1. /\ instant \in Nat /\ ceased[u][value] \in Nat \cup {Missing}
      /\ registered \in [SchemaUids -> RegistryAnswers]
      /\ ceased \in [SchemaUids -> [RegistryAnswers -> Nat \cup {Missing}]]
    BY DEF CacheInv, CacheTypeOK
<1>2. CASE TimePasses
    BY <1>1, <1>2 DEF TimePasses, Recent, SaidWithin
<1>3. CASE \E w \in SchemaUids : RegistryMoves(w)
    <2>1. PICK w \in SchemaUids : RegistryMoves(w)
        BY <1>3
    <2>2. instant' = instant /\ ceased'[u][value] \in {ceased[u][value], instant}
        BY <1>1, <2>1 DEF RegistryMoves
    <2>. QED BY <1>1, <2>2 DEF Recent, SaidWithin
<1>. QED BY <1>2, <1>3

LEMMA CacheWorldInv ==
    ASSUME CacheInv, TimePasses \/ \E u \in SchemaUids : RegistryMoves(u)
    PROVE  CacheInv'
<1>1. UNCHANGED <<entries, lru, thread>> /\ CacheTypeOK /\ OneWay /\ Recency(lru, Cached) /\ ttl \in Nat
    BY CacheAssumption DEF TimePasses, RegistryMoves, CacheInv
<1>2. Cached' = Cached
    BY <1>1 DEF Cached
<1>3. /\ instant' \in Nat /\ registered' \in [SchemaUids -> RegistryAnswers]
      /\ ceased' \in [SchemaUids -> [RegistryAnswers -> Nat \cup {Missing}]]
      /\ OneWay'
    <2>1. CASE TimePasses
        BY <1>1, <2>1 DEF TimePasses, CacheTypeOK, OneWay
    <2>2. CASE \E u \in SchemaUids : RegistryMoves(u)
        <3>1. PICK u \in SchemaUids : RegistryMoves(u)
            BY <2>2
        <3>2. /\ instant' = instant /\ registered[u] # "deprecated" /\ instant \in Nat
              /\ registered' = [registered EXCEPT ![u] = IF registered[u] = "unknown" THEN "active" ELSE "deprecated"]
              /\ ceased' = [ceased EXCEPT ![u] = [ceased[u] EXCEPT ![registered[u]] = instant]]
            BY <1>1, <3>1 DEF RegistryMoves, CacheTypeOK
        <3>3. /\ registered' \in [SchemaUids -> RegistryAnswers]
              /\ ceased' \in [SchemaUids -> [RegistryAnswers -> Nat \cup {Missing}]]
            BY <1>1, <3>2 DEF CacheTypeOK, RegistryAnswers
        <3>4. ASSUME NEW v \in SchemaUids
              PROVE  /\ ceased'[v]["deprecated"] = Missing
                     /\ registered'[v] # "deprecated" => ceased'[v]["active"] = Missing
                     /\ registered'[v] = "unknown" => ceased'[v]["unknown"] = Missing
            <4>1. CASE v # u
                BY <1>1, <3>2, <4>1 DEF CacheTypeOK, OneWay
            <4>2. CASE v = u
                BY <1>1, <3>2, <4>2 DEF CacheTypeOK, OneWay, RegistryAnswers
            <4>. QED BY <4>1, <4>2
        <3>. QED BY <3>2, <3>3, <3>4 DEF OneWay
    <2>. QED BY <2>1, <2>2
<1>4. ASSUME NEW u \in Cached PROVE EntryRecent(u, entries[u])'
    <2>1. entries[u] \in CacheEntry /\ EntryRecent(u, entries[u]) /\ u \in SchemaUids
        BY <1>1 DEF CacheInv, CacheTypeOK, Cached
    <2>2. entries[u].took + ttl \in Nat /\ entries[u].expires_at \in Nat /\ entries[u].value \in RegistryAnswers
        BY <1>1, <2>1 DEF CacheEntry
    <2>. DEFINE span == entries[u].took + ttl
                now == entries[u].expires_at
                value == entries[u].value
    <2>3. Recent(u, value, span, now)
        BY <2>1 DEF EntryRecent
    <2>. HIDE DEF span, now, value
    <2>4. span \in Nat /\ now \in Nat /\ value \in RegistryAnswers /\ UNCHANGED <<span, now, value>>
        BY <1>1, <2>2 DEF span, now, value
    <2>5. Recent(u, value, span, now)'
        BY <2>1, <2>3, <2>4, RecentLasts DEF Recent, SaidWithin
    <2>. QED BY <1>1, <2>1, <2>5 DEF EntryRecent, span, now, value
<1>5. ASSUME NEW t \in Threads PROVE ThreadRecent(thread[t])'
    <2>. DEFINE th == thread[t]
    <2>1. th \in CacheThread /\ ThreadRecent(th) /\ th' = th
        BY <1>1 DEF CacheInv, CacheTypeOK
    <2>2. th.took + ttl \in Nat /\ th.at \in Nat
        BY <1>1, <2>1 DEF CacheThread
    <2>. HIDE DEF th
    <2>3. ASSUME th.phase = "fetched" PROVE Recent(th.uid, th.value, 0, th.at)'
        BY <2>1, <2>2, <2>3, RecentLasts DEF ThreadRecent, Recent, SaidWithin
    <2>4. ASSUME th.phase = "answered" PROVE Recent(th.uid, th.value, th.took + ttl, th.at)'
        BY <2>1, <2>2, <2>4, RecentLasts DEF ThreadRecent, Recent, SaidWithin
    <2>. QED BY <2>1, <2>3, <2>4 DEF ThreadRecent, th
<1>6. CacheTypeOK'
    BY <1>1, <1>3 DEF CacheTypeOK
<1>. QED BY <1>1, <1>2, <1>3, <1>4, <1>5, <1>6 DEF CacheInv

LEMMA CacheNextInv == CacheInv /\ [CacheNext]_cacheVars => CacheInv'
<1>. SUFFICES ASSUME CacheInv, [CacheNext]_cacheVars PROVE CacheInv'
    OBVIOUS
<1>1. CASE UNCHANGED cacheVars
    <2>1. Cached' = Cached
        BY <1>1 DEF Cached, cacheVars
    <2>. QED BY <1>1, <2>1 DEF cacheVars, CacheInv, CacheTypeOK, OneWay, EntryRecent, ThreadRecent,
                               Recent, SaidWithin
<1>2. CASE CacheNext
    BY <1>2, LookupInv, FetchInv, FetchFailsInv, InsertInv, ReturnAnswerInv, InvalidateInv,
       CacheWorldInv DEF CacheNext
<1>. QED BY <1>1, <1>2

(* The schema cache, for any capacity, 0 too, any ttl and any number of    *)
(* threads that look up, fetch, store and invalidate in any order: a       *)
(* caller is told what the registry still said at most ttl and one fetch   *)
(* earlier, although a fetch that an invalidation overtakes stores the old *)
(* answer again; the recency list and the entries are one set of at most   *)
(* capacity schemas, each listed once; no deprecated record is kept        *)
(* (touch, remove_entry, insert_encoded, get_schema_with_cache).           *)
THEOREM CacheStaysCoherent == CacheSpec => []CacheCoherent
<1>1. CacheInv => CacheCoherent
    <2>. SUFFICES ASSUME CacheInv PROVE CacheCoherent
        OBVIOUS
    <2>. DEFINE n == Len(lru)
    <2>1. Recency(lru, Cached) /\ lru \in Seq(SchemaUids) /\ n \in Nat /\ DOMAIN lru = 1..n
        BY DEF CacheInv, CacheTypeOK
    <2>2. ToSet(lru) = Cached
        BY <2>1 DEF ToSet, Recency
    <2>3. lru \in [1..n -> Cached]
        BY <2>1 DEF Recency
    <2>4. lru \in Injection(1..n, Cached) /\ lru \in Surjection(1..n, Cached)
        BY <2>1, <2>3 DEF Recency, Injection, IsInjective, Surjection
    <2>5. IsFiniteSet(1..n) /\ Cardinality(1..n) = n
        BY <2>1, UpToFinite
    <2>6. Cardinality(Cached) = n
        BY <2>4, <2>5, FS_Surjection
    <2>7. /\ \A t \in Threads : thread[t].phase = "answered" =>
               SaidWithin(thread[t].uid, thread[t].value, thread[t].took + ttl, thread[t].at)
          /\ \A u \in Cached : /\ entries[u].value # "deprecated"
                               /\ SaidWithin(u, entries[u].value, entries[u].took + ttl, entries[u].expires_at)
        BY DEF CacheInv, ThreadRecent, EntryRecent, Recent
    <2>. QED BY <2>1, <2>2, <2>6, <2>7 DEF CacheCoherent, Recency
<1>. QED BY <1>1, CacheInitInv, CacheNextInv, PTL DEF CacheSpec

------------------------------------------------------------------------------
(* The JavaScript transports.                                              *)

FailoverRequest ==
    [op : {"none", "request", "probe", "read", "write"}, kind : EndpointKinds, asking : 0..Endpoints,
     left : Seq(E), tried : Seq(E),
     result : {"none", "failFast", "noEndpoint", "answered", "allFailed", "probed"}]

EndpointStates == {"down", "healthy", "degraded"}

FailoverTypeOK ==
    /\ transport \in {"failover", "resilient"} /\ kinds \in [E -> EndpointKinds] /\ ms \in Nat \ {0}
    /\ failures \in [E -> Nat] /\ openUntil \in [E -> Nat] /\ score \in [E -> Int]
    /\ state \in [E -> EndpointStates]
    /\ healthCursor \in E
    /\ request \in [Requests -> FailoverRequest]
    /\ answers \in [E -> Seq(BOOLEAN)]
    /\ begun \in [Requests -> SUBSET E]

(* The last n of the answers s are failures, and no more. *)
EndsWith(s, n) ==
    /\ n \in 0..Len(s)
    /\ n = Len(s) \/ s[Len(s) - n]
    /\ \A i \in (Len(s) - n + 1)..Len(s) : ~s[i]

CountsTrue ==
    \A e \in E : /\ EndsWith(answers[e], failures[e])
                 /\ openUntil[e] # 0 <=> failures[e] >= threshold

(* x is in the list s *)
Lists(s, x) == \E i \in 1..Len(s) : s[i] = x

Distinct(s) == \A i, j \in 1..Len(s) : s[i] = s[j] => i = j

(* A request that found the endpoints b usable: it has tried, is asking    *)
(* and has left each of them exactly once between them.                    *)
InTurn(q, b) ==
    /\ Distinct(q.tried) /\ \A i \in 1..Len(q.tried) : q.tried[i] \in b
    /\ q.asking # 0 =>
         /\ q.asking \in b /\ ~Lists(q.tried, q.asking) /\ ~Lists(q.left, q.asking)
         /\ Distinct(q.left)
         /\ \A i \in 1..Len(q.left) : q.left[i] \in b /\ ~Lists(q.tried, q.left[i])
         /\ \A e \in b : Lists(q.tried, e) \/ q.asking = e \/ Lists(q.left, e)
    /\ q.result = "allFailed" => \A e \in b : Lists(q.tried, e)

(* A read or write among endpoints of the kinds k; a read that has not     *)
(* ended has an attempt left.                                              *)
OfKind(q, k) ==
    /\ q.left = <<>> /\ (q.asking # 0 => k[q.asking] = q.kind)
    /\ \A i \in 1..Len(q.tried) : k[q.tried[i]] = q.kind
    /\ q.result # "noEndpoint" => \E e \in E : k[e] = q.kind
    /\ q.op = "read" => /\ q.result = "none" => Len(q.tried) < maxAttempts
                        /\ q.result = "allFailed" => Len(q.tried) = maxAttempts
    /\ q.op = "write" => Len(q.tried) <= 1 /\ (q.asking # 0 => q.tried = <<>>)

RequestTrue(q, b, k) ==
    /\ q.asking # 0 => q.result = "none" /\ q.op # "none"
    /\ q.op = "none" => q.result = "none"
    /\ q.op = "request" => InTurn(q, b)
    /\ q.result = "failFast" => b = {} /\ q.tried = <<>>
    /\ q.op \in {"read", "write"} => OfKind(q, k)

FailoverInv ==
    /\ FailoverTypeOK /\ CountsTrue /\ connection = ConnectionOf(state)
    /\ \A r \in Requests : RequestTrue(request[r], begun[r], kinds)

(* The number EndsWith gives is the length of the run of failures. *)
LEMMA RunLength ==
    ASSUME NEW e, answers[e] \in Seq(BOOLEAN), NEW n, EndsWith(answers[e], n)
    PROVE  FailureRun(e) = n
<1>. DEFINE s == answers[e]
            P(k) == (k = 0 \/ s[k]) /\ \A i \in (k + 1)..Len(s) : ~s[i]
            k == Len(s) - n
            c == CHOOSE j \in 0..Len(s) : P(j)
<1>1. Len(s) \in Nat /\ n \in 0..Len(s) /\ k \in 0..Len(s) /\ n = Len(s) - k
    BY DEF EndsWith
<1>2. P(k)
    BY <1>1 DEF EndsWith
<1>3. c \in 0..Len(s) /\ P(c)
    BY <1>1, <1>2
<1>4. FailureRun(e) = Len(s) - c
    BY DEF FailureRun
<1>. HIDE DEF c, k, s
<1>5. ~(c < k)
    <2>. SUFFICES ASSUME c < k PROVE FALSE
        OBVIOUS
    <2>1. k \in (c + 1)..Len(s) /\ k # 0
        BY <1>1, <1>3
    <2>. QED BY <1>2, <1>3, <2>1
<1>6. ~(k < c)
    <2>. SUFFICES ASSUME k < c PROVE FALSE
        OBVIOUS
    <2>1. c \in (k + 1)..Len(s) /\ c # 0
        BY <1>1, <1>3
    <2>. QED BY <1>2, <1>3, <2>1
<1>. QED BY <1>1, <1>3, <1>4, <1>5, <1>6

(* One more answer. *)
LEMMA RunGoesOn ==
    ASSUME NEW s \in Seq(BOOLEAN), NEW n, EndsWith(s, n), NEW ok \in BOOLEAN
    PROVE  EndsWith(Append(s, ok), IF ok THEN 0 ELSE n + 1)
<1>. DEFINE a == Append(s, ok)
            m == Len(s)
<1>1. m \in Nat /\ a \in Seq(BOOLEAN) /\ Len(a) = m + 1 /\ a[m + 1] = ok /\ \A i \in 1..m : a[i] = s[i]
    OBVIOUS
<1>2. n \in 0..m /\ (n = m \/ s[m - n]) /\ \A i \in (m - n + 1)..m : ~s[i]
    BY DEF EndsWith
<1>. HIDE DEF a, m
<1>3. CASE ok
    <2>1. Len(a) - 0 = m + 1 /\ 0 \in 0..Len(a) /\ (Len(a) - 0 + 1)..Len(a) = {}
        BY <1>1
    <2>. QED BY <1>1, <1>3, <2>1 DEF EndsWith, a
<1>4. CASE ~ok
    <2>1. Len(a) - (n + 1) = m - n /\ n + 1 \in 0..Len(a)
        BY <1>1, <1>2
    <2>2. n + 1 = Len(a) \/ a[Len(a) - (n + 1)]
        <3>1. CASE n = m
            BY <1>1, <3>1
        <3>2. CASE n # m
            <4>1. m - n \in 1..m /\ s[m - n]
                BY <1>1, <1>2, <3>2
            <4>. QED BY <1>1, <2>1, <4>1
        <3>. QED BY <3>1, <3>2
    <2>3. ASSUME NEW i \in (Len(a) - (n + 1) + 1)..Len(a) PROVE ~a[i]
        <3>1. CASE i = m + 1
            BY <1>1, <1>4, <3>1
        <3>2. CASE i # m + 1
            <4>1. i \in (m - n + 1)..m /\ i \in 1..m
                BY <1>1, <1>2, <3>2
            <4>. QED BY <1>1, <1>2, <4>1
        <3>. QED BY <3>1, <3>2
    <2>. QED BY <1>4, <2>1, <2>2, <2>3 DEF EndsWith, a
<1>. QED BY <1>3, <1>4

(* An outcome is recorded. *)
LEMMA RecordTrue ==
    ASSUME FailoverInv, NEW e \in E, NEW ok \in BOOLEAN, Record(e, ok)
    PROVE  /\ failures' \in [E -> Nat] /\ openUntil' \in [E -> Nat] /\ score' \in [E -> Int]
           /\ state' \in [E -> EndpointStates] /\ answers' \in [E -> Seq(BOOLEAN)]
           /\ CountsTrue' /\ (connection = ConnectionOf(state))'
<1>1. FailoverTypeOK /\ CountsTrue /\ connection = ConnectionOf(state)
    BY DEF FailoverInv
<1>2. /\ failures \in [E -> Nat] /\ openUntil \in [E -> Nat] /\ score \in [E -> Int]
      /\ state \in [E -> EndpointStates] /\ answers \in [E -> Seq(BOOLEAN)] /\ ms \in Nat \ {0}
    BY <1>1 DEF FailoverTypeOK
<1>3. threshold \in Nat \ {0} /\ cooldown \in Nat \ {0}
    BY FailoverAssumption
<1>4. answers' = [answers EXCEPT ![e] = Append(answers[e], ok)]
    BY DEF Record
<1>5. /\ failures' = [failures EXCEPT ![e] = IF ok THEN 0 ELSE failures[e] + 1]
      /\ openUntil' = IF ok THEN [openUntil EXCEPT ![e] = 0]
                      ELSE IF failures[e] + 1 >= threshold THEN [openUntil EXCEPT ![e] = ms + cooldown]
                           ELSE openUntil
    BY DEF Record, MarkSuccess, MarkFailure
<1>6. failures' \in [E -> Nat] /\ openUntil' \in [E -> Nat] /\ answers' \in [E -> Seq(BOOLEAN)]
    <2>1. failures[e] + 1 \in Nat /\ ms + cooldown \in Nat /\ Append(answers[e], ok) \in Seq(BOOLEAN)
        BY <1>2, <1>3
    <2>. QED BY <1>2, <1>4, <1>5, <2>1
<1>7. CountsTrue'
    <2>. SUFFICES ASSUME NEW x \in E
                  PROVE  /\ EndsWith(answers'[x], failures'[x])
                         /\ openUntil'[x] # 0 <=> failures'[x] >= threshold
        BY DEF CountsTrue
    <2>0. EndsWith(answers[x], failures[x]) /\ (openUntil[x] # 0 <=> failures[x] >= threshold)
        BY <1>1 DEF CountsTrue
    <2>1. CASE x # e
        <3>1. answers'[x] = answers[x] /\ failures'[x] = failures[x] /\ openUntil'[x] = openUntil[x]
            BY <1>2, <1>4, <1>5, <2>1
        <3>. QED BY <2>0, <3>1
    <2>2. CASE x = e
        <3>1. answers'[x] = Append(answers[x], ok) /\ failures'[x] = (IF ok THEN 0 ELSE failures[x] + 1)
            BY <1>2, <1>4, <1>5, <2>2
        <3>2. EndsWith(answers'[x], failures'[x])
            BY <1>2, <2>0, <3>1, RunGoesOn
        <3>3. openUntil'[x] = (IF ok THEN 0 ELSE IF failures[x] + 1 >= threshold THEN ms + cooldown ELSE openUntil[x])
            BY <1>2, <1>5, <2>2
        <3>4. failures[x] \in Nat /\ ms + cooldown # 0
            BY <1>2, <1>3
        <3>5. openUntil'[x] # 0 <=> failures'[x] >= threshold
            BY <1>3, <2>0, <3>1, <3>3, <3>4
        <3>. QED BY <3>2, <3>5
    <2>. QED BY <2>1, <2>2
<1>8. CASE transport # "resilient"
    <2>1. UNCHANGED <<score, state, connection>>
        BY <1>8 DEF Record
    <2>. QED BY <1>1, <1>2, <1>6, <1>7, <2>1 DEF ConnectionOf
<1>9. CASE transport = "resilient"
    <2>1. /\ score' = [score EXCEPT ![e] = Smoothed(e, ok)]
          /\ state' = [state EXCEPT ![e] = StateOf(e)]
          /\ connection' = IF StateOf(e) # state[e] THEN ConnectionOf(state') ELSE connection
        BY <1>9 DEF Record
    <2>2. StateOf(e) \in EndpointStates
        BY DEF StateOf, EndpointStates
    <2>3. Smoothed(e, ok) \in Int
        <3>1. score[e] \in Int /\ \A a \in Int : a \div 2 \in Int
            BY <1>2
        <3>2. 100 - score[e] \in Int
            BY <3>1
        <3>3. (100 - score[e]) \div 2 \in Int /\ score[e] \div 2 \in Int
            BY <3>1, <3>2
        <3>. QED BY <3>1, <3>3 DEF Smoothed
    <2>4. score' \in [E -> Int] /\ state' \in [E -> EndpointStates]
        BY <1>2, <2>1, <2>2, <2>3
    <2>5. connection' = ConnectionOf(state')
        <3>1. CASE StateOf(e) = state[e]
            <4>1. state' = state
                BY <1>2, <2>1, <3>1
            <4>. QED BY <1>1, <2>1, <3>1, <4>1
        <3>2. CASE StateOf(e) # state[e]
            BY <2>1, <3>2
        <3>. QED BY <3>1, <3>2
    <2>6. (connection = ConnectionOf(state))'
        BY <2>5 DEF ConnectionOf
    <2>. QED BY <1>6, <1>7, <2>4, <2>6
<1>. QED BY <1>8, <1>9

(* Nothing is recorded. *)
LEMMA UntouchedTrue ==
    ASSUME FailoverInv, Untouched
    PROVE  /\ failures' \in [E -> Nat] /\ openUntil' \in [E -> Nat] /\ score' \in [E -> Int]
           /\ state' \in [E -> EndpointStates] /\ answers' \in [E -> Seq(BOOLEAN)]
           /\ CountsTrue' /\ (connection = ConnectionOf(state))'
BY DEF FailoverInv, FailoverTypeOK, Untouched, CountsTrue, ConnectionOf

(* One request moves on. *)
LEMMA RequestMoves ==
    ASSUME FailoverInv, NEW r \in Requests, NEW q \in FailoverRequest, NEW b \in SUBSET E,
           request' = [request EXCEPT ![r] = q], begun' = [begun EXCEPT ![r] = b],
           RequestTrue(q, b, kinds),
           /\ failures' \in [E -> Nat] /\ openUntil' \in [E -> Nat] /\ score' \in [E -> Int]
           /\ state' \in [E -> EndpointStates] /\ answers' \in [E -> Seq(BOOLEAN)]
           /\ CountsTrue' /\ (connection = ConnectionOf(state))',
           UNCHANGED <<setup, ms>>, healthCursor' \in E
    PROVE  FailoverInv'
<1>0. UNCHANGED <<transport, kinds, ms>>
    BY DEF setup
<1>1. FailoverTypeOK /\ \A o \in Requests : RequestTrue(request[o], begun[o], kinds)
    BY DEF FailoverInv
<1>2. FailoverTypeOK'
    BY <1>0, <1>1 DEF FailoverTypeOK
<1>3. ASSUME NEW o \in Requests PROVE RequestTrue(request'[o], begun'[o], kinds')
    <2>1. CASE o = r
        <3>1. request'[o] = q /\ begun'[o] = b
            BY <1>1, <2>1 DEF FailoverTypeOK
        <3>. QED BY <1>0, <3>1
    <2>2. CASE o # r
        <3>1. request'[o] = request[o] /\ begun'[o] = begun[o]
            BY <1>1, <2>2 DEF FailoverTypeOK
        <3>. QED BY <1>0, <1>1, <3>1
    <2>. QED BY <2>1, <2>2
<1>. QED BY <1>2, <1>3 DEF FailoverInv

LEMMA NewRequestType ==
    /\ NewRequest \in FailoverRequest
    /\ NewRequest.op = "none" /\ NewRequest.asking = 0 /\ NewRequest.left = <<>>
    /\ NewRequest.tried = <<>> /\ NewRequest.result = "none"
BY FailoverAssumption DEF NewRequest, FailoverRequest, EndpointKinds

LEMMA FailoverInitInv == FailoverInit => FailoverInv
<1>. SUFFICES ASSUME FailoverInit PROVE FailoverInv
    OBVIOUS
<1>0. Endpoints \in Nat \ {0} /\ 1 \in E /\ threshold \in Nat \ {0}
    BY FailoverAssumption DEF E
<1>1. NewRequest \in FailoverRequest
    BY NewRequestType
<1>2. FailoverTypeOK
    <2>1. <<>> \in Seq(BOOLEAN)
        OBVIOUS
    <2>2. answers \in [E -> Seq(BOOLEAN)] /\ request \in [Requests -> FailoverRequest]
          /\ begun \in [Requests -> SUBSET E]
        BY <1>1, <2>1 DEF FailoverInit
    <2>3. /\ failures \in [E -> Nat] /\ openUntil \in [E -> Nat] /\ score \in [E -> Int]
          /\ state \in [E -> EndpointStates] /\ ms \in Nat \ {0} /\ healthCursor \in E
          /\ transport \in {"failover", "resilient"} /\ kinds \in [E -> EndpointKinds]
        BY <1>0 DEF FailoverInit, EndpointStates
    <2>. QED BY <2>2, <2>3 DEF FailoverTypeOK
<1>3. CountsTrue
    <2>1. EndsWith(<<>>, 0)
        BY DEF EndsWith
    <2>. QED BY <1>0, <2>1 DEF CountsTrue, FailoverInit
<1>4. connection = ConnectionOf(state)
    BY <1>0 DEF FailoverInit, ConnectionOf
<1>5. \A r \in Requests : RequestTrue(request[r], begun[r], kinds)
    BY DEF FailoverInit, NewRequest, RequestTrue
<1>. QED BY <1>2, <1>3, <1>4, <1>5 DEF FailoverInv

(* What a request starts with. *)
LEMMA StartInv ==
    ASSUME FailoverInv, NEW r \in Requests, NEW op \in {"request", "probe"},
           NEW order \in Seq(E), Start(r, op, order), healthCursor' \in E,
           op # "request" => order # <<>>,
           op = "request" => /\ Distinct(order)
                             /\ \A i \in 1..Len(order) : order[i] \in E /\ Closed(order[i])
                             /\ \A e \in E : Closed(e) => Lists(order, e)
    PROVE  FailoverInv'
<1>. DEFINE b == {e \in E : Closed(e)}
            fast == [NewRequest EXCEPT !.op = op, !.result = "failFast"]
            ask == [NewRequest EXCEPT !.op = op, !.asking = Head(order), !.left = Tail(order)]
<1>0. Endpoints \in Nat \ {0}
    BY FailoverAssumption
<1>1. /\ request' = [request EXCEPT ![r] = IF order = <<>> THEN fast ELSE ask]
      /\ begun' = [begun EXCEPT ![r] = b] /\ b \in SUBSET E /\ UNCHANGED <<setup, ms>> /\ Untouched
    BY DEF Start
<1>2. CASE order = <<>>
    <2>0. op = "request"
        BY <1>2
    <2>1. /\ fast.op = "request" /\ fast.asking = 0 /\ fast.left = <<>> /\ fast.tried = <<>>
          /\ fast.result = "failFast"
        BY <2>0, NewRequestType DEF FailoverRequest
    <2>2. b = {}
        BY <1>2, <2>0 DEF Lists
    <2>3. fast \in FailoverRequest
        BY NewRequestType DEF FailoverRequest
    <2>. HIDE DEF fast, b
    <2>4. RequestTrue(fast, b, kinds)
        BY <2>1, <2>2 DEF RequestTrue, InTurn, Distinct
    <2>. QED BY <1>1, <1>2, <2>3, <2>4, UntouchedTrue, RequestMoves
<1>3. CASE order # <<>>
    <2>. DEFINE a == Head(order)
                l == Tail(order)
                n == Len(order)
    <2>1. /\ a = order[1] /\ l \in Seq(E) /\ Len(l) = n - 1 /\ n \in Nat /\ n >= 1 /\ a \in E
          /\ \A i \in 1..Len(l) : l[i] = order[i + 1]
        BY <1>3
    <2>2. ask.op = op /\ ask.asking = a /\ ask.left = l /\ ask.tried = <<>> /\ ask.result = "none"
        BY NewRequestType DEF FailoverRequest
    <2>3. a \in 0..Endpoints
        BY <1>0, <2>1 DEF E
    <2>. HIDE DEF a, l
    <2>4. ask \in FailoverRequest
        BY <2>1, <2>3, NewRequestType DEF FailoverRequest, a, l
    <2>. HIDE DEF ask
    <2>5. op = "request" => InTurn(ask, b)
        <3>. SUFFICES ASSUME op = "request" PROVE InTurn(ask, b)
            OBVIOUS
        <3>1. /\ \A i, j \in 1..n : order[i] = order[j] => i = j
              /\ \A i \in 1..n : order[i] \in b
              /\ \A e \in b : \E i \in 1..n : order[i] = e
            BY DEF Distinct, Lists
        <3>. HIDE DEF b, n
        <3>2. \A i \in 1..Len(l) : i + 1 \in 1..n /\ i + 1 # 1
            BY <2>1
        <3>3. a \in b /\ ~Lists(l, a) /\ 1 \in 1..n
            BY <2>1, <3>1, <3>2 DEF Lists
        <3>4. Distinct(l)
            <4>. SUFFICES ASSUME NEW i \in 1..Len(l), NEW j \in 1..Len(l), l[i] = l[j] PROVE i = j
                BY DEF Distinct
            <4>1. i + 1 = j + 1
                BY <2>1, <3>1, <3>2
            <4>. QED BY <2>1, <4>1
        <3>5. \A i \in 1..Len(l) : l[i] \in b
            BY <2>1, <3>1, <3>2
        <3>6. ASSUME NEW e \in b PROVE a = e \/ Lists(l, e)
            <4>1. PICK i \in 1..n : order[i] = e
                BY <3>1
            <4>2. CASE i = 1
                BY <2>1, <4>1, <4>2
            <4>3. CASE i # 1
                <5>1. i - 1 \in 1..Len(l) /\ (i - 1) + 1 = i
                    BY <2>1, <4>3
                <5>2. l[i - 1] = order[(i - 1) + 1]
                    BY <2>1, <5>1
                <5>3. l[i - 1] = e
                    BY <4>1, <5>1, <5>2
                <5>. QED BY <5>1, <5>3 DEF Lists
            <4>. QED BY <4>2, <4>3
        <3>7. \A x : ~Lists(<<>>, x)
            BY DEF Lists
        <3>8. ask.tried = <<>> /\ ask.asking = a /\ ask.left = l /\ ask.result = "none" /\ Len(<<>>) = 0
            BY <2>2
        <3>. HIDE DEF ask
        <3>. QED BY <3>3, <3>4, <3>5, <3>6, <3>7, <3>8 DEF InTurn, Distinct
    <2>6. RequestTrue(ask, b, kinds)
        BY <2>2, <2>5 DEF RequestTrue
    <2>. HIDE DEF ask, b
    <2>. QED BY <1>1, <1>3, <2>4, <2>6, UntouchedTrue, RequestMoves
<1>. QED BY <1>2, <1>3

LEMMA StartRequestInv == ASSUME FailoverInv, NEW r \in Requests, StartRequest(r) PROVE FailoverInv'
<1>. DEFINE S == {e \in E : Closed(e)}
            o == CandidateOrder
<1>1. S \in SUBSET Nat /\ IsFiniteSet(S)
    <2>1. IsFiniteSet(E) /\ E \subseteq Nat /\ S \in SUBSET E
        BY FailoverAssumption, UpToFinite DEF E
    <2>. HIDE DEF S
    <2>. QED BY <2>1, FS_Subset
<1>2. o = InOrder(S)
    BY DEF CandidateOrder
<1>3. /\ o \in Seq(S) /\ Len(o) = Cardinality(S) /\ Cardinality(S) \in Nat
      /\ \A x \in S : \E i \in 1..Cardinality(S) : o[i] = x
      /\ \A i, j \in 1..Cardinality(S) : i < j => o[i] < o[j]
    <2>. HIDE DEF S, o
    <2>. QED BY <1>1, <1>2, InOrderLists
<1>4. \A x \in S : x \in E /\ Closed(x)
    OBVIOUS
<1>5. \A x \in E : Closed(x) => x \in S
    OBVIOUS
<1>. HIDE DEF S, o
<1>6. o \in Seq(E) /\ \A i \in 1..Len(o) : o[i] \in S
    BY <1>3, <1>4
<1>7. Distinct(o)
    <2>. SUFFICES ASSUME NEW i \in 1..Len(o), NEW j \in 1..Len(o), o[i] = o[j] PROVE i = j
        BY DEF Distinct
    <2>1. o[i] \in Nat /\ o[j] \in Nat /\ i \in Nat /\ j \in Nat
        <3>1. o[i] \in S /\ o[j] \in S
            BY <1>6
        <3>2. i \in Nat /\ j \in Nat
            BY <1>3
        <3>3. \A x \in S : x \in Nat
            BY <1>1
        <3>. QED BY <3>1, <3>2, <3>3
    <2>2. ~(i < j) /\ ~(j < i)
        BY <1>3, <2>1
    <2>. QED BY <2>1, <2>2
<1>8. \A e \in E : Closed(e) => Lists(o, e)
    BY <1>3, <1>5 DEF Lists
<1>9. Start(r, "request", o) /\ healthCursor' \in E
    BY DEF StartRequest, o, FailoverInv, FailoverTypeOK
<1>. QED BY <1>4, <1>6, <1>7, <1>8, <1>9, StartInv

(* The remainder that keeps a cursor within the endpoints. *)
LEMMA CursorWraps == \A a \in Nat : (a % Endpoints) + 1 \in E
<1>1. Endpoints \in Nat \ {0}
    BY FailoverAssumption
<1>2. \A a \in Nat : a % Endpoints \in 0..(Endpoints - 1)
    BY <1>1
<1>. QED BY <1>1, <1>2 DEF E

LEMMA StartHealthCheckInv == ASSUME FailoverInv, NEW r \in Requests, StartHealthCheck(r) PROVE FailoverInv'
<1>. DEFINE o == RoundRobin
<1>1. Endpoints \in Nat \ {0} /\ healthCursor \in E
    BY FailoverAssumption DEF FailoverInv, FailoverTypeOK
<1>2. ASSUME NEW i \in E PROVE ((healthCursor - 1 + i - 1) % Endpoints) + 1 \in E
    <2>1. healthCursor - 1 + i - 1 \in Nat
        BY <1>1 DEF E
    <2>. QED BY <2>1, CursorWraps
<1>3. o \in [1..Endpoints -> E]
    BY <1>2 DEF RoundRobin, E
<1>4. Start(r, "probe", o) /\ healthCursor' = (healthCursor % Endpoints) + 1
    BY DEF StartHealthCheck
<1>. HIDE DEF o
<1>5. o \in Seq(E) /\ Len(o) = Endpoints
    BY <1>1, <1>3
<1>6. o # <<>>
    BY <1>1, <1>5
<1>7. healthCursor' \in E
    <2>1. healthCursor \in Nat
        BY <1>1 DEF E
    <2>. QED BY <1>4, <2>1, CursorWraps
<1>. QED BY <1>4, <1>5, <1>6, <1>7, StartInv

(* ResilientTransport.pick names an endpoint. *)
LEMMA PickUsable ==
    ASSUME FailoverTypeOK, NEW sort, NEW attempt \in Nat, \E e \in E : kinds[e] = sort
    PROVE  Pick(sort, attempt) \in E /\ kinds[Pick(sort, attempt)] = sort
<1>. DEFINE v == [x \in E |-> Weights[x] * score[x]]
            U == Usable(sort)
            before == [e \in U |-> {x \in U : v[x] > v[e] \/ (v[x] = v[e] /\ x < e)}]
            n == Cardinality(U)
            i == attempt % n
<1>1. U \subseteq E /\ U # {} /\ \A e \in U : kinds[e] = sort
    BY DEF Usable, Pool
<1>2. IsFiniteSet(E) /\ E \subseteq Int
    BY FailoverAssumption, UpToFinite DEF E
<1>3. IsFiniteSet(U) /\ n \in Nat /\ n # 0
    BY <1>1, <1>2, FS_Subset, FS_CardinalityType, FS_EmptySet
<1>4. v \in [E -> Int]
    <2>1. ASSUME NEW x \in E PROVE Weights[x] * score[x] \in Int
        <3>1. Weights[x] \in Int /\ score[x] \in Int
            BY FailoverAssumption DEF FailoverTypeOK, E
        <3>. QED BY <3>1
    <2>. QED BY <2>1
<1>5. \A e \in U : Rank(sort, e) = Cardinality(before[e])
    <2>1. ASSUME NEW e \in U
          PROVE  before[e] = {x \in U : Weights[x] * score[x] > Weights[e] * score[e]
                                             \/ (Weights[x] * score[x] = Weights[e] * score[e] /\ x < e)}
        BY <1>1
    <2>. QED BY <2>1 DEF Rank
<1>. HIDE DEF v, U
<1>6. Precedence(U, before)
    <2>1. \A x, y \in U : x \in Int /\ y \in Int /\ v[x] \in Int /\ v[y] \in Int
        BY <1>1, <1>2, <1>4
    <2>2. \A e \in U : before[e] = {x \in U : v[x] > v[e] \/ (v[x] = v[e] /\ x < e)}
        OBVIOUS
    <2>3. before \in [U -> SUBSET U]
        OBVIOUS
    <2>. HIDE DEF before
    <2>4. \A x \in U : x \notin before[x]
        BY <2>1, <2>2
    <2>5. ASSUME NEW x \in U, NEW y \in U, x \in before[y] PROVE before[x] \subseteq before[y]
        <3>. SUFFICES ASSUME NEW z \in before[x] PROVE z \in before[y]
            OBVIOUS
        <3>1. z \in U /\ (v[z] > v[x] \/ (v[z] = v[x] /\ z < x))
            BY <2>2
        <3>2. v[x] > v[y] \/ (v[x] = v[y] /\ x < y)
            BY <2>2, <2>5
        <3>3. v[z] > v[y] \/ (v[z] = v[y] /\ z < y)
            BY <2>1, <3>1, <3>2
        <3>. QED BY <2>2, <3>1, <3>3
    <2>6. ASSUME NEW x \in U, NEW y \in U, x # y PROVE x \in before[y] \/ y \in before[x]
        <3>1. \/ v[x] > v[y] \/ (v[x] = v[y] /\ x < y)
              \/ v[y] > v[x] \/ (v[y] = v[x] /\ y < x)
            BY <2>1, <2>6
        <3>. QED BY <2>2, <3>1
    <2>. QED BY <2>3, <2>4, <2>5, <2>6 DEF Precedence
<1>7. Ranked(U, before)
    <2>. HIDE DEF before
    <2>. QED BY <1>3, <1>6, RanksReached
<1>. HIDE DEF before
<1>8. i \in 0..(n - 1)
    <2>. HIDE DEF n
    <2>. QED BY <1>3
<1>9. \E e \in U : Rank(sort, e) = i
    BY <1>5, <1>7, <1>8 DEF Ranked
<1>10. Pick(sort, attempt) \in U
    BY <1>9 DEF Pick, U
<1>. QED BY <1>1, <1>10

LEMMA StartResilientInv ==
    ASSUME FailoverInv, NEW r \in Requests, NEW op \in {"read", "write"}, NEW sort \in EndpointKinds,
           StartResilient(r, op, sort)
    PROVE  FailoverInv'
<1>. DEFINE q == [NewRequest EXCEPT !.op = op, !.kind = sort]
            p == Pick(sort, 0)
            b == begun[r]
            none == [q EXCEPT !.result = "noEndpoint"]
            ask == [q EXCEPT !.asking = p]
<1>1. /\ request' = [request EXCEPT ![r] = IF Pool(sort) = {} THEN none ELSE ask]
      /\ Untouched /\ UNCHANGED <<setup, ms, healthCursor, begun>>
    BY DEF StartResilient
<1>2. /\ b \in SUBSET E /\ healthCursor' \in E /\ begun' = [begun EXCEPT ![r] = b]
      /\ FailoverTypeOK /\ maxAttempts \in Nat \ {0} /\ Len(<<>>) = 0
    BY <1>1, FailoverAssumption DEF FailoverInv, FailoverTypeOK
<1>3. CASE Pool(sort) = {}
    <2>1. none \in FailoverRequest
        BY NewRequestType DEF FailoverRequest
    <2>2. /\ none.op = op /\ none.kind = sort /\ none.asking = 0 /\ none.left = <<>>
          /\ none.tried = <<>> /\ none.result = "noEndpoint"
        BY NewRequestType DEF FailoverRequest
    <2>. HIDE DEF none, b
    <2>3. RequestTrue(none, b, kinds)
        BY <1>2, <2>2 DEF RequestTrue, OfKind
    <2>. QED BY <1>1, <1>2, <1>3, <2>1, <2>3, UntouchedTrue, RequestMoves
<1>4. CASE Pool(sort) # {}
    <2>0. \E e \in E : kinds[e] = sort
        BY <1>4 DEF Pool
    <2>1. p \in E /\ kinds[p] = sort /\ p \in 0..Endpoints
        BY <1>2, <2>0, PickUsable, FailoverAssumption DEF E
    <2>. HIDE DEF p
    <2>2. ask \in FailoverRequest
        BY <2>1, NewRequestType DEF FailoverRequest
    <2>3. /\ ask.op = op /\ ask.kind = sort /\ ask.asking = p /\ ask.left = <<>>
          /\ ask.tried = <<>> /\ ask.result = "none"
        BY NewRequestType DEF FailoverRequest
    <2>. HIDE DEF ask, b
    <2>4. RequestTrue(ask, b, kinds)
        BY <1>2, <2>0, <2>1, <2>3 DEF RequestTrue, OfKind
    <2>. QED BY <1>1, <1>2, <1>4, <2>2, <2>4, UntouchedTrue, RequestMoves
<1>. QED BY <1>3, <1>4

(* The endpoint asked is listed among those tried. *)
LEMMA TriedNow ==
    ASSUME NEW q \in FailoverRequest, q.asking # 0
    PROVE  /\ q.asking \in E
           /\ Append(q.tried, q.asking) \in Seq(E)
           /\ Len(Append(q.tried, q.asking)) = Len(q.tried) + 1 /\ Len(q.tried) \in Nat
           /\ \A x : Lists(Append(q.tried, q.asking), x) <=> Lists(q.tried, x) \/ q.asking = x
<1>. DEFINE t == q.tried
            a == q.asking
            n == Len(t)
            u == Append(t, a)
<1>1. t \in Seq(E) /\ a \in E /\ n \in Nat
    BY FailoverAssumption DEF FailoverRequest, E
<1>. HIDE DEF t, a
<1>2. u \in Seq(E) /\ Len(u) = n + 1 /\ u[n + 1] = a /\ \A i \in 1..n : u[i] = t[i]
    BY <1>1
<1>. HIDE DEF u, n
<1>3. \A i \in 1..(n + 1) : i \in 1..n \/ i = n + 1
    BY <1>1
<1>4. n + 1 \in 1..(n + 1) /\ \A i \in 1..n : i \in 1..(n + 1)
    BY <1>1
<1>5. ASSUME NEW x PROVE Lists(u, x) <=> Lists(t, x) \/ a = x
    BY <1>2, <1>3, <1>4 DEF Lists, n
<1>. QED BY <1>1, <1>2, <1>5 DEF t, a, u, n

LEMMA TriedDistinct ==
    ASSUME NEW q \in FailoverRequest, q.asking # 0, Distinct(q.tried), ~Lists(q.tried, q.asking)
    PROVE  Distinct(Append(q.tried, q.asking))
<1>. DEFINE t == q.tried
            a == q.asking
            n == Len(t)
            u == Append(t, a)
<1>1. t \in Seq(E) /\ a \in E /\ n \in Nat
    BY FailoverAssumption DEF FailoverRequest, E
<1>2. (\A i, j \in 1..n : t[i] = t[j] => i = j) /\ \A i \in 1..n : t[i] # a
    BY DEF Distinct, Lists
<1>. HIDE DEF t, a
<1>3. u \in Seq(E) /\ Len(u) = n + 1 /\ u[n + 1] = a /\ \A i \in 1..n : u[i] = t[i]
    BY <1>1
<1>. HIDE DEF u, n
<1>4. \A i \in 1..(n + 1) : i \in 1..n \/ i = n + 1
    BY <1>1
<1>5. ASSUME NEW i \in 1..Len(u), NEW j \in 1..Len(u), u[i] = u[j] PROVE i = j
    BY <1>2, <1>3, <1>4, <1>5
<1>. QED BY <1>5 DEF Distinct, t, a, u

LEMMA AnsweredInv ==
    ASSUME FailoverInv, NEW r \in Requests, NEW ok \in BOOLEAN, Answered(r, ok)
    PROVE  FailoverInv'
<1>. DEFINE q == request[r]
            b == begun[r]
            last == q.left = <<>>
            t == Append(q.tried, q.asking)
            on == [q EXCEPT !.tried = t, !.asking = IF last THEN 0 ELSE Head(q.left),
                            !.left = IF last THEN <<>> ELSE Tail(q.left)]
            over == [q EXCEPT !.tried = t, !.asking = 0, !.left = <<>>]
            new == IF q.op = "request" /\ ok THEN [over EXCEPT !.result = "answered"]
                   ELSE IF last THEN [on EXCEPT !.result = IF q.op = "probe" THEN "probed" ELSE "allFailed"]
                   ELSE on
<1>1. /\ q \in FailoverRequest /\ b \in SUBSET E /\ RequestTrue(q, b, kinds)
      /\ request \in [Requests -> FailoverRequest] /\ begun \in [Requests -> SUBSET E]
      /\ healthCursor \in E
    BY DEF FailoverInv, FailoverTypeOK
<1>2. /\ q.asking # 0 /\ q.op \in {"request", "probe"} /\ Record(q.asking, ok)
      /\ request' = [request EXCEPT ![r] = new]
      /\ healthCursor' = IF q.op = "probe" /\ ~last THEN (Head(q.left) % Endpoints) + 1 ELSE healthCursor
      /\ UNCHANGED <<setup, ms, begun>>
    BY DEF Answered
<1>3. begun' = [begun EXCEPT ![r] = b]
    BY <1>1, <1>2
<1>. HIDE DEF q, b
<1>4. /\ q.asking \in E /\ t \in Seq(E) /\ Len(t) = Len(q.tried) + 1
      /\ \A x : Lists(t, x) <=> Lists(q.tried, x) \/ q.asking = x
    BY <1>1, <1>2, TriedNow
<1>5. /\ failures' \in [E -> Nat] /\ openUntil' \in [E -> Nat] /\ score' \in [E -> Int]
      /\ state' \in [E -> EndpointStates] /\ answers' \in [E -> Seq(BOOLEAN)]
      /\ CountsTrue' /\ (connection = ConnectionOf(state))'
    BY <1>2, <1>4, RecordTrue
<1>6. q.left \in Seq(E) /\ q.result = "none" /\ Endpoints \in Nat \ {0}
    BY <1>1, <1>2, FailoverAssumption DEF FailoverRequest, RequestTrue
<1>7. ~last => /\ Head(q.left) \in E /\ Head(q.left) = q.left[1] /\ Tail(q.left) \in Seq(E)
               /\ Len(Tail(q.left)) = Len(q.left) - 1 /\ Len(q.left) \in Nat /\ Len(q.left) >= 1
               /\ \A i \in 1..(Len(q.left) - 1) : Tail(q.left)[i] = q.left[i + 1]
    BY <1>6
<1>8. healthCursor' \in E
    <2>1. \A x \in E : x \in Nat
        BY <1>6 DEF E
    <2>. QED BY <1>1, <1>2, <1>7, <2>1, CursorWraps
<1>. HIDE DEF t
<1>9. /\ new.op = q.op /\ new.tried = t
      /\ new.asking = (IF (q.op = "request" /\ ok) \/ last THEN 0 ELSE Head(q.left))
      /\ new.left = (IF (q.op = "request" /\ ok) \/ last THEN <<>> ELSE Tail(q.left))
      /\ new.result = (IF q.op = "request" /\ ok THEN "answered"
                       ELSE IF last THEN IF q.op = "probe" THEN "probed" ELSE "allFailed" ELSE "none")
      /\ new.kind = q.kind
      /\ new = [op |-> new.op, kind |-> new.kind, asking |-> new.asking, left |-> new.left, tried |-> new.tried,
                result |-> new.result]
    BY <1>1, <1>6 DEF FailoverRequest
<1>. HIDE DEF new, last
<1>10. new \in FailoverRequest
    <2>1. new.left \in Seq(E)
        BY <1>7, <1>9
    <2>2. new.asking \in 0..Endpoints
        BY <1>6, <1>7, <1>9 DEF E
    <2>3. new.op \in {"none", "request", "probe", "read", "write"}
          /\ new.result \in {"none", "answered", "allFailed", "probed"} /\ new.tried \in Seq(E)
          /\ new.kind \in EndpointKinds
        BY <1>1, <1>2, <1>4, <1>9 DEF FailoverRequest
    <2>. QED BY <1>9, <2>1, <2>2, <2>3 DEF FailoverRequest
<1>11. q.op = "request" => InTurn(new, b)
    <2>. SUFFICES ASSUME q.op = "request" PROVE InTurn(new, b)
        OBVIOUS
    <2>1. InTurn(q, b)
        BY <1>1 DEF RequestTrue
    <2>2. Distinct(t) /\ ~Lists(q.tried, q.asking) /\ ~Lists(q.left, q.asking) /\ q.asking \in b
        BY <1>1, <1>2, <2>1, TriedDistinct DEF InTurn, t
    <2>3. \A i \in 1..Len(t) : t[i] \in b
        <3>1. \A i \in 1..Len(t) : Lists(t, t[i])
            BY DEF Lists
        <3>2. \A x : Lists(q.tried, x) => x \in b
            BY <2>1 DEF Lists, InTurn
        <3>. QED BY <1>4, <2>2, <3>1, <3>2
    <2>4. new.asking # 0 =>
            /\ new.asking \in b /\ ~Lists(new.tried, new.asking) /\ ~Lists(new.left, new.asking)
            /\ Distinct(new.left)
            /\ \A i \in 1..Len(new.left) : new.left[i] \in b /\ ~Lists(new.tried, new.left[i])
            /\ \A e \in b : Lists(new.tried, e) \/ new.asking = e \/ Lists(new.left, e)
        <3>. SUFFICES ASSUME new.asking # 0
                      PROVE  /\ new.asking \in b /\ ~Lists(new.tried, new.asking) /\ ~Lists(new.left, new.asking)
                             /\ Distinct(new.left)
                             /\ \A i \in 1..Len(new.left) : new.left[i] \in b /\ ~Lists(new.tried, new.left[i])
                             /\ \A e \in b : Lists(new.tried, e) \/ new.asking = e \/ Lists(new.left, e)
            OBVIOUS
        <3>. DEFINE h == new.asking
                    l == new.left
                    o == q.left
        <3>1. ~last /\ h = Head(o) /\ l = Tail(o)
            BY <1>9
        <3>. HIDE DEF h, l, o
        <3>2. /\ h = o[1] /\ l \in Seq(E) /\ Len(l) = Len(o) - 1 /\ Len(o) \in Nat /\ Len(o) >= 1
              /\ \A i \in 1..Len(l) : l[i] = o[i + 1]
            BY <1>7, <3>1 DEF o
        <3>3. /\ \A i, j \in 1..Len(o) : o[i] = o[j] => i = j
              /\ \A i \in 1..Len(o) : o[i] \in b /\ ~Lists(q.tried, o[i]) /\ o[i] # q.asking
              /\ \A e \in b : Lists(q.tried, e) \/ q.asking = e \/ \E i \in 1..Len(o) : o[i] = e
            BY <1>2, <2>1, <2>2 DEF InTurn, Distinct, Lists, o
        <3>4. 1 \in 1..Len(o) /\ \A i \in 1..Len(l) : i + 1 \in 1..Len(o) /\ i + 1 # 1
            BY <3>2
        <3>5. \A i \in 1..Len(o) : ~Lists(t, o[i])
            BY <1>4, <3>3
        <3>6. h \in b /\ ~Lists(t, h)
            BY <3>2, <3>3, <3>4, <3>5
        <3>7. ~Lists(l, h)
            BY <3>2, <3>3, <3>4 DEF Lists
        <3>8. Distinct(l)
            <4>. SUFFICES ASSUME NEW i \in 1..Len(l), NEW j \in 1..Len(l), l[i] = l[j] PROVE i = j
                BY DEF Distinct
            <4>1. i + 1 = j + 1
                BY <3>2, <3>3, <3>4
            <4>. QED BY <3>2, <4>1
        <3>9. \A i \in 1..Len(l) : l[i] \in b /\ ~Lists(t, l[i])
            BY <3>2, <3>3, <3>4, <3>5
        <3>10. ASSUME NEW e \in b PROVE Lists(t, e) \/ h = e \/ Lists(l, e)
            <4>1. CASE Lists(q.tried, e) \/ q.asking = e
                BY <1>4, <4>1
            <4>2. CASE \E i \in 1..Len(o) : o[i] = e
                <5>1. PICK i \in 1..Len(o) : o[i] = e
                    BY <4>2
                <5>2. CASE i = 1
                    BY <3>2, <5>1, <5>2
                <5>3. CASE i # 1
                    <6>1. i - 1 \in 1..Len(l) /\ (i - 1) + 1 = i
                        BY <3>2, <5>3
                    <6>2. l[i - 1] = o[(i - 1) + 1]
                        BY <3>2, <6>1
                    <6>3. l[i - 1] = e
                        BY <5>1, <6>1, <6>2
                    <6>. QED BY <6>1, <6>3 DEF Lists
                <5>. QED BY <5>2, <5>3
            <4>. QED BY <3>3, <4>1, <4>2
        <3>. QED BY <1>9, <3>6, <3>7, <3>8, <3>9, <3>10 DEF h, l
    <2>5. new.result = "allFailed" => \A e \in b : Lists(new.tried, e)
        <3>. SUFFICES ASSUME new.result = "allFailed", NEW e \in b PROVE Lists(t, e)
            BY <1>9
        <3>1. q.left = <<>>
            BY <1>9 DEF last
        <3>2. ~Lists(q.left, e)
            BY <3>1 DEF Lists
        <3>3. Lists(q.tried, e) \/ q.asking = e
            BY <1>2, <2>1, <3>2 DEF InTurn
        <3>. QED BY <1>4, <3>3
    <2>. QED BY <1>9, <2>2, <2>3, <2>4, <2>5 DEF InTurn
<1>12. RequestTrue(new, b, kinds)
    BY <1>2, <1>9, <1>11 DEF RequestTrue
<1>. QED BY <1>1, <1>2, <1>3, <1>5, <1>8, <1>10, <1>12, RequestMoves

LEMMA ResilientAnsweredInv ==
    ASSUME FailoverInv, NEW r \in Requests, NEW o \in {"ok", "fault", "error"}, ResilientAnswered(r, o)
    PROVE  FailoverInv'
<1>. DEFINE q == request[r]
            b == begun[r]
            t == Append(q.tried, q.asking)
            again == q.op = "read" /\ o = "fault" /\ Len(q.tried) + 1 < maxAttempts
            done == [q EXCEPT !.tried = t, !.asking = 0]
            new == [done EXCEPT !.result = IF again THEN "none"
                                           ELSE IF o = "fault" THEN "allFailed" ELSE "answered"]
<1>1. /\ q \in FailoverRequest /\ b \in SUBSET E /\ RequestTrue(q, b, kinds)
      /\ request \in [Requests -> FailoverRequest] /\ begun \in [Requests -> SUBSET E]
      /\ healthCursor \in E
    BY DEF FailoverInv, FailoverTypeOK
<1>2. /\ q.asking # 0 /\ q.op \in {"read", "write"}
      /\ IF o = "error" THEN Untouched ELSE Record(q.asking, o = "ok")
      /\ request' = [request EXCEPT ![r] = new]
      /\ UNCHANGED <<setup, ms, healthCursor, begun>>
    BY DEF ResilientAnswered
<1>3. begun' = [begun EXCEPT ![r] = b]
    BY <1>1, <1>2
<1>. HIDE DEF q, b
<1>4. /\ q.asking \in E /\ t \in Seq(E) /\ Len(t) = Len(q.tried) + 1 /\ Len(q.tried) \in Nat
      /\ \A x : Lists(t, x) <=> Lists(q.tried, x) \/ q.asking = x
    BY <1>1, <1>2, TriedNow
<1>5. /\ failures' \in [E -> Nat] /\ openUntil' \in [E -> Nat] /\ score' \in [E -> Int]
      /\ state' \in [E -> EndpointStates] /\ answers' \in [E -> Seq(BOOLEAN)]
      /\ CountsTrue' /\ (connection = ConnectionOf(state))'
    <2>1. CASE o = "error"
        BY <1>2, <2>1, UntouchedTrue
    <2>2. CASE o # "error"
        <3>1. (o = "ok") \in BOOLEAN /\ Record(q.asking, o = "ok")
            BY <1>2, <2>2
        <3>. QED BY <1>4, <3>1, RecordTrue
    <2>. QED BY <2>1, <2>2
<1>. HIDE DEF t, again
<1>6. /\ done \in FailoverRequest /\ done.op = q.op /\ done.tried = t /\ done.asking = 0
      /\ done.left = q.left /\ done.kind = q.kind
    <2>1. 0 \in 0..Endpoints
        BY FailoverAssumption
    <2>. QED BY <1>1, <1>4, <2>1 DEF FailoverRequest
<1>. HIDE DEF done
<1>7. /\ new \in FailoverRequest
      /\ new.op = q.op /\ new.tried = t /\ new.asking = 0 /\ new.left = q.left /\ new.kind = q.kind
      /\ new.result = (IF again THEN "none" ELSE IF o = "fault" THEN "allFailed" ELSE "answered")
    BY <1>6 DEF FailoverRequest
<1>. HIDE DEF new
<1>8. RequestTrue(new, b, kinds)
    <2>0. OfKind(q, kinds) /\ q.result = "none" /\ maxAttempts \in Nat \ {0}
        BY <1>1, <1>2, FailoverAssumption DEF RequestTrue
    <2>1. q.op = "write" => Len(t) <= 1
        <3>. SUFFICES ASSUME q.op = "write" PROVE Len(t) <= 1
            OBVIOUS
        <3>1. q.tried = <<>>
            BY <1>2, <2>0 DEF OfKind
        <3>2. Len(q.tried) = 0
            BY <3>1
        <3>. QED BY <1>4, <3>2
    <2>2. \A i \in 1..Len(t) : kinds[t[i]] = q.kind
        <3>1. \A i \in 1..Len(t) : Lists(t, t[i])
            BY DEF Lists
        <3>2. \A x : Lists(q.tried, x) => kinds[x] = q.kind
            BY <2>0 DEF Lists, OfKind
        <3>3. kinds[q.asking] = q.kind
            BY <1>2, <2>0 DEF OfKind
        <3>. QED BY <1>4, <3>1, <3>2, <3>3
    <2>3. q.op = "read" => /\ new.result = "none" => Len(t) < maxAttempts
                           /\ new.result = "allFailed" => Len(t) = maxAttempts
        <3>. SUFFICES ASSUME q.op = "read"
                      PROVE  /\ new.result = "none" => Len(t) < maxAttempts
                             /\ new.result = "allFailed" => Len(t) = maxAttempts
            OBVIOUS
        <3>1. Len(q.tried) < maxAttempts
            BY <2>0 DEF OfKind
        <3>. QED BY <1>4, <1>7, <2>0, <3>1 DEF again
    <2>4. OfKind(new, kinds)
        BY <1>2, <1>7, <2>0, <2>1, <2>2, <2>3 DEF OfKind
    <2>. QED BY <1>2, <1>7, <2>4 DEF RequestTrue
<1>. QED BY <1>1, <1>2, <1>3, <1>5, <1>7, <1>8, RequestMoves

LEMMA ReadAgainInv == ASSUME FailoverInv, NEW r \in Requests, ReadAgain(r) PROVE FailoverInv'
<1>. DEFINE q == request[r]
            b == begun[r]
            p == Pick(q.kind, Len(q.tried))
            new == [q EXCEPT !.asking = p]
<1>1. /\ q \in FailoverRequest /\ b \in SUBSET E /\ RequestTrue(q, b, kinds)
      /\ request \in [Requests -> FailoverRequest] /\ begun \in [Requests -> SUBSET E]
      /\ healthCursor \in E
    BY DEF FailoverInv, FailoverTypeOK
<1>2. /\ q.op = "read" /\ q.result = "none" /\ Untouched
      /\ request' = [request EXCEPT ![r] = new]
      /\ UNCHANGED <<setup, ms, healthCursor, begun>>
    BY <1>1 DEF ReadAgain
<1>3. begun' = [begun EXCEPT ![r] = b]
    BY <1>1, <1>2
<1>4. p \in E /\ kinds[p] = q.kind
    <2>1. Len(q.tried) \in Nat
        BY <1>1 DEF FailoverRequest
    <2>2. \E e \in E : kinds[e] = q.kind
        BY <1>1, <1>2 DEF RequestTrue, OfKind
    <2>. QED BY <2>1, <2>2, PickUsable DEF FailoverInv
<1>. HIDE DEF q, b, p
<1>5. /\ new.op = q.op /\ new.tried = q.tried /\ new.asking = p /\ new.left = q.left
      /\ new.result = q.result /\ new.kind = q.kind
    BY <1>1 DEF FailoverRequest
<1>6. new \in FailoverRequest
    <2>1. p \in 0..Endpoints
        BY <1>4, FailoverAssumption DEF E
    <2>. QED BY <1>1, <2>1 DEF FailoverRequest
<1>. HIDE DEF new
<1>7. RequestTrue(new, b, kinds)
    BY <1>1, <1>2, <1>4, <1>5 DEF RequestTrue, OfKind
<1>. QED BY <1>1, <1>2, <1>3, <1>6, <1>7, UntouchedTrue, RequestMoves

LEMMA ClockInv == ASSUME FailoverInv, Clock PROVE FailoverInv'
<1>1. /\ UNCHANGED <<transport, kinds, healthCursor, request, begun>> /\ Untouched /\ ms' = ms + 1
    BY DEF Clock, setup
<1>2. FailoverTypeOK'
    BY <1>1, UntouchedTrue DEF FailoverInv, FailoverTypeOK
<1>. QED BY <1>1, <1>2, UntouchedTrue DEF FailoverInv

LEMMA FailoverNextInv == FailoverInv /\ [FailoverNext]_failoverVars => FailoverInv'
<1>. SUFFICES ASSUME FailoverInv, [FailoverNext]_failoverVars PROVE FailoverInv'
    OBVIOUS
<1>1. CASE UNCHANGED failoverVars
    BY <1>1 DEF failoverVars, FailoverInv, FailoverTypeOK, CountsTrue, ConnectionOf
<1>2. CASE FailoverNext
    BY <1>2, StartRequestInv, StartHealthCheckInv, AnsweredInv, StartResilientInv,
       ResilientAnsweredInv, ReadAgainInv, ClockInv DEF FailoverNext
<1>. QED BY <1>1, <1>2

(* As many distinct endpoints as entries. *)
LEMMA DistinctCounts ==
    ASSUME NEW s \in Seq(E), Distinct(s)
    PROVE  Cardinality({s[i] : i \in DOMAIN s}) = Len(s)
<1>. DEFINE S == {s[i] : i \in DOMAIN s}
            n == Len(s)
<1>1. n \in Nat /\ DOMAIN s = 1..n
    OBVIOUS
<1>2. s \in [1..n -> S]
    BY <1>1
<1>3. s \in Injection(1..n, S) /\ s \in Surjection(1..n, S)
    BY <1>1, <1>2 DEF Distinct, Injection, IsInjective, Surjection
<1>4. IsFiniteSet(1..n) /\ Cardinality(1..n) = n
    BY <1>1, UpToFinite
<1>. HIDE DEF S, n
<1>5. Cardinality(S) = n
    BY <1>3, <1>4, FS_Surjection
<1>. QED BY <1>5 DEF S, n

(* The JavaScript transports, over any requests, retries and probes and    *)
(* whatever the order of their answers: a circuit is open exactly after    *)
(* threshold failures in a row, in order of arrival, and the connection    *)
(* state is that of the endpoints together (record, markSuccess,           *)
(* markFailure).  A FailoverRpcClient request reports "all failed" only    *)
(* after every endpoint usable at its start was asked, each once           *)
(* (candidateOrder, request).  A ResilientTransport read gives up only     *)
(* after all its attempts, whichever endpoints these reached; a write is   *)
(* sent once; neither leaves its kind of endpoint (pick, read, write).     *)
THEOREM CircuitsStayTruthful == FailoverSpec => []CircuitsTruthful
<1>1. FailoverInv => CircuitsTruthful
    <2>. SUFFICES ASSUME FailoverInv PROVE CircuitsTruthful
        OBVIOUS
    <2>1. ASSUME NEW e \in E
          PROVE  (openUntil[e] # 0 <=> FailureRun(e) >= threshold) /\ failures[e] = FailureRun(e)
        <3>1. answers[e] \in Seq(BOOLEAN) /\ EndsWith(answers[e], failures[e])
              /\ (openUntil[e] # 0 <=> failures[e] >= threshold)
            BY DEF FailoverInv, FailoverTypeOK, CountsTrue
        <3>2. FailureRun(e) = failures[e]
            BY <3>1, RunLength
        <3>. QED BY <3>1, <3>2
    <2>2. ASSUME NEW r \in Requests
          PROVE  LET q == request[r]
                     asked == {q.tried[i] : i \in DOMAIN q.tried}
                 IN  /\ q.op = "request" => /\ Cardinality(asked) = Len(q.tried)
                                            /\ asked \subseteq begun[r]
                                            /\ q.result = "allFailed" => asked = begun[r]
                     /\ q.result = "failFast" => begun[r] = {} /\ asked = {}
                     /\ q.op = "read" /\ q.result = "allFailed" => Len(q.tried) = maxAttempts
                     /\ q.op = "write" => Len(q.tried) <= 1
                     /\ q.op \in {"read", "write"} => \A e \in asked : kinds[e] = q.kind
        <3>. DEFINE q == request[r]
                    b == begun[r]
                    t == q.tried
                    asked == {t[i] : i \in DOMAIN t}
        <3>1. RequestTrue(q, b, kinds) /\ t \in Seq(E) /\ DOMAIN t = 1..Len(t)
            BY DEF FailoverInv, FailoverTypeOK, FailoverRequest
        <3>2. q.op = "request" => /\ Cardinality(asked) = Len(t)
                                  /\ asked \subseteq b
                                  /\ q.result = "allFailed" => asked = b
            <4>. SUFFICES ASSUME q.op = "request"
                          PROVE  /\ Cardinality(asked) = Len(t)
                                 /\ asked \subseteq b
                                 /\ q.result = "allFailed" => asked = b
                OBVIOUS
            <4>1. InTurn(q, b)
                BY <3>1 DEF RequestTrue
            <4>. HIDE DEF q, b
            <4>2. Distinct(t) /\ (\A i \in 1..Len(t) : t[i] \in b)
                  /\ (q.result = "allFailed" => \A e \in b : \E i \in 1..Len(t) : t[i] = e)
                BY <4>1 DEF InTurn, Lists
            <4>. HIDE DEF t
            <4>3. Cardinality(asked) = Len(t)
                BY <3>1, <4>2, DistinctCounts
            <4>4. asked \subseteq b /\ (q.result = "allFailed" => asked = b)
                BY <3>1, <4>2
            <4>. QED BY <4>3, <4>4
        <3>3. q.result = "failFast" => b = {} /\ asked = {}
            BY <3>1 DEF RequestTrue
        <3>4. /\ q.op = "read" /\ q.result = "allFailed" => Len(t) = maxAttempts
              /\ q.op = "write" => Len(t) <= 1
            BY <3>1 DEF RequestTrue, OfKind
        <3>5. q.op \in {"read", "write"} => \A e \in asked : kinds[e] = q.kind
            BY <3>1 DEF RequestTrue, OfKind
        <3>. QED BY <3>2, <3>3, <3>4, <3>5
    <2>3. connection = ConnectionOf(state)
        BY DEF FailoverInv
    <2>. QED BY <2>1, <2>2, <2>3 DEF CircuitsTruthful
<1>. QED BY <1>1, FailoverInitInv, FailoverNextInv, PTL DEF FailoverSpec
------------------------------------------------------------------------------
(* The React hooks.                                                        *)

HookView == [status : {"idle", "pending", "success", "error"}, call : Executions \cup {NoExecution}]

HooksTypeOK ==
    /\ height \in Nat /\ requestId \in Nat /\ displayed \in Nat
    /\ keyPrefix \in KeyPrefixes /\ rendered \subseteq KeyPrefixes
    /\ mounted \in BOOLEAN /\ switched \in BOOLEAN
    /\ transaction \in HookView
    /\ newest \in Executions \cup {NoExecution}
    /\ submission \in [Executions -> [phase : {"new", "submitting", "resolved", "rejected"},
                                      id : Nat, key : KeyPrefixes, landed : Nat]]
    /\ fetching \in [KeyPrefixes -> [phase : {"none", "asked", "served"}, seen : Nat]]

(* Ids grow, and the current one can only be the newest execution's, which *)
(* has it unless the client was replaced; what landed is on the ledger.    *)
IdsOrdered ==
    /\ \A c \in Executions : submission[c].phase # "new" =>
         submission[c].id <= requestId /\ (submission[c].id = requestId => c = newest)
    /\ \A c \in Executions : submission[c].landed <= height
    /\ newest # NoExecution => submission[newest].phase # "new"
    /\ mounted /\ ~switched /\ newest # NoExecution => submission[newest].id = requestId

(* What the hook shows is what became of the execution it is about. *)
ViewTrue ==
    /\ transaction.status = "idle" <=> transaction.call = NoExecution
    /\ mounted => transaction.call = newest
    /\ mounted /\ transaction.status = "pending" =>
         submission[newest].phase = "submitting" \/ switched
    /\ ~mounted => transaction = departed
    /\ transaction.status = "error" => submission[transaction.call].phase = "rejected"
    /\ transaction.status = "success" =>
         /\ submission[transaction.call].phase = "resolved"
         /\ submission[transaction.call].landed \in 1..height

(* No read under way for the key of a success that is shown is older than  *)
(* its transaction, and without one the value on display is not.           *)
ReadsFresh ==
    /\ \A k \in KeyPrefixes : fetching[k].phase = "none" => fetching[k] = NoRead
    /\ mounted /\ transaction.status = "success" =>
         LET s == submission[transaction.call]
         IN  /\ fetching[s.key].phase = "served" => fetching[s.key].seen >= s.landed
             /\ s.key = keyPrefix /\ fetching[s.key].phase = "none" => displayed >= s.landed

HooksInv == HooksTypeOK /\ IdsOrdered /\ ViewTrue /\ ReadsFresh

LEMMA HooksInitInv == HooksInit => HooksInv
<1>. SUFFICES ASSUME HooksInit PROVE HooksInv
    OBVIOUS
<1>1. HooksTypeOK
    BY HooksAssumption DEF HooksInit, HooksTypeOK, HookView, INITIAL, Read, NoRead
<1>2. IdsOrdered /\ ViewTrue
    BY DEF HooksInit, IdsOrdered, ViewTrue, INITIAL
<1>3. ReadsFresh
    BY DEF HooksInit, ReadsFresh, INITIAL, Read, NoRead
<1>. QED BY <1>1, <1>2, <1>3 DEF HooksInv

(* The reads move nothing but themselves and the value on display. *)
LEMMA HookReadsInv ==
    ASSUME HooksInv,
           \/ Refocus
           \/ \E k \in KeyPrefixes : ReadServed(k)
           \/ \E k \in KeyPrefixes, lost \in BOOLEAN : ReadEnds(k, lost)
    PROVE  HooksInv'
<1>1. CASE Refocus
    <2>1. HooksTypeOK' /\ IdsOrdered' /\ ViewTrue'
        BY <1>1 DEF HooksInv, HooksTypeOK, IdsOrdered, ViewTrue, Refocus, Reading, Read, NoRead
    <2>2. ReadsFresh'
        BY <1>1 DEF HooksInv, HooksTypeOK, HookView, ReadsFresh, ViewTrue, Refocus, Reading, Read, NoRead
    <2>. QED BY <2>1, <2>2 DEF HooksInv
<1>2. ASSUME NEW k \in KeyPrefixes, ReadServed(k) PROVE HooksInv'
    <2>1. HooksTypeOK' /\ IdsOrdered' /\ ViewTrue'
        BY <1>2 DEF HooksInv, HooksTypeOK, IdsOrdered, ViewTrue, ReadServed, Read
    <2>2. ReadsFresh'
        BY <1>2 DEF HooksInv, HooksTypeOK, HookView, ReadsFresh, ViewTrue, ReadServed, Read, NoRead
    <2>. QED BY <2>1, <2>2 DEF HooksInv
<1>3. ASSUME NEW k \in KeyPrefixes, NEW lost \in BOOLEAN, ReadEnds(k, lost) PROVE HooksInv'
    <2>1. HooksTypeOK' /\ IdsOrdered' /\ ViewTrue'
        BY <1>3 DEF HooksInv, HooksTypeOK, IdsOrdered, ViewTrue, ReadEnds, Read, NoRead
    <2>2. ReadsFresh'
        BY <1>3 DEF HooksInv, HooksTypeOK, HookView, ReadsFresh, ViewTrue, ReadEnds, Read, NoRead
    <2>. QED BY <2>1, <2>2 DEF HooksInv
<1>. QED BY <1>1, <1>2, <1>3

LEMMA RenderInv ==
    ASSUME HooksInv, NEW p \in KeyPrefixes, NEW other \in BOOLEAN, Render(p[1], other)
    PROVE  HooksInv'
<1>. DEFINE replaced == other \/ (~injected /\ p[1] # keyPrefix[1])
            key == <<p[1], IF replaced THEN keyPrefix[2] + 1 ELSE keyPrefix[2]>>
<1>1. /\ mounted /\ key \in KeyPrefixes
      /\ keyPrefix' = key /\ rendered' = rendered \cup {key}
      /\ requestId' = IF replaced THEN requestId + 1 ELSE requestId
      /\ switched' = (switched \/ replaced)
      /\ displayed' = 0 /\ fetching' = Reading(key)
      /\ UNCHANGED <<height, injected, mounted, transaction, submission, newest, departed>>
    BY DEF Render
<1>. HIDE DEF key
<1>2. switched' \in BOOLEAN /\ (switched => switched')
    BY <1>1 DEF HooksInv, HooksTypeOK
<1>3. HooksTypeOK'
    BY <1>1, <1>2 DEF HooksInv, HooksTypeOK, Reading, Read
<1>4. IdsOrdered'
    <2>1. CASE replaced
        <3>1. switched'
            BY <1>1, <2>1
        <3>2. requestId' = requestId + 1 /\ newest' = newest /\ submission' = submission
              /\ height' = height
            BY <1>1, <2>1
        <3>. QED BY <3>1, <3>2 DEF HooksInv, HooksTypeOK, IdsOrdered
    <2>2. CASE ~replaced
        BY <1>1, <2>2 DEF HooksInv, HooksTypeOK, IdsOrdered
    <2>. QED BY <2>1, <2>2
<1>5. ViewTrue'
    BY <1>1, <1>2 DEF HooksInv, ViewTrue
<1>6. ReadsFresh'
    BY <1>1 DEF HooksInv, HooksTypeOK, HookView, ViewTrue, ReadsFresh, Reading, Read, NoRead
<1>. QED BY <1>3, <1>4, <1>5, <1>6 DEF HooksInv

LEMMA UnmountInv == ASSUME HooksInv, Unmount PROVE HooksInv'
<1>1. HooksTypeOK'
    <2>1. mounted' \in BOOLEAN
        BY DEF Unmount
    <2>1a. requestId' \in Nat /\ displayed' \in Nat
        BY DEF HooksInv, HooksTypeOK, Unmount
    <2>2. fetching' \in [KeyPrefixes -> [phase : {"none", "asked", "served"}, seen : Nat]]
        BY DEF Unmount, Read, NoRead
    <2>. QED BY <2>1, <2>1a, <2>2 DEF HooksInv, HooksTypeOK, Unmount
<1>2. IdsOrdered'
    BY DEF HooksInv, HooksTypeOK, IdsOrdered, Unmount
<1>3. ViewTrue'
    BY DEF HooksInv, ViewTrue, Unmount
<1>4. ReadsFresh'
    BY DEF HooksInv, ReadsFresh, Unmount, Read, NoRead
<1>. QED BY <1>1, <1>2, <1>3, <1>4 DEF HooksInv

LEMMA ExecuteInv ==
    ASSUME HooksInv, NEW c \in Executions, NEW k \in KeyPrefixes, Execute(c, k) PROVE HooksInv'
<1>1. HooksTypeOK'
    <2>1. transaction' \in HookView /\ switched' \in BOOLEAN
        BY DEF HooksInv, HooksTypeOK, HookView, Execute
    <2>2. /\ requestId' \in Nat
          /\ submission' \in [Executions -> [phase : {"new", "submitting", "resolved", "rejected"},
                                            id : Nat, key : KeyPrefixes, landed : Nat]]
        BY DEF HooksInv, HooksTypeOK, Execute
    <2>. QED BY <2>1, <2>2 DEF HooksInv, HooksTypeOK, Execute, swrVars
<1>2. IdsOrdered'
    BY HooksAssumption DEF HooksInv, HooksTypeOK, IdsOrdered, Execute
<1>3. ViewTrue'
    BY HooksAssumption DEF HooksInv, HooksTypeOK, HookView, ViewTrue, Execute
<1>4. ReadsFresh'
    BY DEF HooksInv, HooksTypeOK, HookView, ViewTrue, ReadsFresh, Execute, swrVars
<1>. QED BY <1>1, <1>2, <1>3, <1>4 DEF HooksInv

LEMMA LandsInv == ASSUME HooksInv, NEW c \in Executions, Lands(c) PROVE HooksInv'
<1>1. HooksTypeOK'
    BY DEF HooksInv, HooksTypeOK, Lands, swrVars
<1>2. IdsOrdered'
    BY DEF HooksInv, HooksTypeOK, IdsOrdered, Lands
<1>3. ViewTrue'
    BY DEF HooksInv, HooksTypeOK, HookView, ViewTrue, Lands
<1>4. ReadsFresh'
    BY DEF HooksInv, HooksTypeOK, HookView, ViewTrue, ReadsFresh, Lands, swrVars
<1>. QED BY <1>1, <1>2, <1>3, <1>4 DEF HooksInv

LEMMA SettleInv ==
    ASSUME HooksInv, NEW c \in Executions, NEW ok \in BOOLEAN, Settle(c, ok) PROVE HooksInv'
<1>1. HooksTypeOK'
    BY DEF HooksInv, HooksTypeOK, HookView, Settle, Revalidated, Read, NoRead
<1>2. IdsOrdered'
    BY DEF HooksInv, HooksTypeOK, IdsOrdered, Settle
<1>3. ViewTrue'
    <2>1. CASE IsCurrent(c)
        <3>1. c = newest /\ mounted /\ mounted' = mounted /\ newest' = newest /\ height' = height
            BY <2>1 DEF HooksInv, IdsOrdered, Settle, IsCurrent
        <3>2. transaction' = [status |-> IF ok THEN "success" ELSE "error", call |-> c]
            BY <2>1 DEF Settle
        <3>3. /\ submission'[c].phase = IF ok THEN "resolved" ELSE "rejected"
              /\ submission'[c].landed = submission[c].landed
              /\ ok => submission[c].landed \in 1..height
            BY DEF HooksInv, HooksTypeOK, IdsOrdered, Settle
        <3>. QED BY <3>1, <3>2, <3>3, HooksAssumption DEF ViewTrue
    <2>2. CASE ~IsCurrent(c)
        <3>1. /\ transaction' = transaction /\ mounted' = mounted /\ newest' = newest /\ departed' = departed
              /\ switched' = switched /\ height' = height
            BY <2>2 DEF Settle
        <3>2. \A d \in Executions : submission'[d].landed = submission[d].landed
                                   /\ (d # c => submission'[d].phase = submission[d].phase)
            BY DEF HooksInv, HooksTypeOK, Settle
        <3>3. mounted /\ ~switched => c # newest
            BY <2>2, HooksAssumption DEF HooksInv, IdsOrdered, IsCurrent
        <3>4. transaction.call \in Executions \cup {NoExecution} /\ newest \in Executions \cup {NoExecution}
            BY DEF HooksInv, HooksTypeOK, HookView
        <3>5. transaction.status \in {"success", "error"} =>
                transaction.call \in Executions /\ transaction.call # c
            BY <3>4 DEF HooksInv, ViewTrue, Settle
        <3>6. mounted /\ transaction.status = "pending" => newest \in Executions
            BY <3>4 DEF HooksInv, ViewTrue
        <3>. QED BY <3>1, <3>2, <3>3, <3>5, <3>6 DEF HooksInv, ViewTrue
    <2>. QED BY <2>1, <2>2
<1>4. ReadsFresh'
    BY HooksAssumption DEF HooksInv, HooksTypeOK, HookView, ViewTrue, ReadsFresh, Settle, IsCurrent,
       Revalidated, Read, NoRead
<1>. QED BY <1>1, <1>2, <1>3, <1>4 DEF HooksInv

LEMMA ResetInv == ASSUME HooksInv, Reset PROVE HooksInv'
<1>1. HooksTypeOK'
    <2>1. transaction' \in HookView
        BY DEF HooksInv, HooksTypeOK, HookView, INITIAL, Reset
    <2>2. switched' \in BOOLEAN
        BY DEF Reset
    <2>3. requestId' \in Nat
        BY DEF HooksInv, HooksTypeOK, Reset
    <2>. QED BY <2>1, <2>2, <2>3 DEF HooksInv, HooksTypeOK, Reset, swrVars
<1>2. IdsOrdered'
    BY DEF HooksInv, HooksTypeOK, IdsOrdered, Reset
<1>3. ViewTrue'
    BY DEF HooksInv, HooksTypeOK, HookView, ViewTrue, INITIAL, Reset
<1>4. ReadsFresh'
    BY DEF HooksInv, ReadsFresh, INITIAL, Reset, swrVars
<1>. QED BY <1>1, <1>2, <1>3, <1>4 DEF HooksInv

LEMMA HooksNextInv == HooksInv /\ [HooksNext]_hookVars => HooksInv'
<1>. SUFFICES ASSUME HooksInv, [HooksNext]_hookVars PROVE HooksInv'
    OBVIOUS
<1>1. CASE UNCHANGED hookVars
    BY <1>1 DEF hookVars, HooksInv, HooksTypeOK, IdsOrdered, ViewTrue, ReadsFresh
<1>2. CASE HooksNext
    BY <1>2, HookReadsInv, RenderInv, UnmountInv, ExecuteInv, LandsInv, SettleInv, ResetInv DEF HooksNext
<1>. QED BY <1>1, <1>2

(* For any number of overlapping executions, clients and configurations, a *)
(* mounted mutation hook shows what became of the execution started last;  *)
(* an unmounted one never changes; and a success it shows is one that its  *)
(* query has read, or will read from a request made since.                 *)
THEOREM HooksStayHonest == HooksSpec => []HooksHonest
<1>1. HooksInv => HooksHonest
    <2>. SUFFICES ASSUME HooksInv PROVE HooksHonest
        OBVIOUS
    <2>1. ASSUME transaction.status = "success"
          PROVE  LET s == submission[transaction.call]
                 IN  mounted /\ s.key = keyPrefix =>
                       \/ displayed >= s.landed
                       \/ fetching[keyPrefix].phase = "asked"
                       \/ fetching[keyPrefix].seen >= s.landed
        BY <2>1 DEF HooksInv, HooksTypeOK, HookView, ViewTrue, ReadsFresh
    <2>. QED BY <2>1 DEF HooksInv, ViewTrue, HooksHonest
<1>. QED BY <1>1, HooksInitInv, HooksNextInv, PTL DEF HooksSpec
==============================================================================
