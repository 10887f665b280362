--------------------------- MODULE SequenceManager ---------------------------
(***************************************************************************)
(* How the SDK hands out the transaction sequence numbers of one account   *)
(* to callers that write at the same time                                  *)
(* (packages/soroban-sas-sdk/src/sequence.rs), together with the write     *)
(* loop that uses it (SASClient::submit_write in client.rs) and the        *)
(* blocking submission (TransactionSubmitter in transaction.rs).  Every    *)
(* method of the manager runs under its mutex, so it is one step; a write  *)
(* is a step each for reserving, building, sending, settling and           *)
(* reporting, and steps of several callers interleave.                     *)
(*                                                                         *)
(* The network is external.  Of it the code knows that a transaction must  *)
(* carry the account's sequence plus one, and that inclusion, successful   *)
(* or not, advances the account.  A transaction can be lost, or included   *)
(* after its sender has given up.  What goes wrong, and calls for recovery *)
(* by the application, are counted and bounded.                            *)
(*                                                                         *)
(* A bad-sequence rejection makes submit_write reserve once more for the   *)
(* same call; here that is the caller's next write.                        *)
(***************************************************************************)
EXTENDS Naturals, FiniteSets

CONSTANTS
    Callers,      \* threads and tasks writing from the account
    NoCaller,     \* nobody waits for this transaction any more
    Strict,       \* the network refuses a number ahead of its turn
    MaxSeq,       \* bound: last sequence number handed out
    MaxDisturbed  \* bound: how many disturbances happen

ASSUME SequenceAssumption ==
    /\ NoCaller \notin Callers
    /\ Strict \in BOOLEAN
    /\ MaxSeq \in Nat
    /\ MaxDisturbed \in Nat

VARIABLES
    chain,         \* the account's sequence on the network
    queue,         \* transactions the network holds: [by, seq]
    initialized,   \* AccountState.initialized
    on_chain,      \* AccountState.on_chain_sequence
    last_reserved, \* AccountState.last_reserved
    recycled,      \* AccountState.recycled
    in_flight,     \* AccountState.in_flight
    pc,            \* where each caller is
    held,          \* its SequenceReservation (or what a sync has fetched)
    disturbed,     \* history: how many disturbances there were
    dropped,       \* history: a reservation was dropped without a report
    resynced       \* history: resync was called

managerVars == <<initialized, on_chain, last_reserved, recycled, in_flight>>
historyVars == <<disturbed, dropped, resynced>>
vars == <<chain, queue, managerVars, pc, held, historyVars>>

Phases == {"idle", "reserved", "waiting", "ok", "failed", "syncing"}

Live(c) == pc[c] \in {"reserved", "waiting", "ok", "failed"}

Transactions == [by : Callers \cup {NoCaller}, seq : 1..MaxSeq]

Tx(c) == [by |-> c, seq |-> held[c]]

Lowest(S) == CHOOSE n \in S : \A m \in S : n <= m

Disturb == disturbed < MaxDisturbed /\ disturbed' = disturbed + 1

At(c, p) == pc' = [pc EXCEPT ![c] = p]

------------------------------------------------------------------------------
(* The manager's methods.                                                  *)

(* reserve, with the number `n` it returns.  An account that is not        *)
(* initialized is read from the network first, under the lock.             *)
ReserveNumber(n) ==
    LET last   == IF initialized THEN last_reserved ELSE chain
        gaps   == IF initialized THEN recycled ELSE {}
        flight == IF initialized THEN in_flight ELSE {}
    IN  /\ n = IF gaps = {} THEN last + 1 ELSE Lowest(gaps)
        /\ initialized' = TRUE
        /\ on_chain' = IF initialized THEN on_chain ELSE chain
        /\ last_reserved' = IF gaps = {} THEN n ELSE last
        /\ recycled' = gaps \ {n}
        /\ in_flight' = flight \cup {n}

Commit(n) ==
    /\ in_flight' = in_flight \ {n}
    /\ on_chain' = IF n > on_chain THEN n ELSE on_chain
    /\ UNCHANGED <<initialized, last_reserved, recycled>>

(* Mutant: every failure resets the cached sequence. *)
RecordFailure_Reset(n) ==
    /\ in_flight' = in_flight \ {n}
    /\ initialized' = FALSE
    /\ last_reserved' = on_chain
    /\ UNCHANGED <<on_chain, recycled>>

(* Mutant: a failure beside others in flight leaves the gap open. *)
RecordFailure_Gap(n) ==
    LET rest == in_flight \ {n}
        last_one == rest = {} /\ recycled = {}
    IN  /\ in_flight' = rest
        /\ initialized' = IF last_one THEN FALSE ELSE initialized
        /\ last_reserved' = IF last_one THEN on_chain ELSE last_reserved
        /\ UNCHANGED <<on_chain, recycled>>

(* Mutant: the cached sequence is never given up. *)
RecordFailure_Keep(n) ==
    /\ in_flight' = in_flight \ {n}
    /\ recycled' = recycled \cup {n}
    /\ UNCHANGED <<initialized, on_chain, last_reserved>>

(* The last failure resets the cached sequence, any other is recycled.     *)
RecordFailure(n) ==
    LET rest == in_flight \ {n}
        last_one == rest = {} /\ recycled = {}
    IN  /\ in_flight' = rest
        /\ initialized' = IF last_one THEN FALSE ELSE initialized
        /\ last_reserved' = IF last_one THEN on_chain ELSE last_reserved
        /\ recycled' = IF last_one THEN recycled ELSE recycled \cup {n}
        /\ UNCHANGED on_chain

(* sync_on_chain once it has the lock; `current` was read before that.     *)
SyncOnChain(current) ==
    /\ on_chain' = current
    /\ initialized' = TRUE
    /\ recycled' = {n \in recycled : n > current}
    /\ in_flight' = {n \in in_flight : n > current}
    /\ last_reserved' = IF last_reserved < current THEN current ELSE last_reserved

------------------------------------------------------------------------------
(* submit_write, one caller's view.                                        *)

Reserve(c) ==
    /\ pc[c] = "idle"
    /\ \E n \in 1..MaxSeq : ReserveNumber(n) /\ held' = [held EXCEPT ![c] = n]
    /\ At(c, "reserved")
    /\ UNCHANGED <<chain, queue, historyVars>>

(* Simulating or signing fails and `?` returns: the reservation is dropped. *)
BuildFails(c) ==
    /\ pc[c] = "reserved"
    /\ Disturb
    /\ dropped' = TRUE
    /\ At(c, "idle")
    /\ UNCHANGED <<chain, queue, managerVars, held, resynced>>

Acceptable(n) == n > chain /\ (Strict => n = chain + 1)

Send(c) ==
    /\ pc[c] = "reserved"
    /\ Acceptable(held[c])
    /\ queue' = queue \cup {Tx(c)}
    /\ At(c, "waiting")
    /\ UNCHANGED <<chain, managerVars, held, historyVars>>

(* sendTransaction answers ERROR with txBadSeq. *)
BadSequence(c) ==
    /\ pc[c] = "reserved"
    /\ ~Acceptable(held[c])
    /\ At(c, "failed")
    /\ UNCHANGED <<chain, queue, managerVars, held, historyVars>>

(* The polls run out, or a poll fails, while the network has the           *)
(* transaction: it may still be included.                                  *)
Timeout(c) ==
    /\ pc[c] = "waiting"
    /\ Tx(c) \in queue
    /\ Disturb
    /\ queue' = (queue \ {Tx(c)}) \cup {[by |-> NoCaller, seq |-> held[c]]}
    /\ At(c, "failed")
    /\ UNCHANGED <<chain, managerVars, held, dropped, resynced>>

(* The polls run out after the network has lost the transaction. *)
NotFound(c) ==
    /\ pc[c] = "waiting"
    /\ Tx(c) \notin queue
    /\ At(c, "failed")
    /\ UNCHANGED <<chain, queue, managerVars, held, historyVars>>

ReportCommitted(c) ==
    /\ pc[c] = "ok"
    /\ Commit(held[c])
    /\ At(c, "idle")
    /\ UNCHANGED <<chain, queue, held, historyVars>>

ReportFailed(c) ==
    /\ pc[c] = "failed"
    /\ RecordFailure(held[c])
    /\ At(c, "idle")
    /\ UNCHANGED <<chain, queue, held, historyVars>>

------------------------------------------------------------------------------
(* Recovery by the application: sync_on_chain, which reads the network     *)
(* before it takes the lock, and resync.                                   *)

SyncFetch(c) ==
    /\ pc[c] = "idle"
    /\ Disturb
    /\ held' = [held EXCEPT ![c] = chain]
    /\ At(c, "syncing")
    /\ UNCHANGED <<chain, queue, managerVars, dropped, resynced>>

SyncApply(c) ==
    /\ pc[c] = "syncing"
    /\ SyncOnChain(held[c])
    /\ At(c, "idle")
    /\ UNCHANGED <<chain, queue, held, historyVars>>

Resync ==
    /\ Disturb
    /\ resynced' = TRUE
    /\ initialized' = FALSE
    /\ recycled' = {}
    /\ in_flight' = {}
    /\ last_reserved' = on_chain
    /\ UNCHANGED <<chain, queue, on_chain, pc, held, dropped>>

------------------------------------------------------------------------------
(* The network.                                                            *)

Advance(t, phase) ==
    /\ t \in queue
    /\ t.seq = chain + 1
    /\ chain' = t.seq
    /\ queue' = {q \in queue : q.seq > t.seq}
    /\ IF t.by = NoCaller THEN pc' = pc ELSE At(t.by, phase)
    /\ UNCHANGED <<managerVars, held>>

Include(t) == Advance(t, "ok") /\ UNCHANGED historyVars

(* Included and FAILED: the number is used up all the same. *)
IncludeFailed(t) == Disturb /\ Advance(t, "failed") /\ UNCHANGED <<dropped, resynced>>

Lose(t) ==
    /\ t \in queue
    /\ Disturb
    /\ queue' = queue \ {t}
    /\ UNCHANGED <<chain, managerVars, pc, held, dropped, resynced>>

------------------------------------------------------------------------------
Init ==
    /\ chain = 0
    /\ queue = {}
    /\ initialized = FALSE
    /\ on_chain = 0
    /\ last_reserved = 0
    /\ recycled = {}
    /\ in_flight = {}
    /\ pc = [c \in Callers |-> "idle"]
    /\ held = [c \in Callers |-> 0]
    /\ disturbed = 0
    /\ dropped = FALSE
    /\ resynced = FALSE

(* What a running caller does next, when nothing disturbs it. *)
CallerStep(c) ==
    \/ Reserve(c)
    \/ Send(c)
    \/ BadSequence(c)
    \/ NotFound(c)
    \/ ReportCommitted(c)
    \/ ReportFailed(c)
    \/ SyncApply(c)

CallerDisturbed(c) == BuildFails(c) \/ Timeout(c) \/ SyncFetch(c)

Next ==
    \/ \E c \in Callers : CallerStep(c) \/ CallerDisturbed(c)
    \/ Resync
    \/ \E t \in queue : Include(t) \/ IncludeFailed(t) \/ Lose(t)

(* Callers keep running, and the network includes what it can include.     *)
Fairness ==
    /\ \A c \in Callers : WF_vars(CallerStep(c))
    /\ WF_vars(\E t \in queue : Include(t))

Spec == Init /\ [][Next]_vars
FairSpec == Spec /\ Fairness

------------------------------------------------------------------------------
(* Properties.                                                             *)

(* Every variable has its type; the manager never believes the account to  *)
(* be ahead of the network.                                                *)
SequenceTypeOK ==
    /\ chain \in 0..MaxSeq
    /\ queue \subseteq Transactions
    /\ initialized \in BOOLEAN
    /\ on_chain \in 0..chain
    /\ last_reserved \in 0..MaxSeq
    /\ recycled \in SUBSET (1..MaxSeq)
    /\ in_flight \in SUBSET (1..MaxSeq)
    /\ pc \in [Callers -> Phases]
    /\ held \in [Callers -> 0..MaxSeq]
    /\ disturbed \in 0..MaxDisturbed
    /\ dropped \in BOOLEAN
    /\ resynced \in BOOLEAN

(* "Two concurrent reservations can never collide" (SequenceManager::      *)
(* reserve): as long as nobody calls resync, no two unreported             *)
(* reservations hold a number that the network may still include, whatever *)
(* fails, is dropped, recycled or synchronised in between.  (A             *)
(* synchronisation with a value read long ago can bring back numbers the   *)
(* account has passed; they are refused, never included twice.)            *)
DistinctReservations ==
    ~resynced => \A c, d \in Callers :
        c # d /\ Live(c) /\ Live(d) /\ held[c] = held[d] => held[c] <= chain

(* No number is lost: every number the manager has passed and the network  *)
(* has not used is still in flight or waiting to be handed out again, so   *)
(* the gap it leaves can be filled.                                        *)
NumbersAccounted ==
    initialized => (chain + 1)..last_reserved \subseteq in_flight \cup recycled

(* A single disturbance does not wedge the account: on a network that      *)
(* queues numbers ahead of their turn, once a number was handed out the    *)
(* writes go on and every number is used.  Two disturbances that do are    *)
(* left out, a reservation dropped without a report and a resync while     *)
(* transactions are in flight.                                             *)
Recovers ==
    last_reserved > 0 ~> (chain = MaxSeq \/ dropped \/ resynced \/ disturbed > 1)

------------------------------------------------------------------------------
(* What the repository's texts say, where the code disagrees.              *)

(* sequence.rs: "if one concurrent transaction fails while other           *)
(* transactions remain in flight, its sequence number is recycled and      *)
(* reused to heal sequence gaps without triggering cascading txBadSeq      *)
(* errors".  A transaction included as FAILED has used its number: once    *)
(* two recycled numbers are behind the account, each rejected attempt      *)
(* finds the other one still recycled and puts its own back, for ever.     *)
OneFailureHeals == <>(chain = MaxSeq \/ dropped)
==============================================================================
