------------------------ MODULE SequenceManagerProofs ------------------------
(***************************************************************************)
(* The safety of the SDK's sequence manager for any number of callers,     *)
(* numbers and disturbances.  The manager's numbers are only meaningful    *)
(* relative to the account, so the inductive invariant says how each part  *)
(* of the state lies relative to `chain`: what is reported as committed or *)
(* fetched by a synchronisation is not ahead of it, a forgotten account    *)
(* holds nothing, and a caller the network could still serve is in flight. *)
(*                                                                         *)
(* Behind it, the SDK's event stream: what the checkpoint, the channel and *)
(* the cursor say together of the events that are not handled yet.         *)
(***************************************************************************)
EXTENDS SequenceManager, EventStream, CollectionTheorems, NaturalsInduction

(* Caller's numbers that are not ahead of the network. *)
NotAhead == \A c \in Callers : pc[c] \in {"ok", "syncing"} => held[c] <= chain

(* A live caller has a number, and a queued transaction has its caller. *)
Waited ==
    /\ \A c \in Callers : Live(c) => held[c] \in 1..MaxSeq
    /\ \A t \in queue :
        /\ t.seq > chain
        /\ t.by \in Callers => pc[t.by] = "waiting" /\ held[t.by] = t.seq

(* An account that has to be read again holds nothing. *)
Forgotten ==
    ~initialized => in_flight = {} /\ recycled = {} /\ last_reserved <= chain

(* Without resync, a number the network may still include is in flight for *)
(* one caller and not waiting to be handed out.                            *)
Tracked ==
    ~resynced =>
        /\ \A c \in Callers : Live(c) /\ held[c] > chain =>
            held[c] \in in_flight /\ held[c] <= last_reserved
        /\ \A n \in in_flight : n > chain => n \notin recycled
        /\ \A n \in recycled : n > chain => n <= last_reserved

SequenceInv ==
    /\ SequenceTypeOK
    /\ NotAhead
    /\ Waited
    /\ Forgotten
    /\ NumbersAccounted
    /\ Tracked
    /\ DistinctReservations

------------------------------------------------------------------------------
(* The bounds are numbers, and NoCaller is nobody. *)
LEMMA Bounds == MaxSeq \in Nat /\ MaxDisturbed \in Nat /\ NoCaller \notin Callers
    BY SequenceAssumption

(* A set of numbers that is not empty has a lowest one. *)
LEMMA LowestExists ==
    ASSUME NEW S \in SUBSET Nat, S # {}
    PROVE  Lowest(S) \in S /\ \A m \in S : Lowest(S) <= m
<1>. DEFINE R == OpToRel(<, Nat)
<1>1. IsWellFoundedOn(R, Nat)
    BY NatLessThanWellFounded
<1>2. \A x, y \in Nat : y < x => <<y, x>> \in R
    BY DEF OpToRel
<1>. HIDE DEF R
<1>3. PICK x \in S : \A y \in S : ~(<<y, x>> \in R)
    BY <1>1, WFMin
<1>4. x \in Nat /\ \A y \in S : y \in Nat /\ ~(y < x)
    BY <1>2, <1>3
<1>5. \A y \in S : x <= y
    BY <1>4
<1>. QED
    BY <1>5 DEF Lowest

(* The initial state satisfies the invariant. *)
LEMMA SequenceInit == Init => SequenceInv
<1>. SUFFICES ASSUME Init PROVE SequenceInv
    OBVIOUS
<1>1. SequenceTypeOK
    <2>1. chain \in 0..MaxSeq /\ on_chain \in 0..chain /\ last_reserved \in 0..MaxSeq
          /\ disturbed \in 0..MaxDisturbed
        BY Bounds DEF Init
    <2>2. pc \in [Callers -> Phases] /\ held \in [Callers -> 0..MaxSeq]
        BY Bounds DEF Init, Phases
    <2>3. initialized \in BOOLEAN /\ dropped \in BOOLEAN /\ resynced \in BOOLEAN
        BY DEF Init
    <2>. QED
        BY <2>1, <2>2, <2>3 DEF Init, SequenceTypeOK
<1>2. NotAhead /\ Waited
    BY DEF Init, NotAhead, Waited, Live
<1>3. Forgotten /\ NumbersAccounted
    BY DEF Init, Forgotten, NumbersAccounted
<1>4. Tracked /\ DistinctReservations
    BY DEF Init, Tracked, DistinctReservations, Live
<1>. QED
    BY <1>1, <1>2, <1>3, <1>4 DEF SequenceInv

(* Handing out a number: a recycled one is in no caller's hands, a new one *)
(* is beyond every number handed out.                                      *)
LEMMA ReserveStep ==
    ASSUME SequenceInv, NEW c \in Callers, Reserve(c)
    PROVE  SequenceInv'
<1>. USE Bounds
<1>. PICK n \in 1..MaxSeq : ReserveNumber(n) /\ held' = [held EXCEPT ![c] = n]
    BY DEF Reserve
<1>. DEFINE last == IF initialized THEN last_reserved ELSE chain
            gaps == IF initialized THEN recycled ELSE {}
            flight == IF initialized THEN in_flight ELSE {}
<1>0. /\ n = IF gaps = {} THEN last + 1 ELSE Lowest(gaps)
      /\ initialized' = TRUE
      /\ on_chain' = IF initialized THEN on_chain ELSE chain
      /\ last_reserved' = IF gaps = {} THEN n ELSE last
      /\ recycled' = gaps \ {n}
      /\ in_flight' = flight \cup {n}
    BY DEF ReserveNumber
<1>0a. /\ pc[c] = "idle"
       /\ pc' = [pc EXCEPT ![c] = "reserved"]
       /\ UNCHANGED <<chain, queue, historyVars>>
    BY DEF Reserve, At
<1>1. gaps # {} => n \in gaps
    <2>1. gaps \in SUBSET Nat
        BY DEF SequenceInv, SequenceTypeOK
    <2>. QED
        BY <2>1, <1>0, LowestExists
<1>2. SequenceTypeOK'
    <2>1. on_chain' \in 0..chain' /\ last_reserved' \in 0..MaxSeq
        BY <1>0, <1>0a DEF SequenceInv, SequenceTypeOK
    <2>2. recycled' \in SUBSET (1..MaxSeq) /\ in_flight' \in SUBSET (1..MaxSeq)
        BY <1>0 DEF SequenceInv, SequenceTypeOK
    <2>3. pc' \in [Callers -> Phases] /\ held' \in [Callers -> 0..MaxSeq]
        BY <1>0a DEF SequenceInv, SequenceTypeOK, Phases
    <2>. QED
        BY <2>1, <2>2, <2>3, <1>0, <1>0a DEF SequenceInv, SequenceTypeOK, historyVars
<1>3. NotAhead' /\ Waited'
    BY <1>0a DEF SequenceInv, SequenceTypeOK, NotAhead, Waited, Live, Phases, historyVars
<1>4. Forgotten'
    BY <1>0 DEF Forgotten
<1>5. NumbersAccounted'
    BY <1>0, <1>0a, <1>1 DEF SequenceInv, SequenceTypeOK, NumbersAccounted
<1>6. ASSUME ~resynced, NEW d \in Callers, d # c, Live(d), held[d] > chain
      PROVE  held[d] \in flight /\ held[d] <= last /\ held[d] # n
    <2>1. initialized /\ held[d] \in in_flight /\ held[d] <= last_reserved /\ held[d] \notin recycled
        BY <1>6 DEF SequenceInv, Tracked, Forgotten
    <2>. QED
        BY <2>1, <1>0, <1>1 DEF SequenceInv, SequenceTypeOK
<1>7. Tracked' /\ DistinctReservations'
    <2>. SUFFICES ASSUME ~resynced PROVE Tracked' /\ DistinctReservations'
        BY <1>0a DEF Tracked, DistinctReservations, historyVars
    <2>1. \A d \in Callers : d # c => (Live(d)' <=> Live(d)) /\ held'[d] = held[d]
        BY <1>0a DEF Live, SequenceInv, SequenceTypeOK
    <2>2. held'[c] = n /\ n \in in_flight'
        BY <1>0 DEF SequenceInv, SequenceTypeOK
    <2>3. n > chain => n <= last_reserved'
        BY <1>0, <1>1 DEF SequenceInv, SequenceTypeOK, Tracked
    <2>4. last <= last_reserved'
        BY <1>0, <1>1 DEF SequenceInv, SequenceTypeOK, Tracked
    <2>5. \A d \in Callers : Live(d)' /\ held'[d] > chain' =>
                held'[d] \in in_flight' /\ held'[d] <= last_reserved'
        BY <2>1, <2>2, <2>3, <2>4, <1>6, <1>0, <1>0a DEF SequenceInv, SequenceTypeOK
    <2>6. \A m \in in_flight' : m > chain' => m \notin recycled'
        BY <1>0, <1>0a DEF SequenceInv, Tracked
    <2>7. \A m \in recycled' : m > chain' => m <= last_reserved'
        BY <1>0, <1>0a, <2>4 DEF SequenceInv, Tracked, SequenceTypeOK
    <2>8. DistinctReservations'
        BY <2>1, <2>2, <1>6, <1>0a DEF SequenceInv, SequenceTypeOK, DistinctReservations
    <2>. QED
        BY <2>5, <2>6, <2>7, <2>8 DEF Tracked
<1>. QED
    BY <1>2, <1>3, <1>4, <1>5, <1>7 DEF SequenceInv

(* Fewer numbers are ahead of an account that has advanced. *)
LEMMA Narrower ==
    ASSUME NEW a \in Nat, NEW b \in Nat, NEW n \in Nat, a <= b
    PROVE  (b + 1)..n \subseteq (a + 1)..n
    OBVIOUS

(* What a step that leaves the manager alone keeps: the account may only   *)
(* advance, and no caller may come to life.                                *)
LEMMA ManagerKept ==
    ASSUME SequenceInv, UNCHANGED managerVars, UNCHANGED <<held, resynced>>,
           chain' \in Nat, chain <= chain',
           \A d \in Callers : Live(d)' => Live(d)
    PROVE  Forgotten' /\ NumbersAccounted' /\ Tracked' /\ DistinctReservations'
<1>. USE Bounds
<1>1. /\ chain \in Nat /\ last_reserved \in Nat
      /\ in_flight \subseteq Nat /\ recycled \subseteq Nat
      /\ \A d \in Callers : held[d] \in Nat
    BY DEF SequenceInv, SequenceTypeOK
<1>2. Forgotten'
    BY <1>1 DEF SequenceInv, Forgotten, managerVars
<1>3. NumbersAccounted'
    <2>1. (chain' + 1)..last_reserved \subseteq (chain + 1)..last_reserved
        BY <1>1, Narrower
    <2>2. initialized' = initialized /\ last_reserved' = last_reserved
          /\ in_flight' = in_flight /\ recycled' = recycled
        BY DEF managerVars
    <2>. QED
        BY <2>1, <2>2 DEF SequenceInv, NumbersAccounted
<1>4. Tracked'
    BY <1>1 DEF SequenceInv, Tracked, managerVars
<1>5. DistinctReservations'
    BY <1>1 DEF SequenceInv, DistinctReservations
<1>. QED
    BY <1>2, <1>3, <1>4, <1>5

(* A disturbance is counted up to its bound. *)
LEMMA DisturbType ==
    ASSUME disturbed \in 0..MaxDisturbed, Disturb
    PROVE  disturbed' \in 0..MaxDisturbed
    BY Bounds DEF Disturb

(* Building, sending and waiting happen outside the manager. *)
LEMMA QuietStep ==
    ASSUME SequenceInv, NEW c \in Callers,
           \/ BuildFails(c) \/ Send(c) \/ BadSequence(c)
           \/ Timeout(c) \/ NotFound(c)
    PROVE  SequenceInv'
<1>. USE Bounds
<1>1. PICK p \in {"idle", "waiting", "failed"} : pc' = [pc EXCEPT ![c] = p]
    BY DEF BuildFails, Send, BadSequence, Timeout, NotFound, At
<1>2. /\ UNCHANGED <<chain, held, resynced>>
      /\ UNCHANGED managerVars
    BY DEF BuildFails, Send, BadSequence, Timeout, NotFound, historyVars
<1>3. Live(c) /\ held[c] \in 1..MaxSeq /\ pc[c] \notin {"ok", "syncing"}
    BY DEF BuildFails, Send, BadSequence, Timeout, NotFound, SequenceInv, Waited, Live
<1>4. \A d \in Callers : Live(d)' => Live(d)
    BY <1>1, <1>3 DEF Live, SequenceInv, SequenceTypeOK
<1>5. chain \in Nat
    BY DEF SequenceInv, SequenceTypeOK
<1>6. Forgotten' /\ NumbersAccounted' /\ Tracked' /\ DistinctReservations'
    BY <1>2, <1>4, <1>5, ManagerKept
<1>7. queue' \subseteq Transactions /\ queue' \subseteq queue \cup {Tx(c), [by |-> NoCaller, seq |-> held[c]]}
    BY <1>3 DEF BuildFails, Send, BadSequence, Timeout, NotFound, Transactions, Tx,
       SequenceInv, SequenceTypeOK, historyVars
<1>8. SequenceTypeOK'
    <2>1. pc' \in [Callers -> Phases]
        BY <1>1 DEF SequenceInv, SequenceTypeOK, Phases
    <2>2. disturbed' \in 0..MaxDisturbed
        BY DisturbType DEF SequenceInv, SequenceTypeOK, BuildFails, Send, BadSequence,
           Timeout, NotFound, historyVars
    <2>3. dropped' \in BOOLEAN
        BY DEF SequenceInv, SequenceTypeOK, BuildFails, Send, BadSequence,
           Timeout, NotFound, historyVars
    <2>. QED
        BY <2>1, <2>2, <2>3, <1>2, <1>7 DEF SequenceInv, SequenceTypeOK, managerVars
<1>9. NotAhead'
    BY <1>1, <1>2 DEF SequenceInv, SequenceTypeOK, NotAhead
<1>10. \A d \in Callers : Live(d)' => held'[d] \in 1..MaxSeq
    BY <1>2, <1>4 DEF SequenceInv, Waited
<1>11. ASSUME NEW t \in queue'
       PROVE  t.seq > chain' /\ (t.by \in Callers => pc'[t.by] = "waiting" /\ held'[t.by] = t.seq)
    <2>1. CASE BuildFails(c) \/ BadSequence(c) \/ NotFound(c)
        <3>1. queue' = queue /\ (t.by = c => pc[c] = "waiting")
            BY <2>1 DEF BuildFails, BadSequence, NotFound, SequenceInv, Waited
        <3>2. t.by # c
            <4>1. CASE NotFound(c)
                <5>1. t.by = c => t = Tx(c)
                    BY <3>1 DEF SequenceInv, SequenceTypeOK, Waited, Transactions, Tx
                <5>. QED
                    BY <3>1, <4>1, <5>1 DEF NotFound
            <4>2. CASE BuildFails(c) \/ BadSequence(c)
                BY <3>1, <4>2 DEF BuildFails, BadSequence
            <4>. QED
                BY <2>1, <4>1, <4>2
        <3>. QED
            BY <3>1, <3>2, <1>1, <1>2 DEF SequenceInv, SequenceTypeOK, Waited
    <2>2. CASE Send(c)
        <3>1. held[c] > chain
            BY <2>2 DEF Send, Acceptable
        <3>2. CASE t = Tx(c)
            BY <3>1, <3>2, <2>2, <1>2 DEF Tx, Send, At, SequenceInv, SequenceTypeOK
        <3>3. CASE t \in queue
            <4>1. t.by # c
                BY <2>2, <3>3 DEF Send, SequenceInv, Waited
            <4>. QED
                BY <3>3, <4>1, <1>1, <1>2 DEF SequenceInv, SequenceTypeOK, Waited
        <3>. QED
            BY <2>2, <3>2, <3>3 DEF Send
    <2>3. CASE Timeout(c)
        <3>1. held[c] > chain
            BY <2>3 DEF Timeout, SequenceInv, Waited, Tx
        <3>2. CASE t = [by |-> NoCaller, seq |-> held[c]]
            BY <3>1, <3>2, <1>2
        <3>3. CASE t \in queue /\ t # Tx(c)
            <4>1. t.by # c
                BY <3>3 DEF SequenceInv, SequenceTypeOK, Waited, Transactions, Tx
            <4>. QED
                BY <3>3, <4>1, <1>1, <1>2 DEF SequenceInv, SequenceTypeOK, Waited
        <3>. QED
            BY <2>3, <3>2, <3>3 DEF Timeout
    <2>. QED
        BY <2>1, <2>2, <2>3
<1>. QED
    BY <1>6, <1>8, <1>9, <1>10, <1>11 DEF SequenceInv, Waited

(* A transaction reported as committed is behind the account. *)
LEMMA CommittedStep ==
    ASSUME SequenceInv, NEW c \in Callers, ReportCommitted(c)
    PROVE  SequenceInv'
<1>. USE Bounds
<1>1. /\ pc[c] = "ok" /\ pc' = [pc EXCEPT ![c] = "idle"]
      /\ in_flight' = in_flight \ {held[c]}
      /\ on_chain' = IF held[c] > on_chain THEN held[c] ELSE on_chain
      /\ UNCHANGED <<initialized, last_reserved, recycled, chain, queue, held>>
      /\ UNCHANGED historyVars
    BY DEF ReportCommitted, Commit, At
<1>2. held[c] <= chain /\ chain \in Nat /\ held[c] \in Nat
    BY <1>1 DEF SequenceInv, SequenceTypeOK, NotAhead
<1>3. SequenceTypeOK'
    <2>1. on_chain' \in 0..chain'
        BY <1>1, <1>2 DEF SequenceInv, SequenceTypeOK
    <2>3. in_flight' \in SUBSET (1..MaxSeq)
        BY <1>1 DEF SequenceInv, SequenceTypeOK
    <2>2. pc' \in [Callers -> Phases]
        BY <1>1 DEF SequenceInv, SequenceTypeOK, Phases
    <2>. QED
        BY <2>1, <2>2, <2>3, <1>1 DEF SequenceInv, SequenceTypeOK, historyVars
<1>4. NotAhead' /\ Waited'
    BY <1>1 DEF SequenceInv, SequenceTypeOK, NotAhead, Waited, Live
<1>5. Forgotten'
    BY <1>1 DEF SequenceInv, Forgotten
<1>6. NumbersAccounted'
    <2>1. \A n \in (chain + 1)..last_reserved : n # held[c]
        BY <1>2 DEF SequenceInv, SequenceTypeOK
    <2>. QED
        BY <1>1, <2>1 DEF SequenceInv, NumbersAccounted
<1>7. \A d \in Callers : Live(d)' => Live(d)
    BY <1>1 DEF Live, SequenceInv, SequenceTypeOK
<1>8. Tracked'
    <2>1. \A d \in Callers : Live(d)' /\ held'[d] > chain' => held[d] # held[c]
        BY <1>1, <1>2
    <2>. QED
        BY <2>1, <1>1, <1>7 DEF SequenceInv, Tracked, historyVars
<1>9. DistinctReservations'
    BY <1>1, <1>7 DEF SequenceInv, DistinctReservations, historyVars
<1>. QED
    BY <1>3, <1>4, <1>5, <1>6, <1>8, <1>9 DEF SequenceInv

(* A failure is recycled, or it was the last number out and the account is *)
(* forgotten: then no caller holds a number the network may still include. *)
LEMMA FailedStep ==
    ASSUME SequenceInv, NEW c \in Callers, ReportFailed(c)
    PROVE  SequenceInv'
<1>. USE Bounds
<1>. DEFINE rest == in_flight \ {held[c]}
            last_one == rest = {} /\ recycled = {}
<1>1. /\ pc[c] = "failed" /\ pc' = [pc EXCEPT ![c] = "idle"]
      /\ in_flight' = rest
      /\ initialized' = IF last_one THEN FALSE ELSE initialized
      /\ last_reserved' = IF last_one THEN on_chain ELSE last_reserved
      /\ recycled' = IF last_one THEN recycled ELSE recycled \cup {held[c]}
      /\ UNCHANGED <<on_chain, chain, queue, held>>
      /\ UNCHANGED historyVars
    BY DEF ReportFailed, RecordFailure, At
<1>2. held[c] \in 1..MaxSeq /\ Live(c)
    BY <1>1 DEF SequenceInv, Waited, Live
<1>3. SequenceTypeOK'
    <2>1. last_reserved' \in 0..MaxSeq
        BY <1>1 DEF SequenceInv, SequenceTypeOK
    <2>2. in_flight' \in SUBSET (1..MaxSeq) /\ recycled' \in SUBSET (1..MaxSeq)
        BY <1>1, <1>2 DEF SequenceInv, SequenceTypeOK
    <2>3. pc' \in [Callers -> Phases]
        BY <1>1 DEF SequenceInv, SequenceTypeOK, Phases
    <2>. QED
        BY <2>1, <2>2, <2>3, <1>1 DEF SequenceInv, SequenceTypeOK, historyVars
<1>4. NotAhead' /\ Waited'
    BY <1>1 DEF SequenceInv, SequenceTypeOK, NotAhead, Waited, Live
<1>7. \A d \in Callers : Live(d)' => Live(d) /\ d # c
    BY <1>1 DEF Live, SequenceInv, SequenceTypeOK
<1>8. DistinctReservations'
    BY <1>1, <1>7 DEF SequenceInv, DistinctReservations, historyVars
<1>9. CASE last_one
    <2>1. Forgotten' /\ NumbersAccounted'
        BY <1>1, <1>9 DEF SequenceInv, SequenceTypeOK, Forgotten, NumbersAccounted
    <2>2. ASSUME ~resynced, NEW d \in Callers, Live(d), d # c, held[d] > chain
          PROVE  FALSE
        <3>1. held[d] \in in_flight
            BY <2>2 DEF SequenceInv, Tracked
        <3>2. held[d] = held[c]
            BY <3>1, <1>9
        <3>. QED
            BY <3>2, <2>2, <1>2 DEF SequenceInv, SequenceTypeOK, DistinctReservations
    <2>3. Tracked'
        BY <2>2, <1>1, <1>7, <1>9 DEF Tracked, historyVars
    <2>. QED
        BY <1>3, <1>4, <1>8, <2>1, <2>3 DEF SequenceInv
<1>10. CASE ~last_one
    <2>1. initialized
        BY <1>10 DEF SequenceInv, Forgotten
    <2>2. Forgotten' /\ NumbersAccounted'
        BY <1>1, <1>10, <2>1 DEF SequenceInv, Forgotten, NumbersAccounted
    <2>3. Tracked'
        <3>. SUFFICES ASSUME ~resynced PROVE Tracked'
            BY <1>1 DEF Tracked, historyVars
        <3>1. \A d \in Callers : Live(d)' /\ held'[d] > chain' =>
                    held'[d] \in in_flight' /\ held'[d] <= last_reserved'
            BY <1>1, <1>2, <1>7, <1>10 DEF SequenceInv, SequenceTypeOK, Tracked, DistinctReservations
        <3>2. \A n \in in_flight' : n > chain' => n \notin recycled'
            BY <1>1, <1>10 DEF SequenceInv, Tracked
        <3>3. \A n \in recycled' : n > chain' => n <= last_reserved'
            BY <1>1, <1>2, <1>10 DEF SequenceInv, Tracked
        <3>. QED
            BY <3>1, <3>2, <3>3 DEF Tracked
    <2>. QED
        BY <1>3, <1>4, <1>8, <2>2, <2>3 DEF SequenceInv
<1>. QED
    BY <1>9, <1>10

(* A synchronisation reads the account, and applies later what it read. *)
LEMMA SyncStep ==
    ASSUME SequenceInv, NEW c \in Callers, SyncFetch(c) \/ SyncApply(c)
    PROVE  SequenceInv'
<1>. USE Bounds
<1>1. CASE SyncFetch(c)
    <2>1. /\ pc[c] = "idle" /\ pc' = [pc EXCEPT ![c] = "syncing"]
          /\ held' = [held EXCEPT ![c] = chain]
          /\ UNCHANGED <<chain, queue, dropped, resynced>>
          /\ UNCHANGED managerVars
        BY <1>1 DEF SyncFetch, At
    <2>2. SequenceTypeOK'
        <3>1. disturbed' \in 0..MaxDisturbed
            BY <1>1, DisturbType DEF SyncFetch, SequenceInv, SequenceTypeOK
        <3>2. pc' \in [Callers -> Phases] /\ held' \in [Callers -> 0..MaxSeq]
            BY <2>1 DEF SequenceInv, SequenceTypeOK, Phases
        <3>. QED
            BY <3>1, <3>2, <2>1 DEF SequenceInv, SequenceTypeOK, managerVars
    <2>3. NotAhead' /\ Waited'
        BY <2>1 DEF SequenceInv, SequenceTypeOK, NotAhead, Waited, Live
    <2>4. \A d \in Callers : Live(d)' => Live(d) /\ held'[d] = held[d]
        BY <2>1 DEF SequenceInv, SequenceTypeOK, Live
    <2>5. Forgotten' /\ NumbersAccounted' /\ Tracked' /\ DistinctReservations'
        BY <2>1, <2>4 DEF SequenceInv, Forgotten, NumbersAccounted, Tracked,
           DistinctReservations, managerVars
    <2>. QED
        BY <2>2, <2>3, <2>5 DEF SequenceInv
<1>2. CASE SyncApply(c)
    <2>. DEFINE current == held[c]
    <2>1. /\ pc[c] = "syncing" /\ pc' = [pc EXCEPT ![c] = "idle"]
          /\ on_chain' = current
          /\ initialized' = TRUE
          /\ recycled' = {n \in recycled : n > current}
          /\ in_flight' = {n \in in_flight : n > current}
          /\ last_reserved' = IF last_reserved < current THEN current ELSE last_reserved
          /\ UNCHANGED <<chain, queue, held>>
          /\ UNCHANGED historyVars
        BY <1>2 DEF SyncApply, SyncOnChain, At
    <2>2. /\ current \in Nat /\ chain \in Nat /\ last_reserved \in Nat /\ current <= chain
          /\ \A d \in Callers : held[d] \in Nat
          /\ in_flight \subseteq Nat /\ recycled \subseteq Nat
        BY <2>1 DEF SequenceInv, SequenceTypeOK, NotAhead
    <2>3. SequenceTypeOK'
        <3>1. on_chain' \in 0..chain'
            BY <2>1, <2>2
        <3>2. last_reserved' \in 0..MaxSeq
            BY <2>1, <2>2 DEF SequenceInv, SequenceTypeOK
        <3>3. recycled' \in SUBSET (1..MaxSeq) /\ in_flight' \in SUBSET (1..MaxSeq)
            BY <2>1 DEF SequenceInv, SequenceTypeOK
        <3>4. pc' \in [Callers -> Phases]
            BY <2>1 DEF SequenceInv, SequenceTypeOK, Phases
        <3>. QED
            BY <3>1, <3>2, <3>3, <3>4, <2>1 DEF SequenceInv, SequenceTypeOK, historyVars
    <2>4. NotAhead' /\ Waited'
        BY <2>1 DEF SequenceInv, SequenceTypeOK, NotAhead, Waited, Live
    <2>5. Forgotten'
        BY <2>1 DEF Forgotten
    <2>6. NumbersAccounted'
        <3>. SUFFICES ASSUME NEW n \in (chain + 1)..last_reserved'
                      PROVE  n \in in_flight' \cup recycled'
            BY <2>1 DEF NumbersAccounted
        <3>1. n > chain /\ n > current /\ n <= last_reserved /\ n \in (chain + 1)..last_reserved
            BY <2>1, <2>2
        <3>2. initialized
            BY <3>1, <2>2 DEF SequenceInv, Forgotten
        <3>. QED
            BY <3>1, <3>2, <2>1 DEF SequenceInv, NumbersAccounted
    <2>7. \A d \in Callers : Live(d)' => Live(d)
        BY <2>1 DEF SequenceInv, SequenceTypeOK, Live
    <2>8. Tracked'
        <3>. SUFFICES ASSUME ~resynced PROVE Tracked'
            BY <2>1 DEF Tracked, historyVars
        <3>0. last_reserved <= last_reserved' /\ last_reserved' \in Nat
            BY <2>1, <2>2
        <3>1. \A d \in Callers : Live(d)' /\ held'[d] > chain' =>
                    held'[d] \in in_flight' /\ held'[d] <= last_reserved'
            BY <3>0, <2>1, <2>2, <2>7 DEF SequenceInv, Tracked
        <3>2. \A n \in in_flight' : n > chain' => n \notin recycled'
            BY <2>1 DEF SequenceInv, Tracked
        <3>3. \A n \in recycled' : n > chain' => n <= last_reserved'
            BY <3>0, <2>1, <2>2 DEF SequenceInv, Tracked
        <3>. QED
            BY <3>1, <3>2, <3>3 DEF Tracked
    <2>9. DistinctReservations'
        BY <2>1, <2>7 DEF SequenceInv, DistinctReservations, historyVars
    <2>. QED
        BY <2>3, <2>4, <2>5, <2>6, <2>8, <2>9 DEF SequenceInv
<1>. QED
    BY <1>1, <1>2

(* resync forgets every number the manager has handed out. *)
LEMMA ResyncStep ==
    ASSUME SequenceInv, Resync
    PROVE  SequenceInv'
<1>1. disturbed' \in 0..MaxDisturbed
    BY DisturbType DEF Resync, SequenceInv, SequenceTypeOK
<1>2. last_reserved' \in 0..MaxSeq /\ last_reserved' <= chain'
    BY Bounds DEF Resync, SequenceInv, SequenceTypeOK
<1>3. SequenceTypeOK'
    BY <1>1, <1>2 DEF Resync, SequenceInv, SequenceTypeOK
<1>4. NotAhead' /\ Waited'
    BY DEF Resync, SequenceInv, NotAhead, Waited, Live
<1>5. Forgotten' /\ NumbersAccounted' /\ Tracked' /\ DistinctReservations'
    BY <1>2 DEF Resync, Forgotten, NumbersAccounted, Tracked, DistinctReservations
<1>. QED
    BY <1>3, <1>4, <1>5 DEF SequenceInv

(* The network includes a transaction and tells whoever still waits for    *)
(* it, or loses it.                                                        *)
LEMMA NetworkStep ==
    ASSUME SequenceInv, NEW t \in queue, Include(t) \/ IncludeFailed(t) \/ Lose(t)
    PROVE  SequenceInv'
<1>. USE Bounds
<1>0. /\ UNCHANGED <<held, dropped, resynced>>
      /\ UNCHANGED managerVars
    BY DEF Include, IncludeFailed, Lose, Advance, historyVars
<1>1. disturbed' \in 0..MaxDisturbed
    BY DisturbType DEF Include, IncludeFailed, Lose, historyVars, SequenceInv, SequenceTypeOK
<1>2. t.by \in Callers \cup {NoCaller} /\ t.seq \in 1..MaxSeq /\ t.seq > chain
    BY DEF SequenceInv, SequenceTypeOK, Waited, Transactions
<1>3. CASE Lose(t)
    <2>1. queue' \subseteq queue /\ chain' = chain /\ pc' = pc
        BY <1>3 DEF Lose
    <2>2. SequenceTypeOK'
        BY <1>0, <1>1, <2>1 DEF SequenceInv, SequenceTypeOK, managerVars
    <2>3. NotAhead' /\ Waited'
        BY <1>0, <2>1 DEF SequenceInv, NotAhead, Waited, Live
    <2>4. chain \in Nat /\ \A d \in Callers : Live(d)' => Live(d)
        BY <2>1 DEF SequenceInv, SequenceTypeOK, Live
    <2>5. Forgotten' /\ NumbersAccounted' /\ Tracked' /\ DistinctReservations'
        BY <1>0, <2>1, <2>4, ManagerKept
    <2>. QED
        BY <2>2, <2>3, <2>5 DEF SequenceInv
<1>4. CASE Include(t) \/ IncludeFailed(t)
    <2>1. PICK phase \in {"ok", "failed"} : Advance(t, phase)
        BY <1>4 DEF Include, IncludeFailed
    <2>2. chain' = t.seq /\ queue' = {q \in queue : q.seq > t.seq}
          /\ IF t.by = NoCaller THEN pc' = pc ELSE pc' = [pc EXCEPT ![t.by] = phase]
        BY <2>1 DEF Advance, At
    <2>3. pc' \in [Callers -> Phases]
        BY <2>2, <1>2 DEF SequenceInv, SequenceTypeOK, Phases
    <2>4. \A d \in Callers : d = t.by \/ pc'[d] = pc[d]
        BY <2>2 DEF SequenceInv, SequenceTypeOK
    <2>5. t.by \in Callers => pc[t.by] = "waiting" /\ held[t.by] = t.seq /\ pc'[t.by] = phase
        BY <2>2 DEF SequenceInv, SequenceTypeOK, Waited
    <2>6. chain \in Nat /\ chain' \in 0..MaxSeq /\ chain < chain' /\ on_chain' \in 0..chain'
        BY <2>2, <1>2, <1>0 DEF SequenceInv, SequenceTypeOK, managerVars
    <2>7. SequenceTypeOK'
        <3>1. queue' \subseteq Transactions
            BY <2>2 DEF SequenceInv, SequenceTypeOK
        <3>. QED
            BY <1>0, <1>1, <2>3, <2>6, <3>1 DEF SequenceInv, SequenceTypeOK, managerVars
    <2>8. NotAhead'
        <3>. SUFFICES ASSUME NEW d \in Callers, pc'[d] \in {"ok", "syncing"}
                      PROVE  held[d] <= chain'
            BY <1>0 DEF NotAhead
        <3>1. CASE d = t.by
            BY <3>1, <2>2, <2>5, <1>2
        <3>2. CASE d # t.by
            <4>1. held[d] <= chain /\ held[d] \in Nat
                BY <3>2, <2>4 DEF SequenceInv, SequenceTypeOK, NotAhead
            <4>. QED
                BY <4>1, <2>6
        <3>. QED
            BY <3>1, <3>2
    <2>9. \A d \in Callers : Live(d)' => Live(d)
        BY <2>4, <2>5 DEF Live
    <2>10. Waited'
        <3>1. \A d \in Callers : Live(d)' => held'[d] \in 1..MaxSeq
            BY <1>0, <2>9 DEF SequenceInv, Waited
        <3>2. ASSUME NEW q \in queue'
              PROVE  q.seq > chain' /\ (q.by \in Callers => pc'[q.by] = "waiting" /\ held'[q.by] = q.seq)
            <4>1. q \in queue /\ q.seq > t.seq
                BY <2>2
            <4>2. q.by \in Callers => q.by # t.by
                BY <4>1, <2>5, <1>2 DEF SequenceInv, Waited
            <4>. QED
                BY <4>1, <4>2, <2>2, <2>4, <1>0 DEF SequenceInv, Waited
        <3>. QED
            BY <3>1, <3>2 DEF Waited
    <2>11. chain' \in Nat /\ chain <= chain'
        BY <2>6
    <2>12. Forgotten' /\ NumbersAccounted' /\ Tracked' /\ DistinctReservations'
        BY <1>0, <2>9, <2>11, ManagerKept
    <2>. QED
        BY <2>7, <2>8, <2>10, <2>12 DEF SequenceInv
<1>. QED
    BY <1>3, <1>4

(* No step breaks the invariant. *)
LEMMA SequenceNext == SequenceInv /\ [Next]_vars => SequenceInv'
<1>. SUFFICES ASSUME SequenceInv, [Next]_vars PROVE SequenceInv'
    OBVIOUS
<1>1. CASE UNCHANGED vars
    BY <1>1 DEF vars, managerVars, historyVars, SequenceInv, SequenceTypeOK, NotAhead,
       Waited, Forgotten, NumbersAccounted, Tracked, DistinctReservations, Live
<1>2. ASSUME NEW c \in Callers, CallerStep(c) \/ CallerDisturbed(c)
      PROVE  SequenceInv'
    BY <1>2, ReserveStep, QuietStep, CommittedStep, FailedStep, SyncStep
    DEF CallerStep, CallerDisturbed
<1>3. CASE Resync
    BY <1>3, ResyncStep
<1>4. ASSUME NEW t \in queue, Include(t) \/ IncludeFailed(t) \/ Lose(t)
      PROVE  SequenceInv'
    BY <1>4, NetworkStep
<1>. QED
    BY <1>1, <1>2, <1>3, <1>4 DEF Next

(* The invariant holds throughout. *)
LEMMA SequenceInvariant == Spec => []SequenceInv
    BY SequenceInit, SequenceNext, PTL DEF Spec

------------------------------------------------------------------------------
(* The manager's state is well typed, and it never takes the account to be *)
(* further than the network has it (on_chain_sequence).                    *)
THEOREM SequenceTypeCorrect == Spec => []SequenceTypeOK
    BY SequenceInvariant, PTL DEF SequenceInv

(* reserve never gives two concurrent writes a number that both could be   *)
(* included with, for any number of callers, as long as resync is not      *)
(* called.                                                                 *)
THEOREM DistinctCorrect == Spec => []DistinctReservations
    BY SequenceInvariant, PTL DEF SequenceInv

(* record_failure, commit and sync_on_chain lose no number the account     *)
(* still has to pass.                                                      *)
THEOREM AccountedCorrect == Spec => []NumbersAccounted
    BY SequenceInvariant, PTL DEF SequenceInv

------------------------------------------------------------------------------
(* The event stream.                                                       *)

Logged == [ledger : Nat, event : ParsedEvents]

StreamTypeOK ==
    /\ tip \in Nat /\ log \in Seq(Logged)
    /\ cursor \in Nat /\ saved \in Nat /\ handling \in Nat
    /\ page \in Seq(Nat) /\ channel \in Seq(Nat)
    /\ handled \subseteq Nat

(* The rest of a page goes on from the cursor, and no position is past the *)
(* end of the log.                                                         *)
PageFollows ==
    /\ \A j \in 1..Len(page) : page[j] = cursor + j
    /\ cursor + Len(page) <= Len(log)
    /\ saved <= Len(log)

(* Events on the channel are in order, behind the one that is handled and  *)
(* not past the cursor.                                                    *)
ChannelOrdered ==
    /\ handling <= cursor
    /\ \A j \in 1..Len(channel) :
         /\ channel[j] <= cursor
         /\ channel[j] # 0 => handling < channel[j]
         /\ \A k \in 1..(j - 1) : channel[j] # 0 => channel[k] < channel[j]

StreamInv == StreamTypeOK /\ PageFollows /\ ChannelOrdered /\ AtLeastOnce

(* Nothing has happened at the start. *)
LEMMA StreamInitInv == StreamInit => StreamInv
BY DEF StreamInit, StreamInv, StreamTypeOK, PageFollows, ChannelOrdered, AtLeastOnce, Matching

(* Events already logged keep matching or not. *)
LEMMA MatchingKept ==
    ASSUME StreamTypeOK, filter' = filter, log' = log PROVE Matching' = Matching
BY DEF Matching, Matches

(* The worker. *)
LEMMA FetchPageInv == ASSUME StreamInv, FetchPage PROVE StreamInv'
<1>1. /\ cursor \in Nat /\ Len(log) \in Nat /\ cursor < Len(log) /\ PageLimit \in Nat
      /\ cursor' = cursor /\ log' = log
    BY StreamAssumption DEF StreamInv, StreamTypeOK, FetchPage
<1>2. PICK n \in Nat : n = IF Len(log) - cursor < PageLimit THEN Len(log) - cursor ELSE PageLimit
    BY <1>1
<1>3. page' = [i \in 1..n |-> cursor + i]
    BY <1>2 DEF FetchPage, PageAfter
<1>4. page' \in Seq(Nat) /\ Len(page') = n /\ \A j \in 1..n : page'[j] = cursor + j
    BY <1>1, <1>3
<1>5. cursor + n <= Len(log)
    BY <1>1, <1>2
<1>6. Matching' = Matching
    BY MatchingKept DEF StreamInv, FetchPage
<1>7. StreamTypeOK'
    BY <1>4 DEF StreamInv, StreamTypeOK, FetchPage
<1>8. PageFollows'
    BY <1>1, <1>4, <1>5 DEF StreamInv, PageFollows, FetchPage
<1>9. ChannelOrdered' /\ AtLeastOnce'
    BY <1>6 DEF StreamInv, ChannelOrdered, AtLeastOnce, FetchPage
<1>. QED BY <1>7, <1>8, <1>9 DEF StreamInv

(* Something is put at the end of the channel. *)
LEMMA Appended ==
    ASSUME NEW s \in Seq(Nat), NEW x \in Nat
    PROVE  /\ Append(s, x) \in Seq(Nat) /\ Len(Append(s, x)) = Len(s) + 1
           /\ \A j \in 1..Len(s) : Append(s, x)[j] = s[j]
           /\ Append(s, x)[Len(s) + 1] = x
OBVIOUS

(* An error message goes on the channel. *)
LEMMA FetchErrorInv == ASSUME StreamInv, FetchError PROVE StreamInv'
<1>1. /\ channel \in Seq(Nat) /\ channel' = Append(channel, 0)
      /\ UNCHANGED <<tip, log, filter, cursor, page, handling, saved, handled>>
    BY DEF StreamInv, StreamTypeOK, FetchError
<1>2. /\ channel' \in Seq(Nat) /\ Len(channel') = Len(channel) + 1 /\ Len(channel) \in Nat
      /\ \A j \in 1..Len(channel) : channel'[j] = channel[j]
      /\ channel'[Len(channel) + 1] = 0
    BY <1>1
<1>3. Matching' = Matching
    BY <1>1, MatchingKept DEF StreamInv
<1>4. StreamTypeOK'
    BY <1>1, <1>2 DEF StreamInv, StreamTypeOK
<1>5. PageFollows'
    BY <1>1 DEF StreamInv, PageFollows
<1>6. ChannelOrdered'
    BY <1>1, <1>2 DEF StreamInv, StreamTypeOK, ChannelOrdered
<1>7. AtLeastOnce'
    BY <1>1, <1>2, <1>3 DEF StreamInv, AtLeastOnce
<1>. QED BY <1>4, <1>5, <1>6, <1>7 DEF StreamInv

(* The next event of the page goes on the channel, or is passed over. *)
LEMMA SendNextInv == ASSUME StreamInv, SendNext PROVE StreamInv'
<1>1. /\ page \in Seq(Nat) /\ page # <<>> /\ cursor \in Nat /\ channel \in Seq(Nat)
      /\ page' = Tail(page) /\ cursor' = Head(page)
      /\ UNCHANGED <<tip, log, filter, handling, saved, handled>>
    BY DEF StreamInv, StreamTypeOK, SendNext
<1>2. /\ Len(page) \in Nat \ {0} /\ Head(page) = page[1] /\ Len(page') = Len(page) - 1
      /\ page' \in Seq(Nat) /\ \A j \in 1..Len(page') : page'[j] = page[j + 1]
    BY <1>1
<1>3. cursor' = cursor + 1
    BY <1>1, <1>2 DEF StreamInv, PageFollows
<1>4. Matching' = Matching
    BY <1>1, MatchingKept DEF StreamInv
<1>5. PageFollows'
    <2>1. \A j \in 1..Len(page') : j + 1 \in 1..Len(page)
        BY <1>2
    <2>2. \A j \in 1..Len(page') : page'[j] = cursor' + j
        BY <2>1, <1>1, <1>2, <1>3 DEF StreamInv, PageFollows
    <2>. QED BY <2>2, <1>1, <1>2, <1>3 DEF StreamInv, StreamTypeOK, PageFollows
<1>6. CASE Matches(log[cursor + 1].event)
    <2>1. channel' = Append(channel, cursor + 1)
        BY <1>1, <1>3, <1>6 DEF SendNext
    <2>2. /\ channel' \in Seq(Nat) /\ Len(channel') = Len(channel) + 1 /\ Len(channel) \in Nat
          /\ \A j \in 1..Len(channel) : channel'[j] = channel[j]
          /\ channel'[Len(channel) + 1] = cursor + 1
        BY <1>1, <2>1
    <2>3. StreamTypeOK'
        BY <1>1, <1>2, <1>3, <2>2 DEF StreamInv, StreamTypeOK
    <2>4. ChannelOrdered'
        <3>1. handling \in Nat /\ handling <= cursor /\ ChannelOrdered
            BY DEF StreamInv, StreamTypeOK, ChannelOrdered
        <3>2. \A j \in 1..Len(channel) : channel[j] \in Nat /\ channel[j] <= cursor
            BY <1>1, <3>1 DEF ChannelOrdered
        <3>3. ASSUME NEW j \in 1..Len(channel') PROVE
                /\ channel'[j] <= cursor'
                /\ channel'[j] # 0 => handling' < channel'[j]
                /\ \A k \in 1..(j - 1) : channel'[j] # 0 => channel'[k] < channel'[j]
            <4>1. \A k \in 1..(j - 1) : k \in 1..Len(channel) /\ channel'[k] = channel[k]
                BY <2>2
            <4>2. CASE j = Len(channel) + 1
                <5>1. channel'[j] = cursor + 1 /\ cursor' = cursor + 1 /\ handling' = handling
                    BY <4>2, <1>1, <1>3, <2>2
                <5>2. \A k \in 1..(j - 1) : channel'[k] \in Nat /\ channel'[k] <= cursor
                    BY <4>1, <3>2
                <5>. QED BY <5>1, <5>2, <3>1, <1>1
            <4>3. CASE j # Len(channel) + 1
                <5>1. j \in 1..Len(channel) /\ channel'[j] = channel[j]
                    BY <4>3, <2>2
                <5>. QED BY <4>1, <5>1, <1>1, <1>3, <3>1, <3>2 DEF ChannelOrdered
            <4>. QED BY <4>2, <4>3
        <3>. QED BY <1>1, <1>3, <3>1, <3>3 DEF ChannelOrdered
    <2>5. AtLeastOnce'
        <3>. SUFFICES ASSUME NEW i \in Matching \ handled
                      PROVE  /\ saved < i
                             /\ cursor + 1 >= i =>
                                  handling = i \/ \E j \in 1..Len(channel') : channel'[j] = i
            BY <1>1, <1>3, <1>4 DEF AtLeastOnce
        <3>1. i \in Nat /\ saved < i
              /\ (cursor >= i => handling = i \/ \E j \in 1..Len(channel) : channel[j] = i)
            BY DEF StreamInv, AtLeastOnce, Matching
        <3>2. CASE i = cursor + 1
            BY <3>1, <3>2, <2>2
        <3>3. CASE i # cursor + 1
            BY <3>1, <3>3, <2>2, <1>1
        <3>. QED BY <3>2, <3>3
    <2>. QED BY <1>5, <2>3, <2>4, <2>5 DEF StreamInv
<1>7. CASE ~Matches(log[cursor + 1].event)
    <2>1. channel' = channel
        BY <1>1, <1>3, <1>7 DEF SendNext
    <2>2. StreamTypeOK'
        BY <1>1, <1>2, <1>3, <2>1 DEF StreamInv, StreamTypeOK
    <2>3. ChannelOrdered'
        BY <1>1, <1>3, <2>1 DEF StreamInv, StreamTypeOK, ChannelOrdered
    <2>4. AtLeastOnce'
        <3>. SUFFICES ASSUME NEW i \in Matching \ handled
                      PROVE  /\ saved < i
                             /\ cursor + 1 >= i =>
                                  handling = i \/ \E j \in 1..Len(channel) : channel[j] = i
            BY <1>1, <1>3, <1>4, <2>1 DEF AtLeastOnce
        <3>1. i \in Nat /\ saved < i /\ i # cursor + 1
              /\ (cursor >= i => handling = i \/ \E j \in 1..Len(channel) : channel[j] = i)
            BY <1>7 DEF StreamInv, AtLeastOnce, Matching
        <3>. QED BY <3>1, <1>1
    <2>. QED BY <1>5, <2>2, <2>3, <2>4 DEF StreamInv
<1>. QED BY <1>6, <1>7

(* The consumer. *)
LEMMA RecvInv == ASSUME StreamInv, Recv PROVE StreamInv'
<1>1. /\ channel \in Seq(Nat) /\ channel # <<>> /\ handling = 0 /\ handling' = Head(channel)
      /\ channel' = Tail(channel)
      /\ UNCHANGED <<tip, log, filter, cursor, page, saved, handled>>
    BY DEF StreamInv, StreamTypeOK, Recv
<1>2. /\ Len(channel) \in Nat \ {0} /\ handling' = channel[1] /\ Len(channel') = Len(channel) - 1
      /\ channel' \in Seq(Nat) /\ \A j \in 1..Len(channel') : channel'[j] = channel[j + 1]
      /\ channel[1] \in Nat
    BY <1>1
<1>3. Matching' = Matching
    BY <1>1, MatchingKept DEF StreamInv
<1>4. StreamTypeOK'
    BY <1>1, <1>2 DEF StreamInv, StreamTypeOK
<1>5. PageFollows'
    BY <1>1 DEF StreamInv, PageFollows
<1>6. ChannelOrdered'
    <2>1. \A j \in 1..Len(channel) :
            /\ channel[j] <= cursor
            /\ \A k \in 1..(j - 1) : channel[j] # 0 => channel[k] < channel[j]
        BY DEF StreamInv, ChannelOrdered
    <2>2. handling' <= cursor'
        BY <1>1, <1>2, <2>1
    <2>3. ASSUME NEW j \in 1..Len(channel') PROVE
            /\ channel'[j] <= cursor'
            /\ channel'[j] # 0 => handling' < channel'[j]
            /\ \A k \in 1..(j - 1) : channel'[j] # 0 => channel'[k] < channel'[j]
        <3>1. j + 1 \in 1..Len(channel) /\ channel'[j] = channel[j + 1]
              /\ \A k \in 1..(j - 1) : channel'[k] = channel[k + 1] /\ k + 1 \in 1..((j + 1) - 1)
            BY <1>2
        <3>2. 1 \in 1..((j + 1) - 1)
            BY <1>2
        <3>. QED BY <1>1, <1>2, <2>1, <3>1, <3>2
    <2>. QED BY <2>2, <2>3 DEF ChannelOrdered
<1>7. AtLeastOnce'
    <2>. SUFFICES ASSUME NEW i \in Matching \ handled
                  PROVE  /\ saved < i
                         /\ cursor >= i =>
                              handling' = i \/ \E j \in 1..Len(channel') : channel'[j] = i
        BY <1>1, <1>3 DEF AtLeastOnce
    <2>1. i \in Nat /\ i # 0 /\ saved < i
          /\ (cursor >= i => handling = i \/ \E j \in 1..Len(channel) : channel[j] = i)
        BY DEF StreamInv, AtLeastOnce, Matching
    <2>2. ASSUME NEW j \in 1..Len(channel), channel[j] = i
          PROVE  handling' = i \/ \E k \in 1..Len(channel') : channel'[k] = i
        <3>1. CASE j = 1
            BY <3>1, <2>2, <1>2
        <3>2. CASE j # 1
            <4>1. j - 1 \in 1..Len(channel') /\ (j - 1) + 1 = j
                BY <3>2, <1>2
            <4>. QED BY <4>1, <2>2, <1>2
        <3>. QED BY <3>1, <3>2
    <2>. QED BY <1>1, <2>1, <2>2
<1>. QED BY <1>4, <1>5, <1>6, <1>7 DEF StreamInv

(* The event is handled. *)
LEMMA HandleInv == ASSUME StreamInv, Handle PROVE StreamInv'
<1>1. /\ UNCHANGED <<tip, log, filter, cursor, page, channel, handling, saved>>
      /\ handled' = handled \cup {handling}
    BY DEF Handle, workerVars
<1>2. Matching' = Matching
    BY <1>1, MatchingKept DEF StreamInv
<1>3. StreamTypeOK'
    BY <1>1 DEF StreamInv, StreamTypeOK
<1>4. PageFollows' /\ ChannelOrdered'
    BY <1>1 DEF StreamInv, PageFollows, ChannelOrdered
<1>5. AtLeastOnce'
    BY <1>1, <1>2 DEF StreamInv, AtLeastOnce
<1>. QED BY <1>3, <1>4, <1>5 DEF StreamInv

(* The heart of it: what is acknowledged is behind every event that is     *)
(* still to be handled.                                                    *)
LEMMA AcknowledgeInv == ASSUME StreamInv, Acknowledge PROVE StreamInv'
<1>1. /\ UNCHANGED <<tip, log, filter, cursor, page, channel, handled>>
      /\ handling # 0 /\ handling \in handled /\ saved' = handling /\ handling' = 0
      /\ handling \in Nat /\ cursor \in Nat /\ Len(log) \in Nat /\ Len(page) \in Nat
    BY DEF Acknowledge, StreamInv, StreamTypeOK
<1>2. Matching' = Matching
    BY <1>1, MatchingKept DEF StreamInv
<1>3. StreamTypeOK'
    BY <1>1 DEF StreamInv, StreamTypeOK
<1>4. PageFollows'
    BY <1>1 DEF StreamInv, PageFollows, ChannelOrdered
<1>5. ChannelOrdered'
    BY <1>1 DEF StreamInv, StreamTypeOK, ChannelOrdered
<1>6. AtLeastOnce'
    <2>. SUFFICES ASSUME NEW i \in Matching \ handled
                  PROVE  /\ handling < i
                         /\ cursor >= i => \E j \in 1..Len(channel) : channel[j] = i
        BY <1>1, <1>2 DEF AtLeastOnce
    <2>1. i \in Nat /\ i # 0 /\ i # handling
          /\ (cursor >= i => \E j \in 1..Len(channel) : channel[j] = i)
        BY <1>1 DEF StreamInv, AtLeastOnce, Matching
    <2>2. cursor >= i => handling < i
        BY <2>1 DEF StreamInv, ChannelOrdered
    <2>3. cursor < i => handling < i
        BY <1>1, <2>1 DEF StreamInv, ChannelOrdered
    <2>. QED BY <1>1, <2>1, <2>2, <2>3
<1>. QED BY <1>3, <1>4, <1>5, <1>6 DEF StreamInv

(* Back to the checkpoint. *)
LEMMA CrashInv == ASSUME StreamInv, Crash PROVE StreamInv'
<1>1. /\ UNCHANGED <<tip, log, filter, saved, handled>>
      /\ cursor' = saved /\ page' = <<>> /\ channel' = <<>> /\ handling' = 0
    BY DEF Crash
<1>2. Matching' = Matching
    BY <1>1, MatchingKept DEF StreamInv
<1>3. StreamTypeOK'
    BY <1>1 DEF StreamInv, StreamTypeOK
<1>4. PageFollows' /\ ChannelOrdered'
    BY <1>1 DEF StreamInv, StreamTypeOK, PageFollows, ChannelOrdered
<1>5. AtLeastOnce'
    <2>1. \A i \in Matching \ handled : saved < i /\ i \in Nat
        BY DEF StreamInv, AtLeastOnce, Matching
    <2>. QED BY <1>1, <1>2, <2>1 DEF AtLeastOnce, StreamInv, StreamTypeOK
<1>. QED BY <1>3, <1>4, <1>5 DEF StreamInv

(* The chain grows: the new events are ahead of everybody. *)
LEMMA CloseInv ==
    ASSUME StreamInv, NEW n \in 0..2, NEW events \in [1..n -> ParsedEvents], CloseWith(events)
    PROVE  StreamInv'
<1>1. /\ UNCHANGED <<filter, cursor, page, channel, handling, saved, handled>>
      /\ tip' = tip + 1 /\ tip \in Nat /\ log \in Seq(Logged)
    BY DEF CloseWith, workerVars, StreamInv, StreamTypeOK
<1>2. events \in Seq(ParsedEvents) /\ Len(events) = n
    OBVIOUS
<1>3. PICK more \in Seq(Logged) : log' = log \o more
    <2>1. PICK more : more = [i \in 1..n |-> [ledger |-> tip + 1, event |-> events[i]]]
        OBVIOUS
    <2>2. \A i \in 1..n : [ledger |-> tip + 1, event |-> events[i]] \in Logged
        BY <1>1 DEF Logged
    <2>3. more \in Seq(Logged)
        BY <2>1, <2>2
    <2>. QED BY <1>2, <2>1, <2>3 DEF CloseWith
<1>4. /\ log' \in Seq(Logged) /\ Len(log') = Len(log) + Len(more) /\ Len(log) \in Nat /\ Len(more) \in Nat
      /\ \A i \in 1..Len(log) : log'[i] = log[i]
    BY <1>1, <1>3
<1>5. \A i \in Matching' : i \in Nat /\ (i > Len(log) \/ i \in Matching)
    BY <1>1, <1>4 DEF Matching, Matches
<1>6. StreamTypeOK'
    BY <1>1, <1>4 DEF StreamInv, StreamTypeOK
<1>7. PageFollows'
    BY <1>1, <1>4 DEF StreamInv, StreamTypeOK, PageFollows
<1>8. ChannelOrdered'
    BY <1>1 DEF StreamInv, ChannelOrdered
<1>9. AtLeastOnce'
    <2>1. saved <= Len(log) /\ cursor <= Len(log) /\ saved \in Nat /\ cursor \in Nat
        BY DEF StreamInv, StreamTypeOK, PageFollows
    <2>. QED BY <1>1, <1>4, <1>5, <2>1 DEF StreamInv, AtLeastOnce
<1>. QED BY <1>6, <1>7, <1>8, <1>9 DEF StreamInv

(* Every step keeps the invariant; the watcher does not touch the stream. *)
LEMMA StreamNextInv == StreamInv /\ [StreamNext]_streamVars => StreamInv'
<1>. SUFFICES ASSUME StreamInv, [StreamNext]_streamVars PROVE StreamInv'
    OBVIOUS
<1>1. ASSUME UNCHANGED <<tip, log, filter, cursor, page, channel, handling, saved, handled>> PROVE StreamInv'
    <2>1. Matching' = Matching
        BY <1>1, MatchingKept DEF StreamInv
    <2>. QED BY <1>1, <2>1 DEF StreamInv, StreamTypeOK, PageFollows, ChannelOrdered, AtLeastOnce
<1>2. CASE WatchPage
    BY <1>1, <1>2 DEF WatchPage, workerVars
<1>3. CASE UNCHANGED streamVars
    BY <1>1, <1>3 DEF streamVars, workerVars
<1>4. ASSUME NEW n \in 0..2, NEW events \in [1..n -> ParsedEvents], CloseWith(events) PROVE StreamInv'
    BY <1>4, CloseInv
<1>. QED BY <1>2, <1>3, <1>4, FetchPageInv, FetchErrorInv, SendNextInv, RecvInv, HandleInv,
            AcknowledgeInv, CrashInv DEF StreamNext

(* No crash, failed request or full channel makes the stream lose an       *)
(* event, for any filter, page size and channel: the checkpoint is behind  *)
(* whatever is not handled, and what the worker has passed is on its way.  *)
THEOREM StreamDeliversAtLeastOnce == StreamSpec => []AtLeastOnce
<1>1. StreamInit => StreamInv
    BY StreamInitInv
<1>2. StreamInv /\ [StreamNext]_streamVars => StreamInv'
    BY StreamNextInv
<1>3. StreamInv => AtLeastOnce
    BY DEF StreamInv
<1>. QED BY <1>1, <1>2, <1>3, PTL DEF StreamSpec

------------------------------------------------------------------------------
(* The CLI watch command.                                                  *)

(* The log is in the order of its ledgers, all of them closed. *)
LedgersOrdered ==
    /\ tip \in Nat /\ log \in Seq(Logged)
    /\ \A i \in 1..Len(log) : log[i].ledger <= tip /\ \A j \in 1..i : log[j].ledger <= log[i].ledger

(* What the watcher has asked for. *)
Asked == {i \in 1..Len(log) : log[i].ledger < next_ledger \/ i <= watch_cursor}

(* Within a ledger a page ends past what the earlier ledgers hold, and     *)
(* nothing is printed ahead of it.                                         *)
WatchPlaced ==
    /\ next_ledger \in Nat /\ watch_cursor \in Nat /\ printed \in Seq(Nat)
    /\ next_ledger <= tip + 1 /\ watch_cursor <= Len(log)
    /\ watch_cursor # 0 => \A i \in 1..Len(log) : log[i].ledger < next_ledger => i <= watch_cursor
    /\ \A j \in 1..Len(printed) : printed[j] \in Asked

WatchInv == LedgersOrdered /\ WatchPlaced /\ WatchExact

(* A set of positions with all those below them is an interval. *)
LEMMA PrefixCounted ==
    ASSUME NEW n \in Nat, NEW S \in SUBSET (1..n), \A i \in S : \A j \in 1..i : j \in S
    PROVE  Cardinality(S) \in 0..n /\ S = 1..Cardinality(S)
<1>1. S \in SUBSET Nat /\ IsFiniteSet(S)
    <2>1. IsFiniteSet(1..n)
        BY UpToFinite
    <2>2. IsFiniteSet(S)
        BY <2>1, FS_Subset
    <2>. QED BY <2>2
<1>2. CASE S = {}
    <2>1. Cardinality(S) = 0
        BY <1>2, FS_EmptySet
    <2>. QED BY <1>2, <2>1
<1>3. CASE S # {}
    <2>1. /\ InOrder(S) \in Seq(S) /\ Cardinality(S) \in Nat /\ Len(InOrder(S)) = Cardinality(S)
          /\ \A x \in S : \E i \in 1..Cardinality(S) : InOrder(S)[i] = x
          /\ \A i, j \in 1..Cardinality(S) : i < j => InOrder(S)[i] < InOrder(S)[j]
        BY <1>1, InOrderLists
    <2>. DEFINE k == Cardinality(S)
                m == InOrder(S)[k]
    <2>2. k \in 1..k
        <3>1. PICK x \in S : TRUE
            BY <1>3
        <3>2. PICK i \in 1..k : InOrder(S)[i] = x
            BY <2>1
        <3>. QED BY <2>1, <3>2
    <2>3. m \in S
        BY <2>1, <2>2
    <2>4. ASSUME NEW x \in S PROVE x \in 1..m
        <3>1. PICK i \in 1..k : InOrder(S)[i] = x
            BY <2>1
        <3>2. i = k \/ i < k
            BY <2>1
        <3>3. x = m \/ x < m
            BY <2>1, <2>2, <3>1, <3>2
        <3>4. x \in 1..n /\ m \in 1..n
            BY <2>3
        <3>. HIDE DEF m
        <3>. QED BY <3>3, <3>4
    <2>5. S = 1..m /\ m \in Nat /\ m <= n
        <3>1. m \in 1..n /\ \A j \in 1..m : j \in S
            BY <2>3
        <3>. HIDE DEF m
        <3>2. \A x : x \in S <=> x \in 1..m
            BY <2>4, <3>1
        <3>3. S = 1..m
            BY <3>2, Zenon
        <3>. QED BY <3>1, <3>3
    <2>6. Cardinality(1..m) = m
        BY <2>5, UpToFinite
    <2>7. Cardinality(S) = m
        BY <2>5, <2>6
    <2>. HIDE DEF m, k
    <2>. QED BY <2>5, <2>7
<1>. QED BY <1>2, <1>3

(* The next page begins after everything that has been asked for. *)
LEMMA AskedSoFar ==
    ASSUME LedgersOrdered, WatchPlaced
    PROVE  WatchFrom \in Nat /\ WatchFrom <= Len(log) /\ Asked = 1..WatchFrom
<1>1. Len(log) \in Nat /\ \A i \in 1..Len(log) : log[i].ledger \in Nat
    <2>1. \A i \in 1..Len(log) : log[i] \in Logged
        BY DEF LedgersOrdered
    <2>. QED BY <2>1 DEF LedgersOrdered, Logged
<1>2. CASE watch_cursor # 0
    BY <1>1, <1>2 DEF WatchPlaced, WatchFrom, Asked
<1>3. CASE watch_cursor = 0
    <2>. DEFINE S == {i \in 1..Len(log) : log[i].ledger < next_ledger}
    <2>1. WatchFrom = Cardinality(S)
        BY <1>3 DEF WatchFrom
    <2>2. Asked = S
        BY <1>3 DEF Asked
    <2>3. \A i \in S : \A j \in 1..i : j \in S
        <3>. SUFFICES ASSUME NEW i \in S, NEW j \in 1..i PROVE j \in S
            OBVIOUS
        <3>1. j \in 1..Len(log) /\ i \in 1..Len(log)
            BY <1>1
        <3>2. log[j].ledger <= log[i].ledger /\ next_ledger \in Nat /\ log[i].ledger < next_ledger
            BY <3>1 DEF LedgersOrdered, WatchPlaced
        <3>. QED BY <1>1, <3>1, <3>2
    <2>4. S \in SUBSET (1..Len(log))
        OBVIOUS
    <2>. HIDE DEF S
    <2>5. Cardinality(S) \in 0..Len(log) /\ S = 1..Cardinality(S)
        BY <1>1, <2>3, <2>4, PrefixCounted
    <2>. QED BY <1>1, <2>1, <2>2, <2>5
<1>. QED BY <1>2, <1>3

LEMMA WatchInitInv == StreamInit => WatchInv
BY DEF StreamInit, WatchInv, LedgersOrdered, WatchPlaced, WatchExact, Asked, Matching

(* A page prints, in order, the events it holds that match. *)
LEMMA PagePrints ==
    ASSUME NEW from \in Nat, NEW n \in Nat,
           NEW T, NEW t \in Seq(T), Len(t) = n, \A i \in 1..n : t[i] = from + i,
           NEW q, q = PrintedOf(t)
    PROVE  /\ q \in Seq(T)
           /\ \A j \in 1..Len(q) : /\ q[j] \in (from + 1)..(from + n) /\ Matches(log[q[j]].event)
                                   /\ \A k \in 1..(j - 1) : q[k] < q[j]
           /\ \A i \in (from + 1)..(from + n) : Matches(log[i].event) => \E j \in 1..Len(q) : q[j] = i
<1>2. PICK P : P = {i \in 1..Len(t) : Matches(log[t[i]].event)}
    OBVIOUS
<1>1. Len(t) = n /\ \A i \in 1..n : t[i] = from + i
    OBVIOUS
<1>3. P \in SUBSET (1..n) /\ \A i \in 1..n : i \in P <=> Matches(log[from + i].event)
    BY <1>1, <1>2
<1>. DEFINE p == InOrder(P)
<1>4. /\ p \in [1..Cardinality(P) -> P]
      /\ Cardinality(P) \in Nat /\ Cardinality(P) <= Len(t)
      /\ q \in Seq(T) /\ Len(q) = Cardinality(P)
      /\ \A i \in 1..Cardinality(P) : q[i] = t[p[i]]
      /\ \A i, j \in 1..Cardinality(P) : i < j => p[i] < p[j]
      /\ \A x \in P : \E i \in 1..Cardinality(P) : p[i] = x
    <2>1. P \in SUBSET (1..Len(t))
        BY <1>1, <1>3
    <2>2. q = Kept(t, P)
        BY <1>2 DEF PrintedOf
    <2>. QED BY <2>1, <2>2, KeptLists
<1>. HIDE DEF p
<1>5. \A i \in 1..Len(q) : p[i] \in 1..n /\ q[i] = from + p[i] /\ Matches(log[from + p[i]].event)
    BY <1>1, <1>3, <1>4
<1>6. ASSUME NEW j \in 1..Len(q)
      PROVE  /\ q[j] \in (from + 1)..(from + n) /\ Matches(log[q[j]].event)
             /\ \A k \in 1..(j - 1) : q[k] < q[j]
    <2>1. \A k \in 1..(j - 1) : k \in 1..Len(q) /\ k < j
        BY <1>4
    <2>2. \A k \in 1..(j - 1) : p[k] < p[j]
        BY <1>4, <2>1
    <2>3. q[j] = from + p[j] /\ p[j] \in 1..n /\ Matches(log[q[j]].event)
        BY <1>5
    <2>4. \A k \in 1..(j - 1) : q[k] = from + p[k] /\ p[k] \in 1..n
        BY <1>5, <2>1
    <2>5. q[j] \in (from + 1)..(from + n)
        BY <2>3
    <2>6. ASSUME NEW k \in 1..(j - 1) PROVE q[k] < q[j]
        <3>1. p[k] < p[j] /\ q[k] = from + p[k] /\ p[k] \in 1..n
            BY <2>2, <2>4
        <3>. QED BY <2>3, <3>1
    <2>. QED BY <2>3, <2>5, <2>6
<1>7. ASSUME NEW i \in (from + 1)..(from + n), Matches(log[i].event) PROVE \E j \in 1..Len(q) : q[j] = i
    <2>1. i - from \in 1..n /\ from + (i - from) = i
        OBVIOUS
    <2>2. i - from \in P
        BY <1>3, <1>7, <2>1
    <2>3. PICK j \in 1..Len(q) : p[j] = i - from
        BY <1>4, <2>2
    <2>. QED BY <1>5, <2>1, <2>3
<1>. QED BY <1>4, <1>6, <1>7

(* One page: what is asked for grows by the page, and so does what is      *)
(* printed.                                                                *)
LEMMA WatchPageInv == ASSUME WatchInv, WatchPage PROVE WatchInv'
<1>. DEFINE f == WatchFrom
<1>1. f \in Nat /\ Len(log) \in Nat /\ f <= Len(log) /\ Asked = 1..f /\ PageLimit \in Nat \ {0}
    BY AskedSoFar, StreamAssumption DEF WatchInv, LedgersOrdered
<1>. HIDE DEF f
<1>2. PICK n \in Nat : n = IF Len(log) - f < PageLimit THEN Len(log) - f ELSE PageLimit
    <2>1. Len(log) - f \in Nat /\ PageLimit \in Nat
        BY <1>1
    <2>. QED BY <2>1
<1>3. PICK t : t = [i \in 1..n |-> f + i]
    OBVIOUS
<1>4. t = PageAfter(WatchFrom) /\ Len(t) = n /\ \A i \in 1..n : t[i] = f + i
    BY <1>2, <1>3 DEF PageAfter, f
<1>5. PICK q : q = PrintedOf(t)
    OBVIOUS
<1>6. /\ q \in Seq(Nat)
      /\ \A j \in 1..Len(q) : /\ q[j] \in (f + 1)..(f + n) /\ Matches(log[q[j]].event)
                              /\ \A k \in 1..(j - 1) : q[k] < q[j]
      /\ \A i \in (f + 1)..(f + n) : Matches(log[i].event) => \E j \in 1..Len(q) : q[j] = i
    <2>1. PICK T : T = Nat
        OBVIOUS
    <2>2. t \in Seq(T)
        BY <1>1, <1>3, <2>1
    <2>3. /\ q \in Seq(T)
          /\ \A j \in 1..Len(q) : /\ q[j] \in (f + 1)..(f + n) /\ Matches(log[q[j]].event)
                                  /\ \A k \in 1..(j - 1) : q[k] < q[j]
          /\ \A i \in (f + 1)..(f + n) : Matches(log[i].event) => \E j \in 1..Len(q) : q[j] = i
        BY <1>1, <1>4, <1>5, <2>2, PagePrints
    <2>. QED BY <2>1, <2>3
<1>7. /\ UNCHANGED <<tip, log, filter>> /\ next_ledger <= tip /\ printed' = printed \o q
      /\ IF n < PageLimit THEN next_ledger' = tip + 1 /\ watch_cursor' = 0
                          ELSE watch_cursor' = f + n /\ next_ledger' = next_ledger
    <2>1. n \in 1..n \/ n = 0
        OBVIOUS
    <2>2. n >= PageLimit => n = PageLimit /\ t[PageLimit] = f + n
        BY <1>1, <1>2, <1>4
    <2>. QED BY <1>1, <1>4, <1>5, <2>2 DEF WatchPage
<1>8. LedgersOrdered'
    BY <1>7 DEF WatchInv, LedgersOrdered
<1>9. tip \in Nat /\ next_ledger \in Nat /\ \A i \in 1..Len(log) : log[i].ledger \in Nat /\ log[i].ledger <= tip
    <2>1. \A i \in 1..Len(log) : log[i] \in Logged
        BY DEF WatchInv, LedgersOrdered
    <2>. QED BY <2>1 DEF WatchInv, LedgersOrdered, WatchPlaced, Logged
<1>10. f + n <= Len(log) /\ Asked' = 1..(f + n)
    <2>1. CASE n < PageLimit
        <3>1. f + n = Len(log)
            BY <1>1, <1>2, <2>1
        <3>. QED BY <1>1, <1>7, <1>9, <2>1, <3>1 DEF Asked
    <2>2. CASE ~(n < PageLimit)
        <3>1. f + n <= Len(log) /\ watch_cursor' = f + n /\ next_ledger' = next_ledger
            BY <1>1, <1>2, <1>7, <2>2
        <3>2. \A i \in 1..Len(log) : log[i].ledger < next_ledger => i <= f
            BY <1>1 DEF Asked
        <3>. QED BY <1>1, <1>7, <3>1, <3>2 DEF Asked
    <2>. QED BY <2>1, <2>2
<1>11. /\ printed \in Seq(Nat)
       /\ \A j \in 1..Len(printed) : /\ printed[j] \in 1..f /\ printed[j] \in Matching
                                     /\ \A k \in 1..(j - 1) : printed[k] < printed[j]
       /\ \A i \in Matching : i <= f => \E j \in 1..Len(printed) : printed[j] = i
    <2>1. \A i \in Matching : i <= f => log[i].ledger < next_ledger \/ i <= watch_cursor
        BY <1>1 DEF Asked, Matching
    <2>. QED BY <1>1, <2>1 DEF WatchInv, WatchPlaced, WatchExact
<1>12. /\ printed' \in Seq(Nat) /\ Len(printed') = Len(printed) + Len(q) /\ Len(printed) \in Nat /\ Len(q) \in Nat
       /\ \A j \in 1..Len(printed) : printed'[j] = printed[j]
       /\ \A j \in 1..Len(q) : printed'[Len(printed) + j] = q[j]
    BY <1>6, <1>7, <1>11
<1>13. Matching' = Matching
    BY <1>7 DEF Matching, Matches
<1>14. ASSUME NEW j \in 1..Len(printed')
       PROVE  /\ printed'[j] \in 1..(f + n) /\ printed'[j] \in Matching
              /\ \A k \in 1..(j - 1) : printed'[k] < printed'[j]
    <2>1. CASE j <= Len(printed)
        <3>1. j \in 1..Len(printed) /\ \A k \in 1..(j - 1) : k \in 1..Len(printed)
            BY <1>12, <2>1
        <3>2. printed'[j] = printed[j] /\ \A k \in 1..(j - 1) : printed'[k] = printed[k]
            BY <1>12, <3>1
        <3>3. /\ printed[j] \in 1..f /\ printed[j] \in Matching
              /\ \A k \in 1..(j - 1) : printed[k] < printed[j]
            BY <1>11, <3>1
        <3>. QED BY <1>1, <3>2, <3>3
    <2>2. CASE j > Len(printed)
        <3>. DEFINE m == j - Len(printed)
        <3>1. m \in 1..Len(q) /\ j = Len(printed) + m
            BY <1>12, <2>2
        <3>. HIDE DEF m
        <3>2. printed'[j] = q[m] /\ q[m] \in (f + 1)..(f + n) /\ Matches(log[q[m]].event)
            BY <1>6, <1>12, <3>1
        <3>3. printed'[j] \in Matching
            BY <1>1, <1>10, <3>2 DEF Matching
        <3>4. ASSUME NEW k \in 1..(j - 1) PROVE printed'[k] < printed'[j]
            <4>1. CASE k <= Len(printed)
                <5>1. k \in 1..Len(printed)
                    BY <1>12, <4>1
                <5>2. printed'[k] \in 1..f
                    BY <1>11, <1>12, <5>1
                <5>. QED BY <1>1, <3>2, <5>2
            <4>2. CASE k > Len(printed)
                <5>1. k - Len(printed) \in 1..(m - 1) /\ k - Len(printed) \in 1..Len(q)
                      /\ k = Len(printed) + (k - Len(printed))
                    BY <1>12, <3>1, <4>2
                <5>. QED BY <1>6, <1>12, <3>1, <3>2, <5>1
            <4>. QED BY <1>12, <4>1, <4>2
        <3>. QED BY <1>1, <3>2, <3>3, <3>4
    <2>. QED BY <1>12, <2>1, <2>2
<1>15. ASSUME NEW i \in Matching, i <= f + n PROVE \E j \in 1..Len(printed') : printed'[j] = i
    <2>0. i \in Nat /\ i # 0 /\ Matches(log[i].event)
        BY DEF Matching
    <2>1. CASE i <= f
        <3>1. PICK j \in 1..Len(printed) : printed[j] = i
            BY <1>11, <2>1
        <3>2. j \in 1..Len(printed') /\ printed'[j] = i
            BY <1>12, <3>1
        <3>. QED BY <3>2
    <2>2. CASE ~(i <= f)
        <3>1. PICK j \in 1..Len(q) : q[j] = i
            BY <1>1, <1>6, <1>15, <2>0, <2>2
        <3>2. Len(printed) + j \in 1..Len(printed') /\ printed'[Len(printed) + j] = i
            BY <1>12, <3>1
        <3>. QED BY <3>2
    <2>. QED BY <2>1, <2>2
<1>16. WatchPlaced'
    <2>1. \A j \in 1..Len(printed') : printed'[j] \in Asked'
        BY <1>10, <1>14
    <2>2. next_ledger' \in Nat /\ watch_cursor' \in Nat /\ next_ledger' <= tip' + 1 /\ watch_cursor' <= Len(log')
        BY <1>1, <1>7, <1>9, <1>10
    <2>3. watch_cursor' # 0 => \A i \in 1..Len(log') : log'[i].ledger < next_ledger' => i <= watch_cursor'
        BY <1>1, <1>7, <1>10 DEF Asked
    <2>. QED BY <1>12, <2>1, <2>2, <2>3 DEF WatchPlaced
<1>17. WatchExact'
    <2>1. \A i \in Matching' : log'[i].ledger < next_ledger' \/ i <= watch_cursor' => i <= f + n
        BY <1>1, <1>7, <1>10 DEF Asked, Matching
    <2>. QED BY <1>13, <1>14, <1>15, <2>1 DEF WatchExact
<1>. QED BY <1>8, <1>16, <1>17 DEF WatchInv

(* A ledger closes: its events are ahead of the watcher. *)
LEMMA WatchCloseInv ==
    ASSUME WatchInv, NEW n \in 0..2, NEW events \in [1..n -> ParsedEvents], CloseWith(events)
    PROVE  WatchInv'
<1>1. /\ UNCHANGED <<filter, next_ledger, watch_cursor, printed>>
      /\ tip' = tip + 1 /\ tip \in Nat /\ log \in Seq(Logged)
    BY DEF CloseWith, watchVars, WatchInv, LedgersOrdered
<1>2. events \in Seq(ParsedEvents) /\ Len(events) = n /\ n \in Nat
    OBVIOUS
<1>3. PICK more : more = [i \in 1..n |-> [ledger |-> tip + 1, event |-> events[i]]]
    OBVIOUS
<1>4. more \in Seq(Logged) /\ Len(more) = n /\ \A i \in 1..n : more[i].ledger = tip + 1
    <2>1. \A i \in 1..n : [ledger |-> tip + 1, event |-> events[i]] \in Logged
        BY <1>1 DEF Logged
    <2>. QED BY <1>2, <1>3, <2>1
<1>5. log' = log \o more
    BY <1>2, <1>3 DEF CloseWith
<1>6. /\ log' \in Seq(Logged) /\ Len(log') = Len(log) + n /\ Len(log) \in Nat
      /\ \A i \in 1..Len(log) : log'[i] = log[i]
      /\ \A i \in 1..n : log'[Len(log) + i] = more[i]
    BY <1>1, <1>2, <1>4, <1>5
<1>7. ASSUME NEW i \in 1..Len(log'), i > Len(log) PROVE log'[i].ledger = tip + 1
    <2>1. i - Len(log) \in 1..n /\ i = Len(log) + (i - Len(log))
        BY <1>2, <1>6, <1>7
    <2>. QED BY <1>4, <1>6, <2>1
<1>8. \A i \in 1..Len(log) : log[i].ledger \in Nat /\ log[i].ledger <= tip
    <2>1. \A i \in 1..Len(log) : log[i] \in Logged
        BY DEF WatchInv, LedgersOrdered
    <2>. QED BY <2>1 DEF WatchInv, LedgersOrdered, Logged
<1>9. LedgersOrdered'
    <2>1. ASSUME NEW i \in 1..Len(log'), NEW j \in 1..i
          PROVE  log'[i].ledger <= tip' /\ log'[j].ledger <= log'[i].ledger
        <3>1. CASE i <= Len(log)
            <4>1. i \in 1..Len(log) /\ j \in 1..Len(log)
                BY <1>6, <3>1
            <4>2. log[j].ledger <= log[i].ledger
                BY <4>1 DEF WatchInv, LedgersOrdered
            <4>. QED BY <1>1, <1>6, <1>8, <4>1, <4>2
        <3>2. CASE i > Len(log)
            <4>1. log'[i].ledger = tip + 1
                BY <1>7, <3>2
            <4>2. CASE j <= Len(log)
                <5>1. j \in 1..Len(log)
                    BY <1>6, <4>2
                <5>2. log'[j].ledger \in Nat /\ log'[j].ledger <= tip
                    BY <1>6, <1>8, <5>1
                <5>. QED BY <1>1, <4>1, <5>2
            <4>3. CASE j > Len(log)
                <5>1. j \in 1..Len(log')
                    BY <1>6
                <5>. QED BY <1>1, <1>7, <4>1, <4>3, <5>1
            <4>. QED BY <1>6, <4>2, <4>3
        <3>. QED BY <1>6, <3>1, <3>2
    <2>2. \A i \in 1..Len(log') : i \in 1..i
        BY <1>6
    <2>. QED BY <1>1, <1>6, <2>1, <2>2 DEF LedgersOrdered
<1>10. /\ next_ledger \in Nat /\ watch_cursor \in Nat /\ next_ledger <= tip + 1 /\ watch_cursor <= Len(log)
       /\ printed \in Seq(Nat)
    BY DEF WatchInv, WatchPlaced
<1>11. ASSUME NEW i \in 1..Len(log'), log'[i].ledger < next_ledger \/ i <= watch_cursor
       PROVE  i \in 1..Len(log) /\ log'[i] = log[i]
    <2>1. ~(i > Len(log))
        BY <1>1, <1>6, <1>7, <1>10, <1>11
    <2>. QED BY <1>6, <2>1
<1>12. WatchPlaced'
    <2>1. Asked \subseteq Asked'
        BY <1>1, <1>6 DEF Asked
    <2>2. \A j \in 1..Len(printed) : printed[j] \in Asked
        BY DEF WatchInv, WatchPlaced
    <2>3. watch_cursor # 0 => \A i \in 1..Len(log') : log'[i].ledger < next_ledger => i <= watch_cursor
        <3>1. watch_cursor # 0 => \A i \in 1..Len(log) : log[i].ledger < next_ledger => i <= watch_cursor
            BY DEF WatchInv, WatchPlaced
        <3>. QED BY <1>11, <3>1
    <2>. QED BY <1>1, <1>2, <1>6, <1>10, <2>1, <2>2, <2>3 DEF WatchPlaced
<1>13. WatchExact'
    <2>1. \A i \in 1..Len(log) : i \in Matching' <=> i \in Matching
        BY <1>1, <1>6 DEF Matching, Matches
    <2>2. \A i \in Matching : i \in 1..Len(log)
        BY DEF Matching
    <2>3. \A i \in Matching' : i \in 1..Len(log')
        BY DEF Matching
    <2>4. ASSUME NEW i \in Matching', log'[i].ledger < next_ledger \/ i <= watch_cursor
          PROVE  \E j \in 1..Len(printed) : printed[j] = i
        <3>1. i \in Matching /\ log'[i] = log[i]
            BY <1>11, <2>1, <2>3, <2>4
        <3>. QED BY <2>4, <3>1 DEF WatchInv, WatchExact
    <2>. QED BY <1>1, <2>1, <2>2, <2>4 DEF WatchInv, WatchExact
<1>. QED BY <1>9, <1>12, <1>13 DEF WatchInv

LEMMA WatchNextInv == WatchInv /\ [StreamNext]_streamVars => WatchInv'
<1>. SUFFICES ASSUME WatchInv, [StreamNext]_streamVars PROVE WatchInv'
    OBVIOUS
<1>1. ASSUME UNCHANGED <<tip, log, filter, next_ledger, watch_cursor, printed>> PROVE WatchInv'
    <2>1. Matching' = Matching
        BY <1>1 DEF Matching, Matches
    <2>. QED BY <1>1, <2>1 DEF WatchInv, LedgersOrdered, WatchPlaced, WatchExact, Asked
<1>2. CASE WatchPage
    BY <1>2, WatchPageInv
<1>3. CASE UNCHANGED streamVars
    BY <1>1, <1>3 DEF streamVars, watchVars
<1>4. ASSUME NEW n \in 0..2, NEW events \in [1..n -> ParsedEvents], CloseWith(events) PROVE WatchInv'
    BY <1>4, WatchCloseInv
<1>5. CASE FetchPage \/ FetchError \/ SendNext \/ Recv \/ Handle \/ Acknowledge \/ Crash
    BY <1>1, <1>5 DEF FetchPage, FetchError, SendNext, Recv, Handle, Acknowledge, Crash, watchVars
<1>. QED BY <1>2, <1>3, <1>4, <1>5 DEF StreamNext

(* Neither follower of the event log loses an event: not the stream, over  *)
(* crashes, RPC errors and a full channel, nor the CLI's watch command,    *)
(* which prints what it asks for once and in order, over pages that end in *)
(* the middle of a ledger and ledgers that close between two pages.  For   *)
(* any log, filter, page size and channel.                                 *)
THEOREM EventsNeverMissed == StreamSpec => []NoEventMissed
<1>1. StreamInv /\ WatchInv => NoEventMissed
    BY DEF StreamInv, WatchInv, NoEventMissed
<1>. QED BY <1>1, StreamInitInv, StreamNextInv, WatchInitInv, WatchNextInv, PTL DEF StreamSpec
==============================================================================
