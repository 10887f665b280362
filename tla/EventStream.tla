----------------------------- MODULE EventStream -----------------------------
(***************************************************************************)
(* Following contract events: the SDK's resumable stream                   *)
(* (packages/soroban-sas-sdk/src/stream.rs, parsing in events.rs) and the  *)
(* CLI's watch command (packages/soroban-sas-cli/src/watch.rs).            *)
(*                                                                         *)
(* The stream is a worker that pages through getEvents and a consumer that *)
(* receives, handles and acknowledges; between them a bounded channel, and *)
(* a checkpoint file that outlives a crash of the process.  The watcher    *)
(* has no file: it prints from a ledger on, page by page, and goes on with *)
(* the ledger after the last closed one.                                   *)
(*                                                                         *)
(* The RPC node is external: events are numbered by their paging tokens,   *)
(* 1, 2, ..., and requests may fail.                                       *)
(***************************************************************************)
EXTENDS Naturals, Sequences, FiniteSets, Ordered

CONSTANTS
    Schemas,     \* schema UIDs of issuances
    AnySchema,   \* no filter
    PageLimit,   \* events in a page
    ChannelSize, \* capacity of the channel
    MaxEvents,   \* bound: events emitted
    MaxCrashes,  \* bound: crashes of the consumer's process
    MaxErrors    \* bound: failed requests

ASSUME StreamAssumption ==
    /\ AnySchema \notin Schemas
    /\ PageLimit \in Nat \ {0} /\ ChannelSize \in Nat \ {0}
    /\ MaxEvents \in Nat /\ MaxCrashes \in Nat /\ MaxErrors \in Nat

VARIABLES
    tip,        \* the latest ledger
    log,        \* the contract's events
    follower,   \* which of the two follows the events in this behaviour
    filter,     \* EventFilter.schema_uid
    cursor,     \* the worker's paging token
    page,       \* what it has yet to send of its page
    channel,    \* tokens on the channel; 0 is an error message
    handling,   \* the event the consumer works on
    saved,      \* the checkpoint file
    handled,    \* history: events the consumer has finished with
    crashes, errors,
    next_ledger, watch_cursor,  \* the watcher's position
    printed     \* history: tokens the watcher printed, in order

workerVars == <<cursor, page, channel, handling>>
watchVars == <<next_ledger, watch_cursor, printed>>
streamVars == <<tip, log, follower, filter, workerVars, saved, handled, crashes, errors, watchVars>>

(* parse_event, as far as the followers tell its results apart: issued     *)
(* with a schema, revoked, or anything else (events of other kinds and     *)
(* payloads it refuses).                                                   *)
ParsedEvents ==
    [kind : {"issued"}, schema : Schemas] \cup [kind : {"revoked", "other"}, schema : {AnySchema}]

(* EventFilter::matches; filter_event of watch with a schema decides the   *)
(* same for these kinds.                                                   *)
Matches(e) ==
    \/ e.kind = "issued" /\ filter \in {AnySchema, e.schema}
    \/ e.kind = "revoked" /\ filter = AnySchema

Matching == {i \in 1..Len(log) : Matches(log[i].event)}

(* The tokens of the page after position `from`. *)
PageAfter(from) ==
    [i \in 1..(IF Len(log) - from < PageLimit THEN Len(log) - from ELSE PageLimit) |-> from + i]

------------------------------------------------------------------------------
(* The worker.                                                             *)

(* One getEvents round: the page is decoded as a whole. *)
FetchPage ==
    /\ follower = "stream" /\ page = <<>> /\ cursor < Len(log)
    /\ page' = PageAfter(cursor)
    /\ UNCHANGED <<tip, log, follower, filter, cursor, channel, handling, saved, handled, crashes, errors, watchVars>>

(* The request fails or the page does not decode: the error is reported    *)
(* and the same page is asked for again after a delay.                     *)
FetchError ==
    /\ follower = "stream" /\ page = <<>> /\ errors < MaxErrors /\ Len(channel) < ChannelSize
    /\ errors' = errors + 1
    /\ channel' = Append(channel, 0)
    /\ UNCHANGED <<tip, log, follower, filter, cursor, page, handling, saved, handled, crashes, watchVars>>

(* Mutant: events that are filtered out do not move the cursor. *)
SendNext_Filtered ==
    /\ page # <<>>
    /\ LET token == Head(page)
       IN  /\ IF Matches(log[token].event)
                THEN /\ Len(channel) < ChannelSize
                     /\ channel' = Append(channel, token)
                     /\ cursor' = token
                ELSE UNCHANGED <<channel, cursor>>
           /\ page' = Tail(page)
    /\ UNCHANGED <<tip, log, follower, filter, handling, saved, handled, crashes, errors, watchVars>>

(* Mutant: what is put on the channel counts as delivered. *)
SendNext_Saves ==
    /\ page # <<>>
    /\ LET token == Head(page)
       IN  /\ cursor' = token
           /\ saved' = token
           /\ page' = Tail(page)
           /\ IF Matches(log[token].event)
                THEN Len(channel) < ChannelSize /\ channel' = Append(channel, token)
                ELSE UNCHANGED channel
    /\ UNCHANGED <<tip, log, follower, filter, handling, handled, crashes, errors, watchVars>>

(* The next event of the page: the cursor moves, and an event that matches *)
(* waits for room on the channel.                                          *)
SendNext ==
    /\ page # <<>>
    /\ LET token == Head(page)
       IN  /\ cursor' = token
           /\ page' = Tail(page)
           /\ IF Matches(log[token].event)
                THEN Len(channel) < ChannelSize /\ channel' = Append(channel, token)
                ELSE UNCHANGED channel
    /\ UNCHANGED <<tip, log, follower, filter, handling, saved, handled, crashes, errors, watchVars>>

------------------------------------------------------------------------------
(* The consumer.                                                           *)

Recv ==
    /\ handling = 0 /\ channel # <<>>
    /\ handling' = Head(channel)
    /\ channel' = Tail(channel)
    /\ UNCHANGED <<tip, log, follower, filter, cursor, page, saved, handled, crashes, errors, watchVars>>

Handle ==
    /\ handling \notin handled \cup {0}
    /\ handled' = handled \cup {handling}
    /\ UNCHANGED <<tip, log, follower, filter, workerVars, saved, crashes, errors, watchVars>>

(* write_checkpoint replaces the file by a rename, so a crash leaves the   *)
(* old one or the new one.                                                 *)
Acknowledge ==
    /\ handling # 0 /\ handling \in handled
    /\ saved' = handling
    /\ handling' = 0
    /\ UNCHANGED <<tip, log, follower, filter, cursor, page, channel, handled, crashes, errors, watchVars>>

(* The process dies and subscribes again: read_checkpoint. *)
Crash ==
    /\ follower = "stream" /\ crashes < MaxCrashes
    /\ crashes' = crashes + 1
    /\ cursor' = saved
    /\ page' = <<>> /\ channel' = <<>> /\ handling' = 0
    /\ UNCHANGED <<tip, log, follower, filter, saved, handled, errors, watchVars>>

------------------------------------------------------------------------------
(* watch.                                                                  *)

WatchFrom ==
    IF watch_cursor # 0 THEN watch_cursor
    ELSE Cardinality({i \in 1..Len(log) : log[i].ledger < next_ledger})

PrintedOf(tokens) == Kept(tokens, {i \in 1..Len(tokens) : Matches(log[tokens[i]].event)})

(* A page; the last one carries the ledger to go on from. *)
WatchPage ==
    LET tokens == PageAfter(WatchFrom)
    IN  /\ follower = "watch" /\ next_ledger <= tip
        /\ printed' = printed \o PrintedOf(tokens)
        /\ IF Len(tokens) < PageLimit
             THEN next_ledger' = tip + 1 /\ watch_cursor' = 0
             ELSE watch_cursor' = tokens[PageLimit] /\ UNCHANGED next_ledger
        /\ UNCHANGED <<tip, log, follower, filter, workerVars, saved, handled, crashes, errors>>

------------------------------------------------------------------------------
(* The chain.                                                              *)

CloseWith(events) ==
    /\ Len(log) + Len(events) <= MaxEvents
    /\ tip < MaxEvents
    /\ tip' = tip + 1
    /\ log' = log \o [i \in 1..Len(events) |-> [ledger |-> tip + 1, event |-> events[i]]]
    /\ UNCHANGED <<follower, filter, workerVars, saved, handled, crashes, errors, watchVars>>

StreamInit ==
    /\ follower \in {"stream", "watch"}
    /\ tip = 0 /\ log = <<>> /\ filter \in Schemas \cup {AnySchema}
    /\ cursor = 0 /\ page = <<>> /\ channel = <<>> /\ handling = 0 /\ saved = 0
    /\ handled = {} /\ crashes = 0 /\ errors = 0
    /\ next_ledger = 0 /\ watch_cursor = 0 /\ printed = <<>>

StreamNext ==
    \/ FetchPage
    \/ FetchError
    \/ SendNext
    \/ Recv
    \/ Handle
    \/ Acknowledge
    \/ Crash
    \/ WatchPage
    \/ \E n \in 0..2 : \E events \in [1..n -> ParsedEvents] : CloseWith(events)

(* The worker's task and the consumer keep running, and the node answers.  *)
StreamFairness ==
    /\ WF_streamVars(FetchPage) /\ WF_streamVars(SendNext)
    /\ WF_streamVars(Recv) /\ WF_streamVars(Handle) /\ WF_streamVars(Acknowledge)

StreamSpec == StreamInit /\ [][StreamNext]_streamVars /\ StreamFairness

------------------------------------------------------------------------------
(* Properties.                                                             *)

(* "An unacknowledged event is replayed after restart": wherever the       *)
(* process stopped, the checkpoint is never past a matching event that has *)
(* not been handled, and the worker's cursor is never past one that is     *)
(* neither handled nor on its way.                                         *)
AtLeastOnce ==
    \A i \in Matching \ handled :
      /\ saved < i
      /\ cursor >= i => handling = i \/ \E j \in 1..Len(channel) : channel[j] = i

(* The watcher prints each event it asks for once and in order, over pages *)
(* and ledgers that close between two pages, and skips none below the      *)
(* ledger it goes on from.                                                 *)
WatchExact ==
    /\ \A j \in 1..Len(printed) : printed[j] \in Matching /\ \A k \in 1..(j - 1) : printed[k] < printed[j]
    /\ \A i \in Matching : log[i].ledger < next_ledger \/ i <= watch_cursor =>
         \E j \in 1..Len(printed) : printed[j] = i

(* Neither follower of the event log loses an event: not the stream, over  *)
(* crashes, RPC errors and a full channel, nor the CLI's watcher, over     *)
(* pages and ledgers that close between them.                              *)
NoEventMissed == AtLeastOnce /\ WatchExact

(* Every event the filter lets through is handled in the end: crashes, RPC *)
(* errors, pages of events that do not match and a full channel only       *)
(* delay it.                                                               *)
EventsArrive ==
    \A i \in 1..MaxEvents : follower = "stream" /\ i \in Matching ~> i \in handled
==============================================================================
