----------------------------- MODULE SchemaCache -----------------------------
(***************************************************************************)
(* The SDK's schema cache (packages/soroban-sas-sdk/src/schema_cache.rs)   *)
(* under SASClient's get_schema_with_cache (client.rs), shared by threads: *)
(* bounded, least recently used first out, with a time to live.  Every     *)
(* method holds the mutex, so it is one step; between the lookup that      *)
(* misses and the insert a thread reads the registry with no lock held,    *)
(* and an invalidation may come in between.  The refresh tokens of         *)
(* schema_cache.rs have no caller and are left out.                        *)
(***************************************************************************)
EXTENDS Naturals, Sequences, FiniteSets, SequencesExt, Ordered

CONSTANTS
    SchemaUids,  \* schemas
    Threads,     \* threads using the cache
    Missing,     \* no entry, no answer, not yet
    capacity,    \* 0: nothing is stored
    ttl,
    MaxInstant   \* bound: last instant

RegistryAnswers == {"unknown", "active", "deprecated"}

(* took is history: how long before the insert the registry was read. *)
CacheEntry == [value : RegistryAnswers, expires_at : Nat, took : Nat]

ASSUME CacheAssumption ==
    /\ IsFiniteSet(SchemaUids) /\ IsFiniteSet(Threads)
    /\ capacity \in Nat /\ ttl \in Nat /\ MaxInstant \in Nat
    /\ Missing \notin SchemaUids /\ Missing \notin Nat /\ Missing \notin CacheEntry

VARIABLES
    instant,     \* Instant::now()
    registered,  \* what the registry answers
    ceased,      \* history: when the registry stopped giving an answer
    entries,     \* CacheState.entries
    lru,         \* CacheState.lru
    thread       \* what each thread is doing

cacheVars == <<instant, registered, ceased, entries, lru, thread>>

Resting == [phase |-> "idle", uid |-> Missing, value |-> Missing, at |-> 0, took |-> 0]

(* retain *)
Without(seq, u) == Kept(seq, {i \in 1..Len(seq) : seq[i] # u})

Cached == {u \in SchemaUids : entries[u] # Missing}

------------------------------------------------------------------------------
(* remove_entry and insert_encoded.                                        *)

RemoveEntry(u) ==
    /\ lru' = Without(lru, u)
    /\ entries' = [entries EXCEPT ![u] = Missing]

InsertEncoded(u, value, took) ==
    LET left == Without(lru, u)
        kept == IF Len(left) >= capacity THEN SubSeq(left, Len(left) - capacity + 2, Len(left))
                                         ELSE left
    IN  /\ entries' = [v \in SchemaUids |->
                         IF v = u THEN [value |-> value, expires_at |-> instant + ttl, took |-> took]
                         ELSE IF v \in ToSet(kept) THEN entries[v] ELSE Missing]
        /\ lru' = Append(kept, u)

(* get_schema_with_cache up to the fetch: an entry is touched, expired or  *)
(* not, and one that is not expired is the answer.                         *)
LookupUntil(t, u, fresh) ==
    /\ thread[t] = Resting
    /\ lru' = IF entries[u] = Missing THEN lru ELSE Append(Without(lru, u), u)
    /\ thread' = [thread EXCEPT ![t] =
                    IF fresh
                      THEN [phase |-> "answered", uid |-> u, value |-> entries[u].value,
                            at |-> instant, took |-> entries[u].took]
                      ELSE [Resting EXCEPT !.phase = "fetching", !.uid = u]]
    /\ UNCHANGED <<instant, registered, ceased, entries>>

(* Mutant: what is cached is the answer, expired or not. *)
Lookup_ServesExpired(t, u) == LookupUntil(t, u, entries[u] # Missing)

Lookup(t, u) == LookupUntil(t, u, entries[u] # Missing /\ entries[u].expires_at > instant)

(* The registry answers get_schema. *)
Fetch(t) ==
    /\ thread[t].phase = "fetching"
    /\ thread' = [thread EXCEPT ![t].phase = "fetched", ![t].value = registered[thread[t].uid],
                                ![t].at = instant]
    /\ UNCHANGED <<instant, registered, ceased, entries, lru>>

(* The fetch fails and the lookup's error is returned. *)
FetchFails(t) ==
    /\ thread[t].phase = "fetching"
    /\ thread' = [thread EXCEPT ![t] = Resting]
    /\ UNCHANGED <<instant, registered, ceased, entries, lru>>

(* insert: a deprecated record is not kept and drops what is there, as     *)
(* does any record when the capacity is 0.  Nothing is compared with what  *)
(* happened to the schema since the fetch.                                 *)
Insert(t) ==
    LET u    == thread[t].uid
        took == instant - thread[t].at
    IN  /\ thread[t].phase = "fetched"
        /\ IF thread[t].value = "deprecated" \/ capacity = 0
             THEN RemoveEntry(u)
             ELSE InsertEncoded(u, thread[t].value, took)
        /\ thread' = [thread EXCEPT ![t].phase = "answered", ![t].at = instant, ![t].took = took]
        /\ UNCHANGED <<instant, registered, ceased>>

(* The caller has its answer. *)
HandBack(t) ==
    /\ thread[t].phase = "answered"
    /\ thread' = [thread EXCEPT ![t] = Resting]
    /\ UNCHANGED <<instant, registered, ceased, entries, lru>>

(* invalidate, also through invalidate_schema_cache and                    *)
(* invalidate_for_event.                                                   *)
Invalidate(u) ==
    /\ RemoveEntry(u)
    /\ UNCHANGED <<instant, registered, ceased, thread>>

------------------------------------------------------------------------------
(* The registry and time.                                                  *)

RegistryMoves(u) ==
    /\ registered[u] # "deprecated"
    /\ registered' = [registered EXCEPT ![u] = IF @ = "unknown" THEN "active" ELSE "deprecated"]
    /\ ceased' = [ceased EXCEPT ![u][registered[u]] = instant]
    /\ UNCHANGED <<instant, entries, lru, thread>>

TimePasses ==
    /\ instant < MaxInstant
    /\ instant' = instant + 1
    /\ UNCHANGED <<registered, ceased, entries, lru, thread>>

CacheInit ==
    /\ instant = 0
    /\ registered = [u \in SchemaUids |-> "unknown"]
    /\ ceased = [u \in SchemaUids |-> [v \in RegistryAnswers |-> Missing]]
    /\ entries = [u \in SchemaUids |-> Missing]
    /\ lru = <<>>
    /\ thread = [t \in Threads |-> Resting]

CacheNext ==
    \/ \E t \in Threads, u \in SchemaUids : Lookup(t, u)
    \/ \E t \in Threads : Fetch(t)
    \/ \E t \in Threads : FetchFails(t)
    \/ \E t \in Threads : Insert(t)
    \/ \E t \in Threads : HandBack(t)
    \/ \E u \in SchemaUids : Invalidate(u)
    \/ \E u \in SchemaUids : RegistryMoves(u)
    \/ TimePasses

CacheSpec == CacheInit /\ [][CacheNext]_cacheVars

------------------------------------------------------------------------------
(* Properties.                                                             *)

(* The registry gave this answer no longer ago than span. *)
SaidWithin(u, value, span, now) ==
    ceased[u][value] # Missing => now <= ceased[u][value] + span

(* What a caller is told of a schema, from the cache or not and whatever   *)
(* other threads fetch, store and invalidate in between, is an answer the  *)
(* registry still gave at most ttl and the length of one fetch earlier: a  *)
(* fetch that an invalidation overtakes may store an old answer again, and *)
(* that is as long as it can last, since nothing else moves an expiry.     *)
(* The recency list and the entries stay one set of at most capacity       *)
(* schemas, each listed once, and no deprecated record is in it.           *)
CacheCoherent ==
    /\ \A t \in Threads : thread[t].phase = "answered" =>
         SaidWithin(thread[t].uid, thread[t].value, thread[t].took + ttl, thread[t].at)
    /\ \A u \in Cached :
         /\ entries[u].value # "deprecated"
         /\ SaidWithin(u, entries[u].value, entries[u].took + ttl, entries[u].expires_at)
    /\ ToSet(lru) = Cached /\ Len(lru) = Cardinality(Cached) /\ Len(lru) <= capacity
==============================================================================
