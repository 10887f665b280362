----------------------------- MODULE ReactHooks -----------------------------
(***************************************************************************)
(* The React bindings (packages/soroban-sas-react/src): the provider that  *)
(* scopes every query key to a client and a configuration, one mutation    *)
(* hook (useAttest or useRevoke over useTransaction) and one query that is *)
(* read through SWR.                                                       *)
(*                                                                         *)
(* Executions of the hook overlap, and the provider is given another       *)
(* client or configuration, the hook is reset or its component unmounted   *)
(* while they are under way.  The hook and the query live in one           *)
(* component.  SWR, the client and the ledger are external: SWR keeps one  *)
(* read per key under way, and a revalidation drops it and starts another  *)
(* if a component is mounted on the key.                                   *)
(***************************************************************************)
EXTENDS Naturals, FiniteSets

CONSTANTS
    Executions,     \* calls of execute
    NoExecution,    \* none of them
    KeyPrefixes,    \* bound: pairs of a configuration's fingerprint and a client's generation
    MaxHeight       \* bound: transactions on the ledger

ASSUME HooksAssumption ==
    /\ NoExecution \notin Executions
    /\ \A k \in KeyPrefixes : k = <<k[1], k[2]>> /\ k[2] \in Nat
    /\ MaxHeight \in Nat

VARIABLES
    height,      \* transactions on the ledger that a read can see
    injected,    \* the client is given to the provider, not created by it
    keyPrefix,   \* of the context rendered last
    rendered,    \* prefixes of the contexts rendered so far
    mounted,     \* mounted.current
    requestId,   \* requestId.current
    transaction, \* the hook's state: status, and the execution it is about
    submission,  \* each execution: its phase, id, keyPrefix and place on the ledger
    displayed,   \* the height at which the query's value was read since the key changed, or 0
    fetching,    \* SWR's read under way for each prefix
    newest,      \* history: the execution started last, none after a reset
    switched,    \* history: the client was replaced since
    departed     \* history: what the hook showed at the unmount

hookVars == <<height, injected, keyPrefix, rendered, mounted, requestId, transaction, submission,
              displayed, fetching, newest, switched, departed>>
swrVars == <<displayed, fetching>>

INITIAL == [status |-> "idle", call |-> NoExecution]

Read(phase, seen) == [phase |-> phase, seen |-> seen]

NoRead == Read("none", 0)

------------------------------------------------------------------------------
(* The query: SWR reads again on focus, and when the key changes; a read   *)
(* under way for the key is shared.                                        *)
Reading(key) ==
    IF fetching[key] = NoRead THEN [fetching EXCEPT ![key] = Read("asked", 0)] ELSE fetching

(* mutate over the keys with the prefix: the read under way is dropped,    *)
(* and a key on which a component is mounted is read again.                *)
Revalidated(key) ==
    [fetching EXCEPT ![key] = IF key = keyPrefix THEN Read("asked", 0) ELSE NoRead]

Refocus ==
    /\ mounted /\ fetching[keyPrefix] = NoRead
    /\ fetching' = Reading(keyPrefix)
    /\ UNCHANGED <<height, injected, keyPrefix, rendered, mounted, requestId, transaction, submission,
                   displayed, newest, switched, departed>>

ReadServed(key) ==
    /\ fetching[key].phase = "asked"
    /\ fetching' = [fetching EXCEPT ![key] = Read("served", height)]
    /\ UNCHANGED <<height, injected, keyPrefix, rendered, mounted, requestId, transaction, submission,
                   displayed, newest, switched, departed>>

(* The answer arrives, or is lost and SWR tries again. *)
ReadEnds(key, lost) ==
    /\ fetching[key].phase = "served"
    /\ displayed' = IF ~lost /\ key = keyPrefix THEN fetching[key].seen ELSE displayed
    /\ fetching' = [fetching EXCEPT ![key] = IF lost THEN Read("asked", 0) ELSE NoRead]
    /\ UNCHANGED <<height, injected, keyPrefix, rendered, mounted, requestId, transaction, submission,
                   newest, switched, departed>>

------------------------------------------------------------------------------
(* The provider is rendered with a configuration and a client: one it      *)
(* creates itself is made anew for every configuration, and a new client   *)
(* has a new generation.  The hook's effect depends on the client: its     *)
(* cleanup and its setup run before the next event.                        *)
Render(fingerprint, other) ==
    LET replaced == other \/ (~injected /\ fingerprint # keyPrefix[1])
        key == <<fingerprint, IF replaced THEN keyPrefix[2] + 1 ELSE keyPrefix[2]>>
    IN  /\ mounted /\ key \in KeyPrefixes \ {keyPrefix}
        /\ keyPrefix' = key
        /\ rendered' = rendered \cup {key}
        /\ requestId' = IF replaced THEN requestId + 1 ELSE requestId
        /\ switched' = (switched \/ replaced)
        /\ displayed' = 0
        /\ fetching' = Reading(key)
        /\ UNCHANGED <<height, injected, mounted, transaction, submission, newest, departed>>

(* The component goes, with its query: SWR discards what is under way. *)
Unmount ==
    /\ mounted
    /\ mounted' = FALSE
    /\ requestId' = requestId + 1
    /\ departed' = transaction
    /\ displayed' = 0
    /\ fetching' = [k \in KeyPrefixes |-> NoRead]
    /\ UNCHANGED <<height, injected, keyPrefix, rendered, transaction, submission, newest, switched>>

(* execute of any render so far, which holds that render's client and      *)
(* prefix; the caller may still hold it after the unmount.                 *)
Execute(c, key) ==
    /\ submission[c].phase = "new"
    /\ key \in rendered
    /\ requestId' = requestId + 1
    /\ submission' = [submission EXCEPT ![c] =
                        [phase |-> "submitting", id |-> requestId + 1, key |-> key, landed |-> 0]]
    /\ transaction' = IF mounted THEN [status |-> "pending", call |-> c] ELSE transaction
    /\ newest' = c
    /\ switched' = FALSE
    /\ UNCHANGED <<height, injected, keyPrefix, rendered, mounted, swrVars, departed>>

(* The transaction is included, also after its sender gave up. *)
Lands(c) ==
    /\ submission[c].phase # "new" /\ submission[c].landed = 0
    /\ height < MaxHeight
    /\ height' = height + 1
    /\ submission' = [submission EXCEPT ![c].landed = height + 1]
    /\ UNCHANGED <<injected, keyPrefix, rendered, mounted, requestId, transaction, swrVars, newest,
                   switched, departed>>

(* Mutant: settlements that were overtaken still update the hook. *)
IsCurrent_Mounted(c) == mounted

IsCurrent(c) == mounted /\ submission[c].id = requestId

(* The submission settles: it succeeds once the transaction is included,   *)
(* and may fail at any time.                                               *)
Settle(c, ok) ==
    /\ submission[c].phase = "submitting"
    /\ ok => submission[c].landed > 0
    /\ submission' = [submission EXCEPT ![c].phase = IF ok THEN "resolved" ELSE "rejected"]
    /\ transaction' = IF IsCurrent(c)
                        THEN [status |-> IF ok THEN "success" ELSE "error", call |-> c]
                        ELSE transaction
    /\ fetching' = IF ok /\ IsCurrent(c) THEN Revalidated(submission[c].key) ELSE fetching
    /\ UNCHANGED <<height, injected, keyPrefix, rendered, mounted, requestId, displayed, newest,
                   switched, departed>>

Reset ==
    /\ newest # NoExecution
    /\ requestId' = requestId + 1
    /\ transaction' = IF mounted THEN INITIAL ELSE transaction
    /\ newest' = NoExecution
    /\ switched' = FALSE
    /\ UNCHANGED <<height, injected, keyPrefix, rendered, mounted, submission, swrVars, departed>>

HooksInit ==
    /\ height = 0
    /\ injected \in BOOLEAN
    /\ keyPrefix \in {k \in KeyPrefixes : k[2] = 0}
    /\ rendered = {keyPrefix}
    /\ mounted = TRUE
    /\ requestId = 0
    /\ transaction = INITIAL
    /\ submission = [c \in Executions |-> [phase |-> "new", id |-> 0, key |-> keyPrefix, landed |-> 0]]
    /\ displayed = 0
    /\ fetching = [k \in KeyPrefixes |-> IF k = keyPrefix THEN Read("asked", 0) ELSE NoRead]
    /\ newest = NoExecution /\ switched = FALSE /\ departed = INITIAL

HooksNext ==
    \/ Refocus
    \/ \E k \in KeyPrefixes : ReadServed(k)
    \/ \E k \in KeyPrefixes, lost \in BOOLEAN : ReadEnds(k, lost)
    \/ \E k \in KeyPrefixes, other \in BOOLEAN : Render(k[1], other)
    \/ Unmount
    \/ \E c \in Executions, k \in KeyPrefixes : Execute(c, k)
    \/ \E c \in Executions : Lands(c)
    \/ \E c \in Executions, ok \in BOOLEAN : Settle(c, ok)
    \/ Reset

HooksSpec == HooksInit /\ [][HooksNext]_hookVars

------------------------------------------------------------------------------
(* Properties.                                                             *)

(* While the hook is mounted, what it shows is about the execution started *)
(* last, or is idle after a reset, however late earlier executions settle: *)
(* success and error are what that execution's caller was told, and        *)
(* pending lasts no longer than the submission, unless the client was      *)
(* replaced meanwhile.  After the unmount nothing of it changes.  Success  *)
(* means that the transaction is on the ledger, and that a reader of the   *)
(* same client and configuration has read it since, or is about to: no     *)
(* read that was under way when it landed brings the old value back.       *)
HooksHonest ==
    /\ mounted => transaction.call = newest
    /\ mounted /\ transaction.status = "pending" =>
         submission[newest].phase = "submitting" \/ switched
    /\ ~mounted => transaction = departed
    /\ transaction.status = "error" => submission[transaction.call].phase = "rejected"
    /\ transaction.status = "success" =>
         LET s == submission[transaction.call]
         IN  /\ s.phase = "resolved" /\ s.landed \in 1..height
             /\ mounted /\ s.key = keyPrefix =>
                  \/ displayed >= s.landed
                  \/ fetching[keyPrefix].phase = "asked"
                  \/ fetching[keyPrefix].seen >= s.landed
==============================================================================
