----------------------------- MODULE IndexLedger -----------------------------
(***************************************************************************)
(* What an index of attestations promises its readers, whatever the        *)
(* layout: an entry is written once and kept as it was written, membership *)
(* in a lookup key and the count of that key follow from the entries, and  *)
(* a lifecycle mark never goes back to active.                             *)
(***************************************************************************)
EXTENDS Naturals, FiniteSets

CONSTANTS
    Items,        \* what is indexed
    LookupKeys,   \* <<dimension, key>> pairs that can be looked up
    Entries,      \* the metadata an item can be indexed with
    NoEntry,      \* the item is not indexed
    KeysOf        \* the lookup keys of an item with a given entry

VARIABLES
    entry,        \* the entry of every item, or NoEntry
    members,      \* pairs of a lookup key and an item found under it
    count,        \* how many items a lookup key has
    hidden        \* items an active-only reader does not see

ledgerVars == <<entry, members, count, hidden>>

LedgerInit ==
    /\ entry = [u \in Items |-> NoEntry]
    /\ members = {}
    /\ count = [k \in LookupKeys |-> 0]
    /\ hidden = {}

Add(u, e) ==
    /\ entry[u] = NoEntry
    /\ entry' = [entry EXCEPT ![u] = e]
    /\ members' = members \cup (KeysOf[<<u, e>>] \X {u})
    /\ count' = [k \in LookupKeys |->
                     IF k \in KeysOf[<<u, e>>] THEN count[k] + 1 ELSE count[k]]
    /\ UNCHANGED hidden

Hide(u) ==
    /\ hidden' = hidden \cup {u}
    /\ UNCHANGED <<entry, members, count>>

(* A replacement hides the old item and adds the new one at once. *)
Supersede(old, new, e) ==
    /\ entry[new] = NoEntry
    /\ entry' = [entry EXCEPT ![new] = e]
    /\ members' = members \cup (KeysOf[<<new, e>>] \X {new})
    /\ count' = [k \in LookupKeys |->
                     IF k \in KeysOf[<<new, e>>] THEN count[k] + 1 ELSE count[k]]
    /\ hidden' = hidden \cup {old}

LedgerNext ==
    \/ \E u \in Items, e \in Entries : Add(u, e)
    \/ \E u \in Items : Hide(u)
    \/ \E old, new \in Items, e \in Entries : Supersede(old, new, e)

LedgerSpec == LedgerInit /\ [][LedgerNext]_ledgerVars
==============================================================================
