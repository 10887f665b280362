------------------------------ MODULE SASClient ------------------------------
(***************************************************************************)
(* The SDK's contract client (packages/soroban-sas-sdk/src/client.rs): its *)
(* methods, the local checks they make, and the way each takes to the      *)
(* network: the RPC transport of rpc.rs and the blocking or asynchronous   *)
(* submission of transaction.rs.                                           *)
(*                                                                         *)
(* Calls run in threads of their own on one account.  The RPC node and the *)
(* ledger are external: a request or its answer may be lost, a node may    *)
(* refuse a transaction, answer TRY_AGAIN_LATER without keeping it, or     *)
(* drop one it kept.  How the SequenceManager picks numbers is the subject *)
(* of module SequenceManager; all that is used of it here is that no two   *)
(* live reservations are equal.                                            *)
(***************************************************************************)
EXTENDS Naturals, FiniteSets

CONSTANTS
    Calls,     \* calls of client methods
    Nothing,   \* no outcome, no call
    Clients,   \* the client settings considered
    MaxPolls,  \* SubmissionPolicy.max_polls
    LastSeq    \* bound: highest sequence number the account reaches

Settings ==
    [managed : BOOLEAN, mode : {"Blocking", "Async"}, retry_transport_errors : BOOLEAN]

ASSUME ClientAssumption ==
    /\ IsFiniteSet(Calls) /\ Nothing \notin Calls
    /\ Nothing \notin {"refused", "contractError", "rejected", "answer", "archived", "success", "failed"}
    /\ Clients \subseteq Settings
    /\ MaxPolls \in Nat \ {0} /\ LastSeq \in Nat \ {0}

VARIABLES
    account,   \* the account's sequence on the ledger
    mempool,   \* transactions the network holds: [by, seq]
    ledger,    \* transactions included: [by, seq, ok]
    entry,     \* the attestation a call is about: live, archived or missing
    settings,  \* of the client: managed, mode, retry_transport_errors
    at,        \* where each call is
    kind,      \* the method's check and path
    number,    \* the sequence number the call signs with
    tries,     \* submissions made
    polls,     \* polls made
    outcome    \* what the caller is told

clientVars == <<account, mempool, ledger, entry, settings, at, kind, number, tries, polls, outcome>>
networkVars == <<account, mempool, ledger, entry>>

------------------------------------------------------------------------------
(* The methods.  A method has a local check before anything is sent (its   *)
(* arguments alone: addresses that parse, amounts above zero; that the     *)
(* signer is the attester; for renewals that the attestation is found and  *)
(* is the signer's; for restores that it is archived) and a path.          *)

Method(fns, check, path) == [fn : fns, check : {check}, path : {path}]

FeeMethods ==
    Method({"set_fee", "clear_fee"}, "arguments", "managed")
    \cup Method({"set_fee_dry_run", "clear_fee_dry_run"}, "arguments", "dryRun")

RegisterMethods ==
    Method({"register_schema"}, "arguments", "managed")
    \cup Method({"register_schema_dry_run"}, "arguments", "dryRun")
    \cup Method({"register_schema_with_fee_policy"}, "arguments", "feePolicy")

RegisterWithValueMethods ==
    Method({"register_schema_with_value"}, "arguments", "managed")
    \cup Method({"register_schema_with_value_dry_run"}, "arguments", "dryRun")

SchemaFeeMethods ==
    Method({"set_schema_fee", "clear_schema_fee"}, "arguments", "managed")
    \cup Method({"set_schema_fee_dry_run", "clear_schema_fee_dry_run"}, "arguments", "dryRun")

SchemaTreasuryMethods ==
    Method({"set_schema_treasury", "withdraw_schema_fees"}, "arguments", "managed")
    \cup Method({"set_schema_treasury_dry_run", "withdraw_schema_fees_dry_run"}, "arguments", "dryRun")
    \cup Method({"get_schema_fee", "get_schema_treasury"}, "arguments", "read")

DelegateMethods ==
    Method({"add_delegate", "remove_delegate", "add_delegate_with_expiry", "self_revoke_delegate"},
           "arguments", "managed")

OwnershipMethods ==
    Method({"transfer_schema_ownership", "propose_schema_owner", "claim_schema_ownership",
            "cancel_schema_ownership_transfer"}, "arguments", "managed")

NonceMethods ==
    Method({"set_nonce_highwater_mark", "invalidate_nonces"}, "arguments", "managed")

AttestMethods ==
    Method({"attest", "attest_with_value"}, "attester", "managed")
    \cup Method({"attest_with_fee_policy"}, "attester", "feePolicy")
    \cup Method({"multi_attest"}, "arguments", "managed")
    \cup Method({"multi_attest_with_fee_policy"}, "arguments", "feePolicy")

RevokeMethods ==
    Method({"revoke", "multi_revoke"}, "arguments", "managed")
    \cup Method({"revoke_with_fee_policy", "multi_revoke_with_fee_policy"}, "arguments", "feePolicy")

DelegationMethods ==
    Method({"attest_by_delegation", "revoke_by_delegation"}, "arguments", "managed")
    \cup Method({"attest_by_delegation_with_fee_policy", "revoke_by_delegation_with_fee_policy"},
                "arguments", "feePolicy")

MultiDelegationMethods ==
    Method({"multi_attest_by_delegation", "multi_revoke_by_delegation"}, "arguments", "managed")

ReplaceMethods ==
    Method({"replace_attestation"}, "attester", "managed")
    \cup Method({"replace_attestation_with_fee_policy"}, "attester", "feePolicy")
    \cup Method({"renew_attestation"}, "foundAttester", "managed")
    \cup Method({"renew_attestation_with_fee_policy"}, "foundAttester", "feePolicy")

RestoreMethods == Method({"restore_attestation"}, "archived", "managed")

SasReads == Method({"fetch_admin", "verify_attestation", "fetch_fee"}, "arguments", "read")

AttesterKeyReads == Method({"fetch_attester_key"}, "arguments", "read")

NonceReads == Method({"fetch_delegation_nonce"}, "arguments", "read")

HighwaterReads == Method({"get_nonce_highwater_mark"}, "arguments", "read")

SchemaReads ==
    Method({"get_schema_uncached", "get_schemas", "get_creator", "get_schema_by_content"},
           "arguments", "read")

(* The client has a registry and an RPC client configured, or the call is  *)
(* refused as invalid input.                                               *)
BoundSchemaReads == Method({"fetch_schema", "fetch_schema_by_content"}, "arguments", "read")

OwnerReads == Method({"get_pending_schema_owner", "get_schema_policy"}, "arguments", "read")

DelegateReads == Method({"is_delegate", "is_authorized", "get_delegates"}, "arguments", "read")

IndexHistoryReads ==
    Method({"get_attestations_by_recipient", "get_attestations_by_schema",
            "get_attestations_by_attester"}, "arguments", "read")

IndexPageReads ==
    Method({"get_attestations_by_recipient_paginated", "get_attestations_by_schema_paginated",
            "get_attestations_by_attester_paginated"}, "arguments", "read")

IndexFilteredReads ==
    Method({"get_attestations_by_recipient_filtered", "get_attestations_by_schema_filtered",
            "get_attestations_by_attester_filtered", "get_active_attestations_by_recipient"},
           "arguments", "read")

IndexStatusReads ==
    Method({"get_attestation_status", "get_replacement", "get_count_by_recipient",
            "get_count_by_schema", "get_count_by_attester"}, "arguments", "read")

AttestationReads == Method({"fetch_attestation", "get_attestation"}, "arguments", "readEntry")

Methods ==
    UNION {FeeMethods, RegisterMethods, RegisterWithValueMethods, SchemaFeeMethods,
           SchemaTreasuryMethods, DelegateMethods, OwnershipMethods, NonceMethods, AttestMethods,
           RevokeMethods, DelegationMethods, MultiDelegationMethods, ReplaceMethods, RestoreMethods,
           SasReads, AttesterKeyReads, NonceReads, HighwaterReads, SchemaReads, BoundSchemaReads,
           OwnerReads, DelegateReads, IndexHistoryReads, IndexPageReads, IndexFilteredReads,
           IndexStatusReads, AttestationReads}

Kinds == {[check |-> m.check, path |-> m.path] : m \in Methods}

------------------------------------------------------------------------------
At(c, p) == at' = [at EXCEPT ![c] = p]

Return(c, o) ==
    /\ At(c, "done")
    /\ outcome' = [outcome EXCEPT ![c] = o]

Tx(c) == [by |-> c, seq |-> number[c]]

(* Only a write of a client with a SequenceManager reserves its number. *)
Managed(c) == kind[c].path = "managed" /\ settings.managed

(* invoke_write_with_fee_policy submits with SubmissionPolicy::default(). *)
Policy(c) ==
    IF kind[c].path = "feePolicy"
      THEN [mode |-> "Blocking", retry_transport_errors |-> FALSE]
      ELSE [mode |-> settings.mode, retry_transport_errors |-> settings.retry_transport_errors]

(* The caller enters a method. *)
Begin(c, k) ==
    /\ at[c] = "new"
    /\ kind' = [kind EXCEPT ![c] = k]
    /\ At(c, "check")
    /\ UNCHANGED <<networkVars, settings, number, tries, polls, outcome>>

(* The arguments and verify_attester, with fetch_attestation for the       *)
(* methods that look the attestation up first.  Afterwards only a restore  *)
(* differs from the other writes.                                          *)
CheckPasses(c, valid, own) ==
    LET k == kind[c].check
    IN  /\ valid
        /\ k = "attester" => own
        /\ k = "foundAttester" => entry = "live" /\ own
        /\ k = "archived" => entry = "archived"

Check(c, valid, own) ==
    /\ at[c] = "check"
    /\ IF CheckPasses(c, valid, own)
         THEN /\ At(c, IF kind[c].path \in {"read", "readEntry"} THEN "reading" ELSE "number")
              /\ UNCHANGED outcome
         ELSE Return(c, "refused")
    /\ kind' = [kind EXCEPT ![c].check = IF @ = "archived" THEN @ ELSE "none"]
    /\ UNCHANGED <<networkVars, settings, number, tries, polls>>

(* invoke_read_only and fetch_attestation: one simulation. *)
ReadAnswer(c, o) ==
    /\ at[c] = "reading"
    /\ CASE o = "answer"   -> kind[c].path = "readEntry" => entry # "archived"
         [] o = "archived" -> kind[c].path = "readEntry" /\ entry = "archived"
         [] OTHER          -> o \in {"contractError", "unsure"}
    /\ Return(c, o)
    /\ UNCHANGED <<networkVars, settings, kind, number, tries, polls>>

(* SequenceManager::reserve, or fetch_sequence_number plus one. *)
LiveReservations ==
    {number[d] : d \in {x \in Calls : at[x] \in {"build", "send", "poll"} /\ Managed(x)}}

ObtainNumber(c, n) ==
    /\ at[c] = "number"
    /\ IF Managed(c) THEN n \notin LiveReservations ELSE n = account + 1
    /\ number' = [number EXCEPT ![c] = n]
    /\ At(c, "build")
    /\ UNCHANGED <<networkVars, settings, kind, tries, polls, outcome>>

(* build_signed_write_at_sequence and build_signed_restore_at_sequence:    *)
(* simulate, apply the fee policy, validate, sign.  dry_run_write stops    *)
(* after the simulation.                                                   *)
Build(c) ==
    /\ at[c] = "build"
    /\ \/ /\ kind[c].path # "dryRun"
          /\ At(c, "send") /\ UNCHANGED outcome
       \/ kind[c].path = "dryRun" /\ Return(c, "answer")
       \/ \E o \in {"contractError", "refused", "unsure"} : Return(c, o)
    /\ UNCHANGED <<networkVars, settings, kind, number, tries, polls>>

------------------------------------------------------------------------------
(* submit_with_policy_using.                                               *)

(* Mutant: a submission whose answer was lost is made again. *)
MayRetry_Lost(c, o) == Managed(c) /\ tries[c] = 0 /\ o \in {"badSequence", "unsure"}

(* Whether submit_write goes round its loop again: only a bad sequence     *)
(* number is answered by one more attempt, and only with a manager.        *)
MayRetry(c, o) == Managed(c) /\ tries[c] = 0 /\ o = "badSequence"

GiveUp(c, o) ==
    IF MayRetry(c, o)
      THEN At(c, "number") /\ tries' = [tries EXCEPT ![c] = 1] /\ UNCHANGED outcome
      ELSE /\ Return(c, IF o = "badSequence" THEN "rejected" ELSE o)
           /\ UNCHANGED tries

(* The node takes the transaction, or says TRY_AGAIN_LATER and forgets it: *)
(* neither is ERROR.  FAILED, for which submit_with_policy_using also      *)
(* looks, is not an answer of sendTransaction: a node reports the failure  *)
(* of an included transaction through getTransaction only.                 *)
Sent(c, kept) ==
    /\ at[c] = "send"
    /\ kept => number[c] > account
    /\ mempool' = IF kept THEN mempool \cup {Tx(c)} ELSE mempool
    /\ IF Policy(c).mode = "Async" THEN Return(c, "accepted") ELSE At(c, "poll") /\ UNCHANGED outcome
    /\ polls' = [polls EXCEPT ![c] = 0]
    /\ UNCHANGED <<account, ledger, entry, settings, kind, number, tries>>

(* ERROR, with a bad sequence number or another reason. *)
SendRejected(c, o) ==
    /\ at[c] = "send"
    /\ o = "badSequence" => number[c] # account + 1
    /\ GiveUp(c, o)
    /\ UNCHANGED <<networkVars, settings, kind, number, polls>>

(* The transport fails, or 429 is answered more than max_retries times:    *)
(* post retries nothing else.  The node may have the transaction.          *)
SendUnsure(c, kept) ==
    /\ at[c] = "send"
    /\ kept => number[c] > account
    /\ mempool' = IF kept THEN mempool \cup {Tx(c)} ELSE mempool
    /\ GiveUp(c, "unsure")
    /\ UNCHANGED <<account, ledger, entry, settings, kind, number, polls>>

Included(c, ok) == \E t \in ledger : t.by = c /\ t.seq = number[c] /\ t.ok = ok

KeepPolling(c) ==
    /\ polls' = [polls EXCEPT ![c] = @ + 1]
    /\ UNCHANGED <<at, outcome, tries>>

(* poll_until_settled: a getTransaction whose transport fails is tried     *)
(* again only if the policy says so, and counts as a poll; any other error *)
(* ends the wait.                                                          *)
PollFails(c, transport) ==
    /\ at[c] = "poll"
    /\ IF transport /\ Policy(c).retry_transport_errors /\ polls[c] + 1 < MaxPolls
         THEN KeepPolling(c)
         ELSE GiveUp(c, "unsure") /\ UNCHANGED polls
    /\ UNCHANGED <<networkVars, settings, kind, number>>

(* The transaction is settled, or the wait goes on, or the last poll or    *)
(* the deadline ends it in SettlementTimeout.                              *)
Poll(c) ==
    /\ at[c] = "poll"
    /\ \/ Included(c, TRUE) /\ Return(c, "success") /\ UNCHANGED <<tries, polls>>
       \/ Included(c, FALSE) /\ GiveUp(c, "failed") /\ UNCHANGED polls
       \/ /\ \A ok \in BOOLEAN : ~Included(c, ok)
          /\ \/ polls[c] + 1 < MaxPolls /\ KeepPolling(c)
             \/ GiveUp(c, "unsure") /\ UNCHANGED polls
    /\ UNCHANGED <<networkVars, settings, kind, number>>

------------------------------------------------------------------------------
(* The network, and other software on the account.                         *)

Include(t, ok) ==
    /\ t \in mempool /\ t.seq = account + 1 /\ account < LastSeq
    /\ account' = t.seq
    /\ mempool' = mempool \ {t}
    /\ ledger' = ledger \cup {[by |-> t.by, seq |-> t.seq, ok |-> ok]}
    /\ entry' = IF ok /\ kind[t.by].check = "archived" THEN "live" ELSE entry
    /\ UNCHANGED <<settings, at, kind, number, tries, polls, outcome>>

DropTx(t) ==
    /\ t \in mempool
    /\ mempool' = mempool \ {t}
    /\ UNCHANGED <<account, ledger, entry, settings, at, kind, number, tries, polls, outcome>>

OtherWrite ==
    /\ account < LastSeq - 1
    /\ account' = account + 1
    /\ UNCHANGED <<mempool, ledger, entry, settings, at, kind, number, tries, polls, outcome>>

ClientInit ==
    /\ account = 0 /\ mempool = {} /\ ledger = {}
    /\ entry \in {"live", "archived", "missing"}
    /\ settings \in Clients
    /\ at = [c \in Calls |-> "new"]
    /\ kind = [c \in Calls |-> [check |-> "none", path |-> "read"]]
    /\ number = [c \in Calls |-> 0]
    /\ tries = [c \in Calls |-> 0]
    /\ polls = [c \in Calls |-> 0]
    /\ outcome = [c \in Calls |-> Nothing]

CallStep(c) ==
    \/ \E valid, own \in BOOLEAN : Check(c, valid, own)
    \/ \E o \in {"answer", "archived", "contractError", "unsure"} : ReadAnswer(c, o)
    \/ \E n \in 1..(LastSeq + 1) : ObtainNumber(c, n)
    \/ Build(c)
    \/ \E kept \in BOOLEAN : Sent(c, kept)
    \/ \E o \in {"badSequence", "rejected"} : SendRejected(c, o)
    \/ \E kept \in BOOLEAN : SendUnsure(c, kept)
    \/ \E transport \in BOOLEAN : PollFails(c, transport)
    \/ Poll(c)

ClientNext ==
    \/ \E c \in Calls, k \in Kinds : Begin(c, k)
    \/ \E c \in Calls : CallStep(c)
    \/ \E t \in mempool, ok \in BOOLEAN : Include(t, ok)
    \/ \E t \in mempool : DropTx(t)
    \/ OtherWrite

ClientSpec == ClientInit /\ [][ClientNext]_clientVars

------------------------------------------------------------------------------
(* Properties.                                                             *)

Traces(c) == {t \in mempool : t.by = c} \cup {[by |-> t.by, seq |-> t.seq] : t \in {x \in ledger : x.by = c}}

(* What a caller is told is what happened, whatever got lost and whatever  *)
(* the other calls did: a write reaches the network as at most one         *)
(* transaction (the retry after a bad sequence number never doubles it),   *)
(* SUCCESS and FAILED speak of the call's own transaction, a refusal       *)
(* (local check, contract error, rejection) means that nothing of the call *)
(* is or will be on the ledger, and reads and dry runs leave no trace.     *)
CallOutcomesHonest ==
    \A c \in Calls :
      /\ Cardinality(Traces(c)) <= 1
      /\ outcome[c] = "success" => \E t \in ledger : t.by = c /\ t.ok
      /\ outcome[c] = "failed" => \E t \in ledger : t.by = c /\ ~t.ok
      /\ outcome[c] \in {"refused", "contractError", "rejected", "answer", "archived"} => Traces(c) = {}
==============================================================================
