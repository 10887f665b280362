------------------------------- MODULE SASCore -------------------------------
(***************************************************************************)
(* The attestation store of the SAS contract (contracts/sas/src/lib.rs and *)
(* timestamp.rs): issuance, revocation, replacement, renewal and pruning   *)
(* of attestation records, with the timestamp anchors, the issuance quota, *)
(* the pause switch and the unpaid-issuance rule that every entry point    *)
(* goes through.                                                           *)
(*                                                                         *)
(* One action is one committed contract invocation.  The host executes an  *)
(* invocation atomically and rolls every write back when it panics, so a   *)
(* refused call - a failed check, a resolver that rejects, a strict        *)
(* indexer that is down - is a stuttering step.  Address::require_auth is  *)
(* modelled by who takes the action: an action is taken only with the      *)
(* consent of the parties the code asks.                                   *)
(*                                                                         *)
(* A UID is the hash of (schema, recipient, attester, data).  The hash is  *)
(* modelled as injective: a UID is that tuple, so the code's InvalidUID    *)
(* check holds of every attestation here.  Payloads are non-empty.         *)
(***************************************************************************)
EXTENDS Naturals, FiniteSets

CONSTANTS
    Addrs,        \* accounts and contracts
    Schemas,      \* registered schemas
    Datas,        \* attestation payloads
    UIDs,         \* the claims issued in this instance
    NoRef,        \* the all-zero ref_uid
    Expirations,  \* expiration_time inputs (0: never expires)
    ValidFroms,   \* valid_from inputs (0: valid at once)
    RevInputs,    \* revocation_time values a caller may put in a request
    SchemaViews,  \* answers the schema registry can give about a schema
    RateLimits,   \* issuance limits the admin may set
    AdminOps,     \* which admin switches this instance exercises
    MaxTime,      \* bound: last ledger of a behaviour
    MaxBatch      \* bound: longest multi_attest batch

Policies == {"RevocableOnly", "IrrevocableOnly", "Permissive"}

(* What the registry's views answer about one schema: get_schema (live is  *)
(* FALSE once the schema is deprecated), is_schema_quarantined,            *)
(* get_max_ttl (0: no limit), get_schema_policy, is_authorized (the owner  *)
(* and the delegates) and is_attester_authorized (the access list).        *)
SchemaView == [live : BOOLEAN, quarantined : BOOLEAN, max_ttl : Nat,
               policy : Policies, authorized : SUBSET Addrs, acl : SUBSET Addrs]

Claim == [schema : Schemas, recipient : Addrs, attester : Addrs, data : Datas]

NoLimit == [max_issuances |-> 0, window |-> 0]

ASSUME CoreAssumption ==
    /\ IsFiniteSet(Addrs)
    /\ UIDs \subseteq Claim
    /\ NoRef \notin UIDs
    /\ Expirations \subseteq Nat
    /\ ValidFroms \subseteq Nat
    /\ RevInputs \subseteq Nat
    /\ SchemaViews \subseteq SchemaView
    /\ RateLimits \subseteq [max_issuances : Nat \ {0}, window : Nat \ {0}]
    /\ MaxTime \in Nat \ {0}
    /\ MaxBatch \in Nat

VARIABLES
    now,          \* the open ledger: its sequence number and close time
    paused,       \* PAUSED
    att,          \* the stored record of every UID, or Absent
    anchor,       \* both TimestampAnchor entries of every UID, 0 when missing
    auto_prune,   \* AUTO_PRUNE
    reg,          \* the registry's current answers, per schema
    rate,         \* RATE_LIMIT_CONFIG, or NoLimit
    exempt,       \* RATE_EXEMPT
    hist,         \* RATE_HISTORY: ledgers of recent issuances, per attester
    fee_per_byte, \* FEE_PER_BYTE is positive
    zero_fee,     \* ZERO_FEE_SCHEMA
    rate_since    \* history variable: ledger of the last quota change

storeVars == <<att, anchor, hist>>
adminVars == <<paused, auto_prune, rate, exempt, fee_per_byte, zero_fee, rate_since>>
coreVars  == <<now, storeVars, adminVars, reg>>

AttRec == [time : Nat, expiration_time : Nat, revocation_time : Nat,
           ref_uid : UIDs \cup {NoRef}, revocable : BOOLEAN, valid_from : Nat]

Absent == [time |-> 0, expiration_time |-> 0, revocation_time |-> 0,
           ref_uid |-> NoRef, revocable |-> FALSE, valid_from |-> 0]

(* The Attestation argument of an issuing call; `time` is not an input,    *)
(* attest_internal overwrites it.                                          *)
Attestation == [uid : UIDs, expiration_time : Expirations,
                revocation_time : RevInputs, ref_uid : UIDs \cup {NoRef},
                revocable : BOOLEAN, valid_from : ValidFroms]

HasAttestation(u) == att[u] # Absent

NotExpired(e) == e = 0 \/ e > now

(* verify_attestation: the verdict a consumer acts on. *)
Verify(u) ==
    /\ HasAttestation(u)
    /\ att[u].revocation_time = 0
    /\ att[u].valid_from <= now
    /\ NotExpired(att[u].expiration_time)

------------------------------------------------------------------------------
(* The checks of attest_internal.                                          *)

CheckPolicy(policy, revocable) ==
    /\ policy = "RevocableOnly" => revocable
    /\ policy = "IrrevocableOnly" => ~revocable

WithinMaxTtl(max_ttl, e) ==
    max_ttl > 0 => e # 0 /\ e <= now + max_ttl

(* Mutant: an attestation may expire in the ledger it becomes valid. *)
ValidRange_Inclusive(valid_from, e) == e > 0 => valid_from <= e

ValidRange(valid_from, e) == e > 0 => valid_from < e

(* The quota history is a multiset of ledgers; entry [at, no] is the no-th *)
(* issuance of ledger `at`.                                                *)
Limited(x) == rate # NoLimit /\ x \notin exempt

Recent(x) == {e \in hist[x] : e.at + rate.window > now}

By(x, S) == {a \in S : a.uid.attester = x}

(* Mutant: items of one batch do not count against each other. *)
QuotaLeft_PerCall(x, earlier) ==
    Limited(x) => Cardinality(Recent(x)) < rate.max_issuances

QuotaLeft(x, earlier) ==
    Limited(x) =>
        Cardinality(Recent(x)) + Cardinality(By(x, earlier)) < rate.max_issuances

(* Mutant: a ref_uid need not have been issued. *)
RefResolves_Any(a, earlier) == TRUE

RefResolves(a, earlier) ==
    a.ref_uid # NoRef =>
        HasAttestation(a.ref_uid) \/ \E e \in earlier : e.uid = a.ref_uid

(* schema_attester_acl_status, asked when is_authorized has declined; that *)
(* the schema has a list at all only changes the error.                    *)
OnAcl(s, x) == x \in s.acl

(* attest_internal accepts `a` after it has issued `earlier` in the same   *)
(* invocation.                                                             *)
Issuable(a, earlier) ==
    LET s == reg[a.uid.schema]
        x == a.uid.attester
    IN  /\ ~HasAttestation(a.uid)
        /\ \A e \in earlier : e.uid # a.uid
        /\ NotExpired(a.expiration_time)
        /\ ValidRange(a.valid_from, a.expiration_time)
        /\ a.uid.recipient # x
        /\ a.ref_uid # a.uid
        /\ RefResolves(a, earlier)
        /\ s.live
        /\ ~s.quarantined
        /\ WithinMaxTtl(s.max_ttl, a.expiration_time)
        /\ x \in s.authorized \/ OnAcl(s, x)
        /\ QuotaLeft(x, earlier)
        /\ CheckPolicy(s.policy, a.revocable)
        /\ anchor[a.uid].issuance = 0

(* Mutant: revocation does not consult the registry. *)
Revocable_AnySchema(u) ==
    /\ HasAttestation(u)
    /\ att[u].revocable
    /\ att[u].revocation_time = 0
    /\ anchor[u].revocation = 0

(* revoke_internal accepts `u`; a deprecated schema makes get_schema None, *)
(* which refuses the revocation too.                                       *)
Revocable(u) ==
    /\ HasAttestation(u)
    /\ att[u].revocable
    /\ att[u].revocation_time = 0
    /\ anchor[u].revocation = 0
    /\ reg[u.schema].live

------------------------------------------------------------------------------
(* The writes of attest_internal and revoke_internal.                      *)

Issued(a) == [time |-> now, expiration_time |-> a.expiration_time,
              revocation_time |-> a.revocation_time, ref_uid |-> a.ref_uid,
              revocable |-> a.revocable, valid_from |-> a.valid_from]

Written(issued, revoked) ==
    [u \in UIDs |->
        IF \E a \in issued : a.uid = u
          THEN Issued(CHOOSE a \in issued : a.uid = u)
          ELSE IF u \in revoked THEN [att[u] EXCEPT !.revocation_time = now]
          ELSE att[u]]

Anchored(issued, revoked) ==
    [u \in UIDs |->
        [issuance   |-> IF \E a \in issued : a.uid = u THEN now ELSE anchor[u].issuance,
         revocation |-> IF u \in revoked THEN now ELSE anchor[u].revocation]]

QuotaUsed(issued) ==
    [x \in Addrs |->
        LET n == Cardinality(By(x, issued))
            k == Cardinality({e \in Recent(x) : e.at = now})
        IN  IF n > 0 /\ Limited(x)
              THEN Recent(x) \cup {[at |-> now, no |-> i] : i \in (k + 1)..(k + n)}
              ELSE hist[x]]

(* Issue the attestations of the first set and revoke the UIDs of the      *)
(* second, in one invocation.                                              *)
Commit(issued, revoked) ==
    /\ att' = Written(issued, revoked)
    /\ anchor' = Anchored(issued, revoked)
    /\ hist' = QuotaUsed(issued)
    /\ UNCHANGED <<now, adminVars, reg>>

------------------------------------------------------------------------------
(* Issuing entry points.                                                   *)

FeeDue(s) == fee_per_byte /\ s \notin zero_fee

Attest(a) ==
    /\ ~paused
    /\ ~FeeDue(a.uid.schema)
    /\ Issuable(a, {})
    /\ Commit({a}, {})

MultiAttest(batch) ==
    /\ ~paused
    /\ \A i \in DOMAIN batch :
          /\ ~FeeDue(batch[i].uid.schema)
          /\ Issuable(batch[i], {batch[j] : j \in {k \in DOMAIN batch : k < i}})
    /\ Commit({batch[i] : i \in DOMAIN batch}, {})

(* The same payload for several recipients.  This entry point does not ask *)
(* whether unpaid issuance is allowed.                                     *)
BroadcastItems(x, s, recipients, d, e, revocable) ==
    {[uid |-> [schema |-> s, recipient |-> r, attester |-> x, data |-> d],
      expiration_time |-> e, revocation_time |-> 0, ref_uid |-> NoRef,
      revocable |-> revocable, valid_from |-> 0] : r \in recipients}

BroadcastAttest(items) ==
    /\ ~paused
    /\ \A a \in items : Issuable(a, items \ {a})
    /\ Commit(items, {})

------------------------------------------------------------------------------
(* Revoking entry points.                                                  *)

Revoke(u) ==
    /\ ~paused
    /\ Revocable(u)
    /\ Commit({}, {u})

IsAuthorized(s, x) == reg[s].live /\ x \in reg[s].authorized

RevokeByAuthorizer(u, x) ==
    /\ ~paused
    /\ HasAttestation(u)
    /\ x = u.attester \/ IsAuthorized(u.schema, x)
    /\ Revocable(u)
    /\ Commit({}, {u})

MultiRevoke(S) ==
    /\ ~paused
    /\ \A u \in S : Revocable(u)
    /\ Commit({}, S)

RevokeBySchema(s, S, x) ==
    /\ ~paused
    /\ IsAuthorized(s, x)
    /\ \A u \in S : u.schema = s /\ Revocable(u)
    /\ Commit({}, S)

------------------------------------------------------------------------------
(* Replacement, renewal, pruning.                                          *)

ReplaceInternal(old, new) ==
    /\ HasAttestation(old)
    /\ NotExpired(att[old].expiration_time)
    /\ new.uid.attester = old.attester
    /\ new.uid.recipient = old.recipient
    /\ att[old].expiration_time # 0 /\ new.expiration_time # 0
         => new.expiration_time >= att[old].expiration_time
    /\ Revocable(old)
    /\ LET linked == [new EXCEPT !.ref_uid = old]
       IN  Issuable(linked, {}) /\ Commit({linked}, {old})

ReplaceAttestation(old, new) ==
    /\ ~paused
    /\ ~FeeDue(new.uid.schema)
    /\ ReplaceInternal(old, new)

(* Mutants: renewal that forgets the revocation, or the expiry (#432). *)
Renewable_Revoked(u) ==
    HasAttestation(u) /\ att[u].revocable /\ NotExpired(att[u].expiration_time)

Renewable_Expired(u) ==
    HasAttestation(u) /\ att[u].revocable /\ att[u].revocation_time = 0

Renewable(u) ==
    /\ HasAttestation(u)
    /\ att[u].revocable
    /\ att[u].revocation_time = 0
    /\ NotExpired(att[u].expiration_time)

Extends(u, e) ==
    /\ att[u].expiration_time # 0 => (e = 0 \/ e >= att[u].expiration_time)
    /\ att[u].expiration_time = 0 => e = 0

(* Mutant: renewal past the schema's maximum TTL (#441). *)
RenewableUntil_AnyTtl(u, e) ==
    Extends(u, e) /\ ValidRange(att[u].valid_from, e) /\ NotExpired(e)

RenewableUntil(u, e) ==
    /\ Extends(u, e)
    /\ ValidRange(att[u].valid_from, e)
    /\ WithinMaxTtl(reg[u.schema].max_ttl, e)
    /\ NotExpired(e)

RenewAttestation(u, e) ==
    /\ ~paused
    /\ Renewable(u)
    /\ RenewableUntil(u, e)
    /\ att' = [att EXCEPT ![u].expiration_time = e]
    /\ UNCHANGED <<now, anchor, hist, adminVars, reg>>

Prunable(u) == HasAttestation(u) /\ ~NotExpired(att[u].expiration_time)

(* Mutant: the timestamp anchors of a removed record stay behind. *)
RemoveAttestations_KeepAnchors(S) ==
    /\ att' = [u \in UIDs |-> IF u \in S THEN Absent ELSE att[u]]
    /\ anchor' = anchor

RemoveAttestations(S) ==
    /\ att' = [u \in UIDs |-> IF u \in S THEN Absent ELSE att[u]]
    /\ anchor' = [u \in UIDs |-> IF u \in S THEN [issuance |-> 0, revocation |-> 0]
                                           ELSE anchor[u]]

(* Anyone may prune, paused or not; UIDs that are not prunable are skipped. *)
PruneExpired(S) ==
    /\ auto_prune
    /\ RemoveAttestations({u \in S : Prunable(u)})
    /\ UNCHANGED <<now, hist, adminVars, reg>>

------------------------------------------------------------------------------
(* Admin switches, the registry and the ledger.                            *)

SetPaused(b) ==
    /\ "pause" \in AdminOps
    /\ paused' = b
    /\ UNCHANGED <<now, storeVars, reg, auto_prune, rate, exempt, fee_per_byte,
                   zero_fee, rate_since>>

SetAutoPrune(b) ==
    /\ "prune" \in AdminOps
    /\ auto_prune' = b
    /\ UNCHANGED <<now, storeVars, reg, paused, rate, exempt, fee_per_byte,
                   zero_fee, rate_since>>

SetIssuanceRateLimit(limit) ==
    /\ "rate" \in AdminOps
    /\ rate' = limit
    /\ rate_since' = now
    /\ UNCHANGED <<now, storeVars, reg, paused, auto_prune, exempt, fee_per_byte,
                   zero_fee>>

SetRateLimitExempt(x, b) ==
    /\ "exempt" \in AdminOps
    /\ exempt' = IF b THEN exempt \cup {x} ELSE exempt \ {x}
    /\ rate_since' = now
    /\ UNCHANGED <<now, storeVars, reg, paused, auto_prune, rate, fee_per_byte,
                   zero_fee>>

SetFeePerByte(b) ==
    /\ "fee" \in AdminOps
    /\ fee_per_byte' = b
    /\ UNCHANGED <<now, storeVars, reg, paused, auto_prune, rate, exempt,
                   zero_fee, rate_since>>

SetSchemaZeroFee(s, b) ==
    /\ "fee" \in AdminOps
    /\ zero_fee' = IF b THEN zero_fee \cup {s} ELSE zero_fee \ {s}
    /\ UNCHANGED <<now, storeVars, reg, paused, auto_prune, rate, exempt,
                   fee_per_byte, rate_since>>

(* The registry's answers change under SAS's feet.  The policy and the     *)
(* maximum TTL are fixed at registration and deprecation is final.         *)
RegistryChange(s, v) ==
    /\ v.max_ttl = reg[s].max_ttl
    /\ v.policy = reg[s].policy
    /\ v.live => reg[s].live
    /\ reg' = [reg EXCEPT ![s] = v]
    /\ UNCHANGED <<now, storeVars, adminVars>>

CloseLedger ==
    /\ now < MaxTime
    /\ now' = now + 1
    /\ UNCHANGED <<storeVars, adminVars, reg>>

------------------------------------------------------------------------------
Init ==
    /\ now = 1
    /\ paused = FALSE
    /\ att = [u \in UIDs |-> Absent]
    /\ anchor = [u \in UIDs |-> [issuance |-> 0, revocation |-> 0]]
    /\ auto_prune = FALSE
    /\ reg \in [Schemas -> {v \in SchemaViews : v.live}]
    /\ rate = NoLimit
    /\ exempt = {}
    /\ hist = [x \in Addrs |-> {}]
    /\ fee_per_byte = FALSE
    /\ zero_fee = {}
    /\ rate_since = 0

IssueStep ==
    \/ \E a \in Attestation : Attest(a)
    \/ \E n \in 2..MaxBatch : \E batch \in [1..n -> Attestation] : MultiAttest(batch)
    \/ \E x \in Addrs, s \in Schemas, R \in (SUBSET Addrs) \ {{}}, d \in Datas,
          e \in Expirations, b \in BOOLEAN :
          LET items == BroadcastItems(x, s, R, d, e, b)
          IN  {a.uid : a \in items} \subseteq UIDs /\ BroadcastAttest(items)

RevokeStep ==
    \/ \E u \in UIDs : Revoke(u)
    \/ \E u \in UIDs, x \in Addrs : RevokeByAuthorizer(u, x)
    \/ \E S \in (SUBSET UIDs) \ {{}} : MultiRevoke(S)
    \/ \E s \in Schemas, S \in (SUBSET UIDs) \ {{}}, x \in Addrs : RevokeBySchema(s, S, x)

AmendStep ==
    \/ \E old \in UIDs, new \in {a \in Attestation : a.ref_uid = NoRef} :
          ReplaceAttestation(old, new)
    \/ \E u \in UIDs, e \in Expirations : RenewAttestation(u, e)
    \/ \E S \in (SUBSET UIDs) \ {{}} : PruneExpired(S)

(* Only attesters' exemptions are ever read. *)
AdminStep ==
    \/ \E b \in BOOLEAN : SetPaused(b)
    \/ \E b \in BOOLEAN : SetAutoPrune(b)
    \/ \E limit \in RateLimits \cup {NoLimit} : SetIssuanceRateLimit(limit)
    \/ \E x \in {u.attester : u \in UIDs}, b \in BOOLEAN : SetRateLimitExempt(x, b)
    \/ \E b \in BOOLEAN : SetFeePerByte(b)
    \/ \E s \in Schemas, b \in BOOLEAN : SetSchemaZeroFee(s, b)

EnvStep ==
    \/ \E s \in Schemas, v \in SchemaViews : RegistryChange(s, v)
    \/ CloseLedger

Next == IssueStep \/ RevokeStep \/ AmendStep \/ AdminStep \/ EnvStep

Spec == Init /\ [][Next]_coreVars

------------------------------------------------------------------------------
(* Properties.                                                             *)

(* Every variable has its type, and no stored time lies ahead of the       *)
(* ledger: write_anchor and attest_internal stamp the ledger they run in.  *)
TypeOK ==
    /\ now \in 1..MaxTime
    /\ paused \in BOOLEAN
    /\ att \in [UIDs -> AttRec]
    /\ anchor \in [UIDs -> [issuance : 0..now, revocation : 0..now]]
    /\ auto_prune \in BOOLEAN
    /\ reg \in [Schemas -> SchemaViews]
    /\ rate \in RateLimits \cup {NoLimit}
    /\ exempt \in SUBSET Addrs
    /\ hist \in [Addrs -> SUBSET [at : 1..now, no : Nat \ {0}]]
    /\ fee_per_byte \in BOOLEAN
    /\ zero_fee \in SUBSET Schemas
    /\ rate_since \in 0..now

(* The anchors tell the truth about the records (timestamp.rs): a UID has  *)
(* an issuance anchor exactly while its record is stored, the anchor is    *)
(* the record's `time`, and a revocation anchor belongs to a stored,       *)
(* revocable record, equals its revocation_time and does not precede the   *)
(* issuance.  So write_anchor's immutability panic never stops a call.     *)
AnchorMatches(u) ==
    /\ HasAttestation(u) <=> anchor[u].issuance # 0
    /\ att[u].time = anchor[u].issuance
    /\ anchor[u].revocation # 0 =>
          /\ HasAttestation(u)
          /\ att[u].revocable
          /\ att[u].revocation_time = anchor[u].revocation
          /\ anchor[u].issuance <= anchor[u].revocation

AnchorsMatch == \A u \in UIDs : AnchorMatches(u)

(* Every stored attestation has a ledger in which it could verify: it      *)
(* expires after it was issued and after it becomes valid, whatever        *)
(* sequence of renewals and replacements wrote it.                         *)
HasValidLedger(u) ==
    att[u].expiration_time # 0 =>
        /\ att[u].time < att[u].expiration_time
        /\ att[u].valid_from < att[u].expiration_time

EverValid == \A u \in UIDs : HasValidLedger(u)

(* A stored attestation obeys the rules its schema was registered with,    *)
(* in every later ledger: the tri-state revocation policy, and under a     *)
(* maximum TTL an expiration never further away than that TTL.             *)
ObeysSchema(u) ==
    LET s == reg[u.schema]
    IN  HasAttestation(u) =>
            /\ CheckPolicy(s.policy, att[u].revocable)
            /\ WithinMaxTtl(s.max_ttl, att[u].expiration_time)

SchemaRulesHold == \A u \in UIDs : ObeysSchema(u)

(* The verdict of verify_attestation turns from true to false only because *)
(* the attestation is revoked in that step or its expiration is reached,   *)
(* and from false to true only for a freshly issued UID or when valid_from *)
(* is reached: neither renewal nor replacement revives a dead attestation. *)
VerdictMoves(u) ==
    /\ Verify(u) /\ ~Verify(u)' =>
          \/ att'[u] = [att[u] EXCEPT !.revocation_time = now]
          \/ now' > now /\ att'[u] = att[u] /\ att[u].expiration_time = now'
    /\ ~Verify(u) /\ Verify(u)' =>
          \/ ~HasAttestation(u) /\ now' = now
          \/ now' > now /\ att'[u] = att[u] /\ att[u].valid_from = now'

VerdictHistory == [][\A u \in UIDs : VerdictMoves(u)]_coreVars

(* A step leaves the record alone, or prunes it after its expiration. *)
KeptOrPruned(u) == att'[u] = att[u] \/ (Prunable(u) /\ att'[u] = Absent)

(* Once revocation_time is set nothing in the record changes any more; it  *)
(* can only be pruned, and only after its expiration.                      *)
RevokedFrozen ==
    [][\A u \in UIDs : att[u].revocation_time # 0 => KeptOrPruned(u)]_coreVars

(* While the contract is paused no attestation is issued, revoked, renewed *)
(* or replaced; only expired records can be pruned.                        *)
PauseStopsIssuance ==
    [][paused => \A u \in UIDs : KeptOrPruned(u)]_coreVars

(* Deprecating a schema freezes the standing of its attestations: nothing  *)
(* is issued and nothing is revoked under it, by no entry point.  Renewal  *)
(* by the attester and pruning remain.                                     *)
DeprecationFreezes ==
    [][\A u \in UIDs : ~reg[u.schema].live =>
         \/ att'[u] = att[u]
         \/ att'[u] = Absent
         \/ att'[u] = [att[u] EXCEPT !.expiration_time = att'[u].expiration_time]]_coreVars

(* The sliding-window quota: while one limit stays in force, an attester   *)
(* who is not exempt never has more than max_issuances records whose       *)
(* issuance lies in the last `window` ledgers, by any mix of single calls, *)
(* batches, broadcasts and replacements.                                   *)
RateBound ==
    \A x \in Addrs : Limited(x) =>
        Cardinality({u \in UIDs : /\ u.attester = x
                                  /\ HasAttestation(u)
                                  /\ att[u].time > rate_since
                                  /\ att[u].time + rate.window > now})
            <= rate.max_issuances

RefEdges == {e \in UIDs \X UIDs : HasAttestation(e[1]) /\ att[e[1]].ref_uid = e[2]}

(* Following ref_uid from a stored attestation ends: no attestation is     *)
(* its own ancestor.  (Without pruning; a pruned and re-issued UID may     *)
(* refer to a descendant of its former self.)                              *)
RefsAcyclic ==
    \A S \in (SUBSET UIDs) \ {{}} :
        \E u \in S : \A v \in S : <<u, v>> \notin RefEdges

------------------------------------------------------------------------------
(* What the repository's texts say, where the code disagrees.              *)

(* Doc comment of SAS::replace_attestation: consumers "never observe a     *)
(* window where neither attestation is valid".  The new attestation's      *)
(* valid_from may lie ahead.                                               *)
ReplacementLeavesNoGap ==
    [][\A old, new \in UIDs :
         /\ ~HasAttestation(new) /\ HasAttestation(new)' /\ att'[new].ref_uid = old
         /\ Verify(old) /\ ~Verify(old)'
         => Verify(new)']_coreVars

(* docs/sas-core-526-527-530-531.md: "When a positive per-byte rate is     *)
(* active, unpaid issuance entrypoints reject non-exempt attestations".    *)
(* broadcast_attest does not ask.                                          *)
UnpaidIssuanceRefused ==
    [][\A u \in UIDs :
         ~HasAttestation(u) /\ HasAttestation(u)' => ~FeeDue(u.schema)]_coreVars
==============================================================================
