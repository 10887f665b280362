---------------------------- MODULE SASDelegation ----------------------------
(***************************************************************************)
(* Delegated operations of the SAS contract (contracts/sas/src/lib.rs):    *)
(* issuance, revocation, replacement and nonce invalidation authorised by  *)
(* an off-chain ed25519 signature and submitted by any relayer, with the   *)
(* key registry, the delegation policies, the FROST groups and the ZK      *)
(* nullifiers those calls depend on.  It extends SASCore: the direct entry *)
(* points run next to the delegated ones on the same store.                *)
(*                                                                         *)
(* The holder of a key may have signed any message, and a relayer may      *)
(* submit any signed message at any time, in any order and any number of   *)
(* times; a message is the arguments of the call, its nonce and its key.   *)
(* Signature verification itself (ed25519, the digests) is external.       *)
(***************************************************************************)
EXTENDS SASCore, Integers

CONSTANTS
    Keys,         \* ed25519 public keys
    NoKey,        \* no key
    AccountKey,   \* the key inside a classic account address, NoKey for a contract
    Delegators,   \* who manages nonces, keys and policies in this instance
    RegKeys,      \* keys attesters register in this instance
    GroupKeys,    \* FROST group keys schemas declare in this instance
    AnySchema,    \* DelegationSchemaScope::Any
    Scopes,       \* delegation policies and signed scopes of this instance
    Nullifiers,   \* ZK nullifiers
    MaxNonce,     \* bound: largest nonce signed
    MaxVersion    \* bound: largest key version reached

(* DelegationPolicy and DelegationAuthorization carry the same three       *)
(* fields: the issue permission, an expiry (0: none) and a schema scope.   *)
Scope == [issue : BOOLEAN, valid_until : Nat, schema : Schemas \cup {AnySchema}]

(* An attester without a policy is not restricted. *)
Unrestricted == [issue |-> TRUE, valid_until |-> 0, schema |-> AnySchema]

ASSUME DelegationAssumption ==
    /\ NoKey \notin Keys
    /\ AccountKey \in [Addrs -> Keys \cup {NoKey}]
    /\ Delegators \subseteq Addrs
    /\ RegKeys \subseteq Keys
    /\ GroupKeys \subseteq Keys
    /\ Scopes \subseteq Scope
    /\ MaxNonce \in Nat
    /\ MaxVersion \in Nat

VARIABLES
    nonce,        \* DelegationNonceKey: highest nonce consumed, NoNonce before
    consent,      \* RecipientConsentNonceKey, likewise
    keys,         \* ATTESTER_KEY records
    policy,       \* DELEGATION_POLICY
    group,        \* the registry's FROST_GROUP key of each schema, or NoKey
    zk_verifier,  \* ZK_VERIFIER is installed
    nullifiers,   \* ZkNullifierKey::Used
    spent,        \* history: how often each nonce of an attester was accepted
    consented,    \* history: how often each consent nonce was accepted
    proved,       \* history: how often each nullifier was accepted
    invalidated,  \* history: nonces an attester has invalidated
    retired,      \* history: keys rotated away or revoked, not registered since
    signers       \* history: keys accepted in the party's last delegated call

nonceVars == <<nonce, consent, spent, consented, signers>>
keyVars   == <<keys, retired>>
zkVars    == <<nullifiers, proved>>
delegationVars ==
    <<nonceVars, keyVars, policy, group, zk_verifier, zkVars, invalidated>>
allVars == <<coreVars, delegationVars>>

Nonces == 0..MaxNonce
NoNonce == -1

KeyRecord == [key : RegKeys \cup {NoKey}, version : 0..MaxVersion, revoked : BOOLEAN]

(* No record: rotate and revoke refuse it, register starts at version 1.   *)
NoRecord == [key |-> NoKey, version |-> 0, revoked |-> TRUE]

------------------------------------------------------------------------------
(* Keys, policies and nonces.                                              *)

(* Mutant: the revoked flag of the record is not looked at. *)
RegisteredKeyMatches_Revoked(x, k) == keys[x].key = k

RegisteredKeyMatches(x, k) == ~keys[x].revoked /\ keys[x].key = k

IsAttesterKey(x, k) == k = AccountKey[x] \/ RegisteredKeyMatches(x, k)

IsDelegationKey(s, x, k) ==
    /\ group[s] # NoKey => k = group[s]
    /\ group[s] = NoKey => IsAttesterKey(x, k)

ScopeAllows(p, s) ==
    /\ p.issue
    /\ p.valid_until # 0 => now <= p.valid_until
    /\ p.schema \in {AnySchema, s}

(* A message of attester x; the calls below take one message or a sequence *)
(* of them, in the submitted order.                                        *)
Msg(x, n, k) == [attester |-> x, nonce |-> n, key |-> k]

MsgsOf(x, ms) == {i \in DOMAIN ms : ms[i].attester = x}

(* Mutant: a batch compares every nonce with the stored watermark only. *)
Fresh_Stored(ms) == \A i \in DOMAIN ms : ms[i].nonce > nonce[ms[i].attester]

(* require_nonce_not_replayed and consume_delegation_nonce accept every    *)
(* message of the sequence.                                                *)
Fresh(ms) ==
    \A i \in DOMAIN ms :
        /\ ms[i].nonce > nonce[ms[i].attester]
        /\ \A j \in DOMAIN ms :
              j < i /\ ms[j].attester = ms[i].attester => ms[j].nonce < ms[i].nonce

(* The watermark after the messages. *)
Watermark(ms) ==
    [x \in Addrs |->
        LET I == MsgsOf(x, ms)
        IN  IF I = {} THEN nonce[x] ELSE ms[CHOOSE i \in I : \A j \in I : j <= i].nonce]

Spend(ms) ==
    [x \in Addrs |->
        [n \in Nonces |->
            spent[x][n] + Cardinality({i \in MsgsOf(x, ms) : ms[i].nonce = n})]]

Signed(ms) ==
    [x \in Addrs |->
        IF MsgsOf(x, ms) = {} THEN signers[x] ELSE {ms[i].key : i \in MsgsOf(x, ms)}]

Consume(ms) ==
    /\ Fresh(ms)
    /\ nonce' = Watermark(ms)
    /\ spent' = Spend(ms)
    /\ signers' = Signed(ms)
    /\ UNCHANGED <<consent, consented>>

restOfDelegation == <<keyVars, policy, group, zk_verifier, zkVars, invalidated>>

------------------------------------------------------------------------------
(* Delegated issuance and revocation.                                      *)

AttestByDelegation(a, n, k) ==
    LET x == a.uid.attester
    IN  /\ ~paused
        /\ a.revocation_time = 0
        /\ ~FeeDue(a.uid.schema)
        /\ ScopeAllows(policy[x], a.uid.schema)
        /\ IsDelegationKey(a.uid.schema, x, k)
        /\ Consume(<<Msg(x, n, k)>>)
        /\ Issuable(a, {})
        /\ Commit({a}, {})
        /\ UNCHANGED restOfDelegation

(* The signature also covers a scope; the key is the attester's own, even  *)
(* under a schema with a FROST group.                                      *)
AttestByScopedDelegation(a, n, k, authorization) ==
    LET x == a.uid.attester
    IN  /\ ~paused
        /\ a.revocation_time = 0
        /\ ~FeeDue(a.uid.schema)
        /\ ScopeAllows(authorization, a.uid.schema)
        /\ IsAttesterKey(x, k)
        /\ ScopeAllows(policy[x], a.uid.schema)
        /\ Consume(<<Msg(x, n, k)>>)
        /\ Issuable(a, {})
        /\ Commit({a}, {})
        /\ UNCHANGED restOfDelegation

MultiAttestByDelegation(batch, ns, ks) ==
    LET ms == [i \in DOMAIN batch |-> Msg(batch[i].uid.attester, ns[i], ks[i])]
    IN  /\ ~paused
        /\ Consume(ms)
        /\ \A i \in DOMAIN batch :
              LET a == batch[i]
              IN  /\ a.revocation_time = 0
                  /\ ~FeeDue(a.uid.schema)
                  /\ ScopeAllows(policy[a.uid.attester], a.uid.schema)
                  /\ IsDelegationKey(a.uid.schema, a.uid.attester, ks[i])
                  /\ Issuable(a, {batch[j] : j \in {l \in DOMAIN batch : l < i}})
        /\ Commit({batch[i] : i \in DOMAIN batch}, {})
        /\ UNCHANGED restOfDelegation

RevokeByDelegation(u, n, k) ==
    /\ ~paused
    /\ HasAttestation(u)
    /\ IsDelegationKey(u.schema, u.attester, k)
    /\ Consume(<<Msg(u.attester, n, k)>>)
    /\ Revocable(u)
    /\ Commit({}, {u})
    /\ UNCHANGED restOfDelegation

(* Mutant: the first pass only looks for the records. *)
MultiRevokeByDelegation_Unchecked(uids, ns, ks) ==
    /\ ~paused
    /\ \A i, j \in DOMAIN uids : i # j => uids[i] # uids[j]
    /\ Consume([i \in DOMAIN uids |-> Msg(uids[i].attester, ns[i], ks[i])])
    /\ \A i \in DOMAIN uids :
          /\ IsDelegationKey(uids[i].schema, uids[i].attester, ks[i])
          /\ HasAttestation(uids[i])
    /\ Commit({}, {uids[i] : i \in DOMAIN uids})
    /\ UNCHANGED restOfDelegation

MultiRevokeByDelegation(uids, ns, ks) ==
    /\ ~paused
    /\ \A i, j \in DOMAIN uids : i # j => uids[i] # uids[j]
    /\ Consume([i \in DOMAIN uids |-> Msg(uids[i].attester, ns[i], ks[i])])
    /\ \A i \in DOMAIN uids :
          /\ IsDelegationKey(uids[i].schema, uids[i].attester, ks[i])
          /\ Revocable(uids[i])
    /\ Commit({}, {uids[i] : i \in DOMAIN uids})
    /\ UNCHANGED restOfDelegation

ConsumeRecipientConsentNonce(r, n) ==
    /\ n > consent[r]
    /\ consent' = [consent EXCEPT ![r] = n]
    /\ consented' = [consented EXCEPT ![r][n] = @ + 1]

(* Both parties sign; neither the unpaid rule, nor the delegation policy,  *)
(* nor the FROST group, nor the new revocation_time is looked at.          *)
ReplaceByDelegationConsent(old, new, na, ka, nr, kr) ==
    LET x == old.attester
        r == old.recipient
    IN  /\ ~paused
        /\ IsAttesterKey(x, ka)
        /\ IsAttesterKey(r, kr)
        /\ Fresh(<<Msg(x, na, ka)>>)
        /\ ConsumeRecipientConsentNonce(r, nr)
        /\ nonce' = Watermark(<<Msg(x, na, ka)>>)
        /\ spent' = Spend(<<Msg(x, na, ka)>>)
        /\ signers' = [signers EXCEPT ![x] = {ka}, ![r] = {kr}]
        /\ ReplaceInternal(old, new)
        /\ UNCHANGED restOfDelegation

------------------------------------------------------------------------------
(* Nonce invalidation.  A missing watermark counts as 0 here, although     *)
(* nonce 0 is still acceptable then.                                       *)

Highwater(x) == IF nonce[x] = NoNonce THEN 0 ELSE nonce[x]

NonceRange(min, max) == {n \in Nonces : min <= n /\ n <= max}

(* Mutant: the new mark is not compared with the current one. *)
InvalidateNoncesInternal_Any(x, min, max) ==
    /\ nonce' = [nonce EXCEPT ![x] = max]
    /\ invalidated' = [invalidated EXCEPT ![x] = @ \cup NonceRange(min, max)]

InvalidateNoncesInternal(x, min, max) ==
    /\ max > Highwater(x)
    /\ nonce' = [nonce EXCEPT ![x] = max]
    /\ invalidated' = [invalidated EXCEPT ![x] = @ \cup NonceRange(min, max)]

restOfInvalidation == <<consent, consented, keyVars, policy, group, zk_verifier, zkVars, coreVars>>

InvalidateNonces(x, min, max) ==
    /\ ~paused
    /\ min <= max
    /\ InvalidateNoncesInternal(x, min, max)
    /\ UNCHANGED <<spent, signers, restOfInvalidation>>

SetNonceHighwaterMark(x, new) ==
    /\ ~paused
    /\ InvalidateNoncesInternal(x, Highwater(x) + 1, new)
    /\ UNCHANGED <<spent, signers, restOfInvalidation>>

(* The message's own nonce is consumed first, so the range must end above  *)
(* it.                                                                     *)
InvalidateNoncesByDelegation(x, min, max, n, k) ==
    /\ ~paused
    /\ min <= max
    /\ IsAttesterKey(x, k)
    /\ Fresh(<<Msg(x, n, k)>>)
    /\ spent' = Spend(<<Msg(x, n, k)>>)
    /\ signers' = Signed(<<Msg(x, n, k)>>)
    /\ max > n
    /\ nonce' = [nonce EXCEPT ![x] = max]
    /\ invalidated' = [invalidated EXCEPT ![x] = @ \cup NonceRange(min, max)]
    /\ UNCHANGED restOfInvalidation

------------------------------------------------------------------------------
(* The attester's key record and policy; the schema's FROST group.         *)

restOfKeys == <<nonceVars, policy, group, zk_verifier, zkVars, invalidated, coreVars>>

RegisterAttesterKey(x, k) ==
    /\ ~paused
    /\ keys[x].revoked
    /\ keys[x].version < MaxVersion
    /\ keys' = [keys EXCEPT ![x] =
                  [key |-> k, version |-> keys[x].version + 1, revoked |-> FALSE]]
    /\ retired' = [retired EXCEPT ![x] = @ \ {k}]
    /\ UNCHANGED restOfKeys

RotateAttesterKey(x, k) ==
    /\ ~paused
    /\ ~keys[x].revoked
    /\ keys[x].version < MaxVersion
    /\ keys' = [keys EXCEPT ![x] =
                  [key |-> k, version |-> keys[x].version + 1, revoked |-> FALSE]]
    /\ retired' = [retired EXCEPT ![x] = (@ \cup {keys[x].key}) \ {k}]
    /\ UNCHANGED restOfKeys

RevokeAttesterKey(x) ==
    /\ ~paused
    /\ ~keys[x].revoked
    /\ keys' = [keys EXCEPT ![x].revoked = TRUE]
    /\ retired' = [retired EXCEPT ![x] = @ \cup {keys[x].key}]
    /\ UNCHANGED restOfKeys

(* Set by the attester, paused or not. *)
SetDelegationPolicy(x, p) ==
    /\ policy' = [policy EXCEPT ![x] = p]
    /\ UNCHANGED <<nonceVars, keyVars, group, zk_verifier, zkVars, invalidated, coreVars>>

(* set_schema_frost_group, or clear_schema_frost_group when k is NoKey.    *)
SetSchemaFrostGroup(s, k) ==
    /\ reg[s].live
    /\ group' = [group EXCEPT ![s] = k]
    /\ UNCHANGED <<nonceVars, keyVars, policy, zk_verifier, zkVars, invalidated, coreVars>>

------------------------------------------------------------------------------
(* ZK issuance.  The verifier contract is external; here it accepts.       *)

SetZkVerifier ==
    /\ zk_verifier' = TRUE
    /\ UNCHANGED <<nonceVars, keyVars, policy, group, zkVars, invalidated, coreVars>>

AttestWithZk(a, z) ==
    /\ ~paused
    /\ ~FeeDue(a.uid.schema)
    /\ z \notin nullifiers
    /\ zk_verifier
    /\ Issuable(a, {})
    /\ Commit({a}, {})
    /\ nullifiers' = nullifiers \cup {z}
    /\ proved' = [proved EXCEPT ![z] = @ + 1]
    /\ UNCHANGED <<nonceVars, keyVars, policy, group, zk_verifier, invalidated>>

------------------------------------------------------------------------------
DelegationInit ==
    /\ Init
    /\ nonce = [x \in Addrs |-> NoNonce]
    /\ consent = [x \in Addrs |-> NoNonce]
    /\ keys = [x \in Addrs |-> NoRecord]
    /\ policy = [x \in Addrs |-> Unrestricted]
    /\ group = [s \in Schemas |-> NoKey]
    /\ zk_verifier = FALSE
    /\ nullifiers = {}
    /\ spent = [x \in Addrs |-> [n \in Nonces |-> 0]]
    /\ consented = [x \in Addrs |-> [n \in Nonces |-> 0]]
    /\ proved = [z \in Nullifiers |-> 0]
    /\ invalidated = [x \in Addrs |-> {}]
    /\ retired = [x \in Addrs |-> {}]
    /\ signers = [x \in Addrs |-> {}]

SignedStep ==
    \/ \E a \in Attestation, n \in Nonces, k \in Keys : AttestByDelegation(a, n, k)
    \/ \E a \in Attestation, n \in Nonces, k \in Keys, p \in Scopes :
          AttestByScopedDelegation(a, n, k, p)
    \/ \E n \in 2..MaxBatch : \E batch \in [1..n -> Attestation],
          ns \in [1..n -> Nonces], ks \in [1..n -> Keys] :
          MultiAttestByDelegation(batch, ns, ks)
    \/ \E u \in UIDs, n \in Nonces, k \in Keys : RevokeByDelegation(u, n, k)
    \/ \E n \in 2..MaxBatch : \E uids \in [1..n -> UIDs],
          ns \in [1..n -> Nonces], ks \in [1..n -> Keys] :
          MultiRevokeByDelegation(uids, ns, ks)
    \/ \E old \in UIDs, new \in {a \in Attestation : a.ref_uid = NoRef},
          na \in Nonces, ka \in Keys, nr \in Nonces, kr \in Keys :
          ReplaceByDelegationConsent(old, new, na, ka, nr, kr)

NonceStep ==
    \/ \E x \in Delegators, min \in Nonces, max \in Nonces : InvalidateNonces(x, min, max)
    \/ \E x \in Delegators, new \in Nonces : SetNonceHighwaterMark(x, new)
    \/ \E x \in Delegators, min \in Nonces, max \in Nonces, n \in Nonces, k \in Keys :
          InvalidateNoncesByDelegation(x, min, max, n, k)

KeyStep ==
    \/ \E x \in Delegators, k \in RegKeys : RegisterAttesterKey(x, k)
    \/ \E x \in Delegators, k \in RegKeys : RotateAttesterKey(x, k)
    \/ \E x \in Delegators : RevokeAttesterKey(x)
    \/ \E x \in Delegators, p \in Scopes : SetDelegationPolicy(x, p)
    \/ \E s \in Schemas, k \in GroupKeys \cup {NoKey} : SetSchemaFrostGroup(s, k)

ZkStep ==
    \/ SetZkVerifier
    \/ \E a \in Attestation, z \in Nullifiers : AttestWithZk(a, z)

DirectStep == Next /\ UNCHANGED delegationVars

DelegationNext == SignedStep \/ NonceStep \/ KeyStep \/ ZkStep \/ DirectStep

DelegationSpec == DelegationInit /\ [][DelegationNext]_allVars

------------------------------------------------------------------------------
(* Properties.                                                             *)

(* Every delegation variable has its type; a watermark never passes the    *)
(* largest nonce signed.                                                   *)
DelegationTypeOK ==
    /\ nonce \in [Addrs -> Nonces \cup {NoNonce}]
    /\ consent \in [Addrs -> Nonces \cup {NoNonce}]
    /\ keys \in [Addrs -> KeyRecord]
    /\ policy \in [Addrs -> Scopes \cup {Unrestricted}]
    /\ group \in [Schemas -> GroupKeys \cup {NoKey}]
    /\ zk_verifier \in BOOLEAN
    /\ nullifiers \in SUBSET Nullifiers
    /\ spent \in [Addrs -> [Nonces -> Nat]]
    /\ consented \in [Addrs -> [Nonces -> Nat]]
    /\ proved \in [Nullifiers -> Nat]
    /\ invalidated \in [Addrs -> SUBSET Nonces]
    /\ retired \in [Addrs -> SUBSET (RegKeys \cup {NoKey})]
    /\ signers \in [Addrs -> SUBSET Keys]

(* Replay protection: however signed messages are replayed, reordered or   *)
(* packed into batches, and whichever entry points they go to, one nonce   *)
(* of an attester authorises one operation, one recipient consent one      *)
(* replacement and one nullifier one issuance.                             *)
SpentOnce ==
    /\ \A x \in Addrs, n \in Nonces : spent[x][n] <= 1 /\ consented[x][n] <= 1
    /\ \A z \in Nullifiers : proved[z] <= 1

(* A nonce the attester has invalidated authorises nothing afterwards: no  *)
(* later call takes the watermark back below it.                           *)
InvalidatedNeverSpent ==
    [][\A x \in Addrs : \A n \in invalidated[x] : spent'[x][n] = spent[x][n]]_allVars

(* A key that was rotated away or revoked, and not registered again since, *)
(* signs nothing any more for that party, in any delegated entry point.    *)
(* (Where registered keys are neither account keys nor group keys.)        *)
RetiredKeysRefused ==
    [][\A x \in Addrs :
         spent'[x] # spent[x] \/ consented'[x] # consented[x]
         => signers'[x] \cap retired[x] = {}]_allVars

(* The version of a key record names one key and one life of it: whenever  *)
(* the active key changes or a revoked record comes back, the version has  *)
(* grown, and it never goes back.                                          *)
KeyVersionsGrow ==
    [][\A x \in Addrs :
         /\ keys'[x].version >= keys[x].version
         /\ keys'[x].key # keys[x].key \/ (keys[x].revoked /\ ~keys'[x].revoked)
            => keys'[x].version > keys[x].version]_allVars

(* Delegation gives the store no new behaviour: while no per-byte fee can  *)
(* be set, every delegated call changes it as some direct call could, so   *)
(* everything SASCore promises holds of it too.                            *)
ImplementsCore == Spec

------------------------------------------------------------------------------
(* What the repository's texts say, where the code disagrees.              *)

(* specs/protocol-v1.md: a FROST group "must endorse every delegated       *)
(* attestation or revocation under it".  attest_by_scoped_delegation and   *)
(* replace_by_delegation_consent take the attester's own key.              *)
GroupEndorsesDelegated ==
    [][\A u \in UIDs :
         /\ group[u.schema] # NoKey
         /\ att'[u] # att[u]
         /\ spent'[u.attester] # spent[u.attester]
         => signers'[u.attester] = {group[u.schema]}]_allVars
==============================================================================
