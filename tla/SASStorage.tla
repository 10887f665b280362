----------------------------- MODULE SASStorage -----------------------------
(***************************************************************************)
(* How the SAS contract lays out an attestation in its storage, and what   *)
(* its readers make of it (contracts/sas/src/lib.rs, timestamp.rs,         *)
(* merkle_disclosure.rs, common/src/merkle.rs).                            *)
(*                                                                         *)
(* SASCore keeps one record for a UID.  The contract spreads it over       *)
(* several persistent entries: the record itself, a CompactAttestation or  *)
(* a full Attestation of an earlier version; valid_from, which the compact *)
(* layout has no room for, in an entry of its own; and the ledgers that    *)
(* issued and revoked it.  Every reader puts the entries together again.   *)
(*                                                                         *)
(* Not modelled: TTLs (an archived entry makes the host refuse the call)   *)
(* and CompactAttestationKey, which is read first and never written.       *)
(***************************************************************************)
EXTENDS Naturals, Sequences, SequencesExt

CONSTANTS
    StoredUids,
    Nothing,              \* no entry
    Leaves,               \* payload parts a holder may disclose
    Bundles,              \* sequences of leaves that attesters commit to
    OtherData,            \* data that is not 32 bytes long
    MAX_PROOF,            \* MAX_MERKLE_PROOF_DEPTH
    MAX_VERIFY_BATCH,
    MaxSequence,          \* bound: ledgers
    Gaps                  \* seconds between two ledgers

ASSUME StorageAssumption ==
    /\ MAX_PROOF \in Nat /\ MAX_VERIFY_BATCH \in Nat /\ MaxSequence \in Nat
    /\ Gaps \subseteq Nat \ {0}

(* The leaves that proofs of k siblings reach. *)
Width[k \in Nat] == IF k = 0 THEN 1 ELSE 2 * Width[k - 1]

ASSUME BundleAssumption ==
    \A b \in Bundles : b \in Seq(Leaves) /\ b # <<>> /\ Len(b) <= Width[MAX_PROOF]

VARIABLES
    plain,      \* the entry under the UID
    side,       \* the entry under (VALID_FROM, UID)
    anchors,    \* the entries under TimestampAnchorKey, by revocation
    current,    \* the current ledger
    schemaOpen, \* the registry's get_schema finds the schema
    truth,      \* history: the attestation the writers meant
    stamped     \* history: the ledgers that issued and revoked it

storageVars == <<plain, side, anchors, current, schemaOpen, truth, stamped>>

Time == current.ledger_timestamp

------------------------------------------------------------------------------
(* Merkle trees.  A hash is a term: 0x00 and 0x01 keep leaves and nodes    *)
(* apart, and a node's children are sorted, hence a set.                   *)

LeafHash(data) == <<"0x00", data>>
NodeHash(a, b) == <<"0x01", {a, b}>>

NextLevel(level) ==
    [i \in 1..((Len(level) + 1) \div 2) |->
        IF 2 * i <= Len(level) THEN NodeHash(level[2 * i - 1], level[2 * i])
                               ELSE level[2 * i - 1]]

LevelOf(leaves, k) ==
    LET Level[i \in Nat] ==
          IF i = 0 THEN [j \in DOMAIN leaves |-> LeafHash(leaves[j])]
                   ELSE NextLevel(Level[i - 1])
    IN  Level[k]

(* As many levels as leaves are more than enough. *)
MerkleRoot(leaves) == LevelOf(leaves, Len(leaves))[1]

(* The hash after i siblings. *)
Climb(leaf, proof) ==
    LET Current[i \in Nat] ==
          IF i = 0 THEN LeafHash(leaf) ELSE NodeHash(Current[i - 1], proof[i])
    IN  Current[Len(proof)]

VerifyProof(root, leaf, proof) == Len(proof) <= MAX_PROOF /\ Climb(leaf, proof) = root

------------------------------------------------------------------------------
(* The layouts.                                                            *)

(* CompactAttestation::from_attestation and pack_meta: everything but      *)
(* valid_from; to_attestation and unpack_meta the other way.               *)
Compact(r) == [layout |-> "compact", record |-> [r EXCEPT !.valid_from = 0]]
Legacy(r) == [layout |-> "legacy", record |-> r]

ReadAttestation(u) ==
    IF plain[u] = Nothing THEN Nothing
    ELSE IF side[u] = Nothing THEN plain[u].record
    ELSE [plain[u].record EXCEPT !.valid_from = side[u]]

WriteAttestation(u, r) ==
    /\ plain' = [plain EXCEPT ![u] = Compact(r)]
    /\ side' = [side EXCEPT ![u] = IF r.valid_from # 0 THEN r.valid_from ELSE Nothing]
    /\ truth' = [truth EXCEPT ![u] = r]

(* An anchor is written once. *)
WriteAnchor(u, revocation) ==
    /\ anchors[u][revocation] = Nothing
    /\ anchors' = [anchors EXCEPT ![u][revocation] = current]
    /\ stamped' = [stamped EXCEPT ![u] = @ \cup {current}]

PastExpiry(r) == r.expiration_time # 0 /\ r.expiration_time <= Time

------------------------------------------------------------------------------
(* The operations, as far as they touch these entries; SASCore has their   *)
(* other conditions.                                                       *)

IssueRecord(u, expiration, from, data) ==
    /\ schemaOpen /\ plain[u] = Nothing
    /\ expiration # 0 => Time < expiration /\ from < expiration
    /\ WriteAttestation(u, [time |-> Time, expiration_time |-> expiration, revocation_time |-> 0,
                            valid_from |-> from, data |-> data])
    /\ WriteAnchor(u, FALSE)
    /\ UNCHANGED <<current, schemaOpen>>

RevokeRecord(u) ==
    LET r == ReadAttestation(u) IN
    /\ schemaOpen /\ r # Nothing /\ r.revocation_time = 0
    /\ WriteAttestation(u, [r EXCEPT !.revocation_time = Time])
    /\ WriteAnchor(u, TRUE)
    /\ UNCHANGED <<current, schemaOpen>>

RenewRecord(u, expiration) ==
    LET r == ReadAttestation(u) IN
    /\ r # Nothing /\ r.revocation_time = 0 /\ ~PastExpiry(r)
    /\ expiration = 0 \/ (r.expiration_time # 0 /\ expiration >= r.expiration_time)
    /\ expiration # 0 => r.valid_from < expiration
    /\ WriteAttestation(u, [r EXCEPT !.expiration_time = expiration])
    /\ UNCHANGED <<anchors, stamped, current, schemaOpen>>

(* remove_attestation, for a record that has expired. *)
RemoveRecord(u) ==
    LET r == ReadAttestation(u) IN
    /\ r # Nothing /\ PastExpiry(r)
    /\ plain' = [plain EXCEPT ![u] = Nothing]
    /\ side' = [side EXCEPT ![u] = Nothing]
    /\ anchors' = [anchors EXCEPT ![u] = [revocation \in BOOLEAN |-> Nothing]]
    /\ truth' = [truth EXCEPT ![u] = Nothing]
    /\ stamped' = [stamped EXCEPT ![u] = {}]
    /\ UNCHANGED <<current, schemaOpen>>

InLegacyLayout(u) == plain[u] # Nothing /\ plain[u].layout = "legacy"

(* Mutant: the compact record is written and valid_from forgotten. *)
MovedValidFrom_Dropped(u) == side[u]

MovedValidFrom(u) ==
    IF plain[u].record.valid_from # 0 THEN plain[u].record.valid_from ELSE side[u]

(* migrate_attestation and migrate_attestations, open to anybody: each     *)
(* record still in the full layout is replaced.                            *)
MigrateAttestations(uids) ==
    /\ plain' = [u \in StoredUids |->
                   IF u \in uids /\ InLegacyLayout(u) THEN Compact(plain[u].record) ELSE plain[u]]
    /\ side' = [u \in StoredUids |->
                   IF u \in uids /\ InLegacyLayout(u) THEN MovedValidFrom(u) ELSE side[u]]
    /\ UNCHANGED <<anchors, current, schemaOpen, truth, stamped>>

CloseLedger(gap) ==
    /\ current.ledger_sequence < MaxSequence
    /\ current' = [ledger_sequence |-> current.ledger_sequence + 1, ledger_timestamp |-> Time + gap]
    /\ UNCHANGED <<plain, side, anchors, schemaOpen, truth, stamped>>

CloseSchema ==
    /\ schemaOpen
    /\ schemaOpen' = FALSE
    /\ UNCHANGED <<plain, side, anchors, current, truth, stamped>>

------------------------------------------------------------------------------
(* The readers.                                                            *)

VerifyAttestationView(u) ==
    LET r == ReadAttestation(u) IN
    /\ r # Nothing
    /\ r.revocation_time = 0
    /\ r.valid_from # 0 => Time >= r.valid_from
    /\ ~PastExpiry(r)

VerifyAttestation(u) == VerifyAttestationView(u)

(* One verdict for each UID; verify_all_attestations stops at the first    *)
(* that fails.  A batch that is too large is refused.                      *)
VerifyAttestations(us) ==
    IF Len(us) > MAX_VERIFY_BATCH THEN Nothing
    ELSE [i \in DOMAIN us |-> VerifyAttestation(us[i])]

VerifyAllAttestations(us) ==
    IF Len(us) > MAX_VERIFY_BATCH THEN Nothing
    ELSE FoldLeft(LAMBDA ok, u : ok /\ VerifyAttestation(u), TRUE, us)

GetValidFrom(u) == IF ReadAttestation(u) = Nothing THEN 0 ELSE ReadAttestation(u).valid_from

CheckClaim(u, claim) ==
    LET issued == anchors[u][FALSE]
        revoked == anchors[u][TRUE]
    IN  /\ issued # Nothing \/ revoked # Nothing
        /\ issued # Nothing /\ revoked # Nothing =>
             /\ revoked.ledger_sequence >= issued.ledger_sequence
             /\ revoked.ledger_timestamp >= issued.ledger_timestamp
        /\ claim.ledger_sequence <= current.ledger_sequence
        /\ claim.ledger_timestamp <= Time
        /\ claim \in {issued, revoked}

VerifyLeaf(u, leaf, proof) ==
    LET r == ReadAttestation(u) IN
    /\ r # Nothing /\ r.data # OtherData
    /\ VerifyAttestation(u)
    /\ VerifyProof(r.data, leaf, proof)

(* verify_offchain_attestation of a signed copy of u, with the right key   *)
(* and signature.  The stored record is read as a full Attestation: the    *)
(* call traps on a compact one.                                            *)
VerifyOffchain(u, copy) ==
    /\ copy.revocation_time = 0
    /\ copy.valid_from # 0 => Time >= copy.valid_from
    /\ ~PastExpiry(copy)
    /\ plain[u] # Nothing => InLegacyLayout(u) /\ plain[u].record.revocation_time = 0
    /\ schemaOpen

------------------------------------------------------------------------------
StorageTimes == 0..(2 * MaxSequence)
AllData == {MerkleRoot(b) : b \in Bundles} \cup {OtherData}

Attestation ==
    [time : Nat, expiration_time : Nat, revocation_time : Nat, valid_from : Nat, data : AllData]
TimestampAnchor == [ledger_sequence : Nat, ledger_timestamp : Nat]

ASSUME NothingAssumption ==
    /\ Nothing \notin Nat /\ Nothing \notin Attestation /\ Nothing \notin TimestampAnchor
    /\ Nothing \notin [layout : {"compact", "legacy"}, record : Attestation]

(* What an earlier version left: full records, without anchors. *)
Inherited ==
    {Legacy([time |-> 0, expiration_time |-> e, revocation_time |-> v, valid_from |-> f, data |-> OtherData]) :
        e \in {0, 3}, v \in {0, 1}, f \in {0, 2}}

StorageInit ==
    /\ plain \in [StoredUids -> {Nothing} \cup Inherited]
    /\ side = [u \in StoredUids |-> Nothing]
    /\ anchors = [u \in StoredUids |-> [revocation \in BOOLEAN |-> Nothing]]
    /\ current = [ledger_sequence |-> 1, ledger_timestamp |-> 1]
    /\ schemaOpen = TRUE
    /\ truth = [u \in StoredUids |-> IF plain[u] = Nothing THEN Nothing ELSE plain[u].record]
    /\ stamped = [u \in StoredUids |-> {}]

StorageNext ==
    \/ \E u \in StoredUids :
         \/ \E e \in {0, 3, 4}, f \in {0, 3}, d \in AllData : IssueRecord(u, e, f, d)
         \/ RevokeRecord(u)
         \/ \E e \in {0, 4, 5} : RenewRecord(u, e)
         \/ RemoveRecord(u)
    \/ \E us \in SUBSET StoredUids : MigrateAttestations(us)
    \/ \E gap \in Gaps : CloseLedger(gap)
    \/ CloseSchema

StorageSpec == StorageInit /\ [][StorageNext]_storageVars

------------------------------------------------------------------------------
(* Properties.                                                             *)

LiveNow(r) ==
    r # Nothing /\ r.revocation_time = 0 /\ r.valid_from <= Time /\ ~PastExpiry(r)

Claimable == [ledger_sequence : StorageTimes, ledger_timestamp : StorageTimes]

(* A signed copy of an attestation is never accepted once the attestation  *)
(* is revoked on chain or its schema deprecated.                           *)
CopiesFollow(u) ==
    \A copy \in {i.record : i \in Inherited} :
      VerifyOffchain(u, copy) =>
        schemaOpen /\ LiveNow(copy) /\ (truth[u] # Nothing => truth[u].revocation_time = 0)

(* Hashes a prover can come up with: those of the trees, and others made   *)
(* of leaves; and what he may call a leaf, the bytes a node hash was made  *)
(* of included.                                                            *)
TreeHashes ==
    UNION {{v[i] : i \in DOMAIN v} : v \in {LevelOf(b, k) : b \in Bundles, k \in 0..MAX_PROOF}}
KnownHashes == TreeHashes \cup {NodeHash(LeafHash(x), LeafHash(y)) : x, y \in Leaves}
KnownProofs == UNION {[1..n -> KnownHashes] : n \in 0..MAX_PROOF}
Disclosable == Leaves \cup {{LeafHash(x), LeafHash(y)} : x, y \in Leaves}

Committed(d) == UNION {{b[i] : i \in DOMAIN b} : b \in {c \in Bundles : MerkleRoot(c) = d}}

(* A leaf is accepted only of a live attestation, and only when it is one  *)
(* of those its data commits to: not of an attestation that is revoked,    *)
(* expired or not yet valid, and never an inner node taken for a leaf.     *)
DisclosuresSound ==
    \A u \in {v \in StoredUids : plain[v] # Nothing}, leaf \in Disclosable, proof \in KnownProofs :
      VerifyLeaf(u, leaf, proof) =>
        LiveNow(truth[u]) /\ truth[u].data # OtherData /\ leaf \in Committed(truth[u].data)

(* Every leaf that a live attestation commits to can be disclosed, also    *)
(* the odd one that a level promotes, with a proof of the largest depth.   *)
DisclosuresComplete ==
    \A u \in {v \in StoredUids : LiveNow(truth[v]) /\ truth[v].data # OtherData} :
      \A leaf \in Committed(truth[u].data) : \E proof \in KnownProofs : VerifyLeaf(u, leaf, proof)

(* Whatever layout a record was written in, however often it was moved,    *)
(* renewed, revoked, pruned and issued again, every reader of the contract *)
(* answers for the attestation that was last meant: its fields and its     *)
(* verdict, alone and in a batch, the ledgers it is anchored to and no     *)
(* other, its signed copies, and the disclosure of its leaves.             *)
ReadersAgree ==
    /\ \A u \in StoredUids :
         /\ ReadAttestation(u) = truth[u]
         /\ VerifyAttestation(u) <=> LiveNow(truth[u])
         /\ truth[u] # Nothing => GetValidFrom(u) = truth[u].valid_from
         /\ \A c \in Claimable \cup stamped[u] : CheckClaim(u, c) <=> c \in stamped[u]
         /\ CopiesFollow(u)
    /\ \A us \in UNION {[1..n -> StoredUids] : n \in 0..MAX_VERIFY_BATCH} :
         VerifyAllAttestations(us) <=> \A i \in DOMAIN us : VerifyAttestations(us)[i]
    /\ DisclosuresSound /\ DisclosuresComplete
==============================================================================
