----------------------------- MODULE ZkVerifier -----------------------------
(***************************************************************************)
(* The ZK verifier (contracts/zk-verifier/src/lib.rs): one-time nullifiers *)
(* and verified commitments, with the storage lifetime that keeps them.    *)
(* The proof's binding hash holds or not (`bound`); SAS answers whether an *)
(* attestation is valid and active at the moment of the call.              *)
(*                                                                         *)
(* An entry lives until its TTL runs out; a call that touches an entry     *)
(* whose TTL is below THRESHOLD extends it to EXTEND_TO ledgers.  All      *)
(* entries are persistent: an expired one is archived, not deleted.  An    *)
(* invocation that touches it fails until somebody restores it, with a TTL *)
(* of MIN_TTL; archival and restoring are the host's (external).           *)
(***************************************************************************)
EXTENDS Naturals, FiniteSets

CONSTANTS
    Nullifiers, Commitments, Attestations,
    THRESHOLD,       \* INSTANCE_TTL_THRESHOLD_LEDGERS
    EXTEND_TO,       \* INSTANCE_EXTEND_TO_LEDGERS
    MIN_TTL,         \* of a new or restored entry
    MAX_ZK_PROOF_AGE_SECONDS,
    MaxLedger        \* bound: last ledger

ASSUME ZkAssumption ==
    /\ IsFiniteSet(Nullifiers) /\ Nullifiers \cap Commitments = {}
    /\ THRESHOLD \in Nat /\ EXTEND_TO \in Nat /\ THRESHOLD < EXTEND_TO
    /\ MIN_TTL \in Nat /\ MAX_ZK_PROOF_AGE_SECONDS \in Nat /\ MaxLedger \in Nat \ {0}

VARIABLES
    ledger,      \* the open ledger, also its timestamp
    configured,  \* Config is set
    instance,    \* ledger until which the contract instance lives
    spent,       \* Nullifier(n): the ledger it lives until, 0 when never spent
    committed,   \* Commitment(c), likewise
    valid,       \* attestations SAS answers TRUE for
    accepts,     \* history: accepted proofs per nullifier
    touched      \* history: the ledger of the last call for each entry

zkAllVars == <<ledger, configured, instance, spent, committed, valid, accepts, touched>>

ZkEntries == Nullifiers \cup Commitments

Until(x) == IF x \in Nullifiers THEN spent[x] ELSE committed[x]

Alive(until) == until >= ledger

(* extend_nullifier_ttl and extend_instance_ttl *)
Extended(until) == IF until - ledger < THRESHOLD THEN ledger + EXTEND_TO ELSE until

ZkVerifierInit ==
    /\ ~configured
    /\ configured' = TRUE
    /\ instance' = Extended(instance)
    /\ UNCHANGED <<ledger, spent, committed, valid, accepts, touched>>

GetConfig ==
    /\ configured /\ Alive(instance)
    /\ instance' = Extended(instance)
    /\ UNCHANGED <<ledger, configured, spent, committed, valid, accepts, touched>>

(* A call can tell whether an entry exists unless it is archived. *)
Readable(until) == until = 0 \/ Alive(until)

(* Mutant: the record is in temporary storage, where it is gone when its   *)
(* TTL has run out.                                                        *)
Consumable_Temporary(n) == ~(spent[n] # 0 /\ Alive(spent[n]))

(* consume_nullifier: the record can be looked for, and is not there. *)
Consumable(n) == Readable(spent[n]) /\ ~(spent[n] # 0 /\ Alive(spent[n]))

(* verify_and_consume_proof.  A proof about no attestation (u = {}) asks   *)
(* SAS nothing.                                                            *)
VerifyAndConsumeProof(n, c, u, timestamp, bound) ==
    /\ configured /\ Alive(instance)
    /\ Consumable(n)
    /\ timestamp <= ledger /\ ledger - timestamp <= MAX_ZK_PROOF_AGE_SECONDS
    /\ bound
    /\ u \subseteq valid
    /\ Readable(committed[c])
    /\ spent' = [spent EXCEPT ![n] = Extended(ledger + MIN_TTL)]
    /\ committed' = [committed EXCEPT ![c] =
                       Extended(IF @ = 0 THEN ledger + MIN_TTL ELSE @)]
    /\ instance' = Extended(instance)
    /\ accepts' = [accepts EXCEPT ![n] = @ + 1]
    /\ touched' = [touched EXCEPT ![n] = ledger, ![c] = ledger]
    /\ UNCHANGED <<ledger, configured, valid>>

(* is_nullifier_used and are_nullifiers_used: reading renews.              *)
AreNullifiersUsed(S) ==
    /\ Alive(instance)
    /\ \A n \in S : Readable(spent[n])
    /\ spent' = [n \in Nullifiers |->
                   IF n \in S /\ spent[n] # 0 THEN Extended(spent[n]) ELSE spent[n]]
    /\ instance' = Extended(instance)
    /\ touched' = [x \in ZkEntries |-> IF x \in S THEN ledger ELSE touched[x]]
    /\ UNCHANGED <<ledger, configured, committed, valid, accepts>>

IsCommitmentVerified(c) ==
    /\ Alive(instance)
    /\ Readable(committed[c])
    /\ committed' = [committed EXCEPT ![c] = IF @ = 0 THEN 0 ELSE Extended(@)]
    /\ instance' = Extended(instance)
    /\ touched' = [touched EXCEPT ![c] = ledger]
    /\ UNCHANGED <<ledger, configured, spent, valid, accepts>>

(* What SAS answers for an attestation changes. *)
SasVerdict(u) ==
    /\ valid' = IF u \in valid THEN valid \ {u} ELSE valid \cup {u}
    /\ UNCHANGED <<ledger, configured, instance, spent, committed, accepts, touched>>

(* Somebody restores an archived entry. *)
Restored(until) == IF Readable(until) THEN until ELSE ledger + MIN_TTL

RestoreFootprint(x) ==
    /\ spent' = [n \in Nullifiers |-> IF n = x THEN Restored(spent[n]) ELSE spent[n]]
    /\ committed' = [c \in Commitments |-> IF c = x THEN Restored(committed[c]) ELSE committed[c]]
    /\ instance' = Restored(instance)
    /\ UNCHANGED <<ledger, configured, valid, accepts, touched>>

ZkTick ==
    /\ ledger < MaxLedger
    /\ ledger' = ledger + 1
    /\ UNCHANGED <<configured, instance, spent, committed, valid, accepts, touched>>

ZkInit ==
    /\ ledger = 1 /\ configured = FALSE
    /\ instance = 1 + EXTEND_TO
    /\ spent = [n \in Nullifiers |-> 0]
    /\ committed = [c \in Commitments |-> 0]
    /\ valid = Attestations
    /\ accepts = [n \in Nullifiers |-> 0]
    /\ touched = [x \in ZkEntries |-> 0]

ZkNext ==
    \/ ZkVerifierInit
    \/ GetConfig
    \/ \E n \in Nullifiers, c \in Commitments, u \in {{}} \cup {{x} : x \in Attestations},
          t \in 0..MaxLedger, b \in BOOLEAN : VerifyAndConsumeProof(n, c, u, t, b)
    \/ \E S \in (SUBSET Nullifiers) \ {{}} : AreNullifiersUsed(S)
    \/ \E c \in Commitments : IsCommitmentVerified(c)
    \/ \E u \in Attestations : SasVerdict(u)
    \/ \E x \in ZkEntries : RestoreFootprint(x)
    \/ ZkTick

ZkSpec == ZkInit /\ [][ZkNext]_zkAllVars

------------------------------------------------------------------------------
(* Properties.                                                             *)

(* A record outlives its TTL or never reaches its end: a nullifier is      *)
(* accepted at most once, though its record is archived and restored any   *)
(* number of times in between; and no record of a nullifier or commitment  *)
(* is archived within THRESHOLD ledgers of the last call for it, so who    *)
(* asks that often is always answered.                                     *)
NullifiersKept ==
    /\ \A n \in Nullifiers : accepts[n] <= 1
    /\ \A x \in ZkEntries : Until(x) # 0 => Until(x) >= touched[x] + THRESHOLD
==============================================================================
