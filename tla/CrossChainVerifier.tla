-------------------------- MODULE CrossChainVerifier --------------------------
(***************************************************************************)
(* The cross-chain verifier (contracts/cross-chain-verifier/src/lib.rs):   *)
(* verdicts about remote attestations, relayed by an Axelar gateway or a   *)
(* LayerZero endpoint, both external.  The source numbers the verdicts of  *)
(* a UID with rising revisions.  Messages are delayed, lost, reordered     *)
(* and, on LayerZero, repeated; an Axelar approval is consumed by the      *)
(* message it approves.                                                    *)
(***************************************************************************)
EXTENDS Naturals, FiniteSets

CONSTANTS
    RemoteUIDs,           \* remote attestations
    Accounts,             \* addresses
    Sources,              \* remote senders (source chain and address)
    Proofs,               \* proof contents of V2 messages
    Absent,               \* no entry
    MAX_VALIDITY_SECONDS,
    MaxClock,             \* bound: last ledger timestamp
    MaxSent               \* bound: messages sent

(* RemoteStatus, with the ledger time it was stored. *)
StatusRec == [revision : Nat, valid : BOOLEAN, valid_until : Nat, at : Nat]

ASSUME RemoteAssumption ==
    /\ IsFiniteSet(RemoteUIDs) /\ Absent \notin Accounts \cup Sources \cup Proofs
    /\ Absent \notin StatusRec
    /\ MAX_VALIDITY_SECONDS \in Nat \ {0}
    /\ MaxClock \in Nat \ {0} /\ MaxSent \in Nat

VARIABLES
    clock,     \* ledger timestamp
    source,    \* Config: the admin and the trusted Axelar source
    endpoint,  \* LzConfig: the trusted LayerZero sender
    lzAdmin,   \* Admin
    status,    \* Status(uid), with the ledger time it was received
    proof,     \* Proof(uid)
    sent,      \* messages the source has sent
    approved,  \* messages whose Axelar approval is not consumed
    accepted   \* history: messages the contract has recorded

remoteVars == <<clock, source, endpoint, lzAdmin, status, proof, sent, approved, accepted>>
remoteConfig == <<source, endpoint, lzAdmin>>

(* decode_status and decode_proof: a message names its UID, revision,      *)
(* verdict and expiry; version 2 carries a proof too (else Absent).        *)
(* Messages of another length, version or flag are refused.                *)
Decoded(u, s, r, v, until, p) ==
    [uid |-> u, from |-> s, revision |-> r, valid |-> v, valid_until |-> until, proof |-> p]

------------------------------------------------------------------------------
RemoteVerifierInit(a, s) ==
    /\ source = Absent
    /\ source' = [admin |-> a, sender |-> s]
    /\ UNCHANGED <<clock, endpoint, lzAdmin, status, proof, sent, approved, accepted>>

(* set_lz_config: the admin of the Axelar binding, else the address that   *)
(* configured LayerZero first.                                             *)
LzOwner(caller) ==
    IF source # Absent THEN source.admin ELSE IF lzAdmin # Absent THEN lzAdmin ELSE caller

SetLzConfig(caller, s) ==
    /\ caller = LzOwner(caller)
    /\ lzAdmin' = caller
    /\ endpoint' = s
    /\ UNCHANGED <<clock, source, status, proof, sent, approved, accepted>>

Validity(m) ==
    /\ m.revision # 0
    /\ IF m.valid
         THEN m.valid_until > clock /\ m.valid_until <= clock + MAX_VALIDITY_SECONDS
         ELSE m.valid_until = 0

Newer(m) == status[m.uid] # Absent => m.revision > status[m.uid].revision

(* Mutant: a message without a proof keeps the proof that is stored. *)
Record_KeepProof(m) ==
    /\ status' = [status EXCEPT ![m.uid] =
                    [revision |-> m.revision, valid |-> m.valid,
                     valid_until |-> m.valid_until, at |-> clock]]
    /\ proof' = [proof EXCEPT ![m.uid] = IF m.proof = Absent THEN @ ELSE m.proof]
    /\ accepted' = accepted \cup {m}

(* The writes of execute and lz_receive. *)
Record(m) ==
    /\ status' = [status EXCEPT ![m.uid] =
                    [revision |-> m.revision, valid |-> m.valid,
                     valid_until |-> m.valid_until, at |-> clock]]
    /\ proof' = [proof EXCEPT ![m.uid] = m.proof]
    /\ accepted' = accepted \cup {m}

(* The gateway consumes the approval in the invocation that records. *)
Execute(m) ==
    /\ source # Absent /\ m.from = source.sender
    /\ Validity(m) /\ Newer(m)
    /\ m \in approved
    /\ approved' = approved \ {m}
    /\ Record(m)
    /\ UNCHANGED <<clock, remoteConfig, sent>>

LzReceive(m) ==
    /\ endpoint # Absent /\ m.from = endpoint
    /\ Validity(m) /\ Newer(m)
    /\ Record(m)
    /\ UNCHANGED <<clock, remoteConfig, sent, approved>>

(* verify_remote, with get_status. *)
VerifyRemote(u) ==
    status[u] # Absent /\ status[u].valid /\ status[u].valid_until > clock

------------------------------------------------------------------------------
(* The source, the gateway and time.                                       *)

Revisions(u, s) == {m.revision : m \in {x \in sent : x.uid = u /\ x.from = s}}

Send(m) ==
    /\ m.revision = Cardinality(Revisions(m.uid, m.from)) + 1
    /\ sent' = sent \cup {m}
    /\ UNCHANGED <<clock, remoteConfig, status, proof, approved, accepted>>

Approve(m) ==
    /\ m \in sent \ approved
    /\ m \notin accepted
    /\ approved' = approved \cup {m}
    /\ UNCHANGED <<clock, remoteConfig, status, proof, sent, accepted>>

RemoteTick ==
    /\ clock < MaxClock
    /\ clock' = clock + 1
    /\ UNCHANGED <<remoteConfig, status, proof, sent, approved, accepted>>

RemoteInit ==
    /\ clock = 1
    /\ source = Absent /\ endpoint = Absent /\ lzAdmin = Absent
    /\ status = [u \in RemoteUIDs |-> Absent]
    /\ proof = [u \in RemoteUIDs |-> Absent]
    /\ sent = {} /\ approved = {} /\ accepted = {}

(* A sender may ask for more validity than the contract grants. *)
SendStep ==
    /\ Cardinality(sent) < MaxSent
    /\ \E u \in RemoteUIDs, s \in Sources, r \in 1..MaxSent, v \in BOOLEAN,
          d \in 1..(MAX_VALIDITY_SECONDS + 1), p \in Proofs \cup {Absent} :
         Send(Decoded(u, s, r, v, IF v THEN clock + d ELSE 0, p))

RemoteNext ==
    \/ \E a \in Accounts, s \in Sources : RemoteVerifierInit(a, s)
    \/ \E a \in Accounts, s \in Sources : SetLzConfig(a, s)
    \/ SendStep
    \/ \E m \in sent : Approve(m)
    \/ \E m \in sent : Execute(m)
    \/ \E m \in sent : LzReceive(m)
    \/ RemoteTick

RemoteSpec == RemoteInit /\ [][RemoteNext]_remoteVars

------------------------------------------------------------------------------
(* Properties.                                                             *)

(* What consumers read of a remote attestation is the newest verdict that  *)
(* arrived, whatever transport and order brought it: the stored status is  *)
(* the accepted message of highest revision, the stored proof is the one   *)
(* of that very message ("A newer status-only update must not leave older  *)
(* proof data looking current"), and a positive answer of verify_remote    *)
(* is never older than MAX_VALIDITY_SECONDS ("an old approved message must *)
(* not grant indefinite trust").                                           *)
RemoteVerdictCurrent ==
    \A u \in RemoteUIDs :
      LET got == {m \in accepted : m.uid = u}
      IN  /\ status[u] = Absent <=> got = {}
          /\ got # {} => \E m \in got : m.revision = status[u].revision /\ m.proof = proof[u]
          /\ \A m \in got : m.revision <= status[u].revision
          /\ VerifyRemote(u) => clock < status[u].at + MAX_VALIDITY_SECONDS
==============================================================================
