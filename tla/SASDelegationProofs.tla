------------------------- MODULE SASDelegationProofs -------------------------
(***************************************************************************)
(* Theorems about the delegated operations (SASDelegation).                *)
(*                                                                         *)
(* Replay protection rests on the invariant Watermarked: everything that   *)
(* was ever accepted or invalidated lies at or below the stored watermark. *)
(* Key retirement rests on KeysApart: the active key is not a retired one. *)
(* Neither needs the store; what delegation does to the store is settled   *)
(* by the refinement of SASCore.                                           *)
(***************************************************************************)
EXTENDS SASDelegation, SASCoreProofs

------------------------------------------------------------------------------
(* Refinement: what a delegated step does to the store.                    *)

(* With no fee switch in the instance no per-byte fee is ever active. *)
NoFee == ~fee_per_byte

(* A set of the values of a sequence. *)
LEMMA BatchValues ==
    ASSUME NEW n \in 2..MaxBatch, NEW T, NEW f \in [1..n -> T]
    PROVE  {f[i] : i \in DOMAIN f} \in (SUBSET T) \ {{}}
  <1>1. DOMAIN f = 1..n /\ 1 \in 1..n
    BY CoreAssumption
  <1> QED
    BY <1>1

(* A delegated call does to the store what the direct call does. *)
LEMMA SignedStepImplements ==
    ASSUME NoFee, SignedStep
    PROVE  Next
  <1>1. ASSUME NEW a \in Attestation, NEW n, NEW k, AttestByDelegation(a, n, k)
        PROVE  Next
    BY <1>1 DEF AttestByDelegation, Next, IssueStep, Attest
  <1>2. ASSUME NEW a \in Attestation, NEW n, NEW k, NEW p,
               AttestByScopedDelegation(a, n, k, p)
        PROVE  Next
    BY <1>2 DEF AttestByScopedDelegation, Next, IssueStep, Attest
  <1>3. ASSUME NEW n \in 2..MaxBatch, NEW batch \in [1..n -> Attestation], NEW ns, NEW ks,
               MultiAttestByDelegation(batch, ns, ks)
        PROVE  Next
    <2>1. MultiAttest(batch)
      BY <1>3 DEF MultiAttestByDelegation, MultiAttest
    <2> QED
      BY <2>1 DEF Next, IssueStep
  <1>4. ASSUME NEW u \in UIDs, NEW n, NEW k, RevokeByDelegation(u, n, k)
        PROVE  Next
    BY <1>4 DEF RevokeByDelegation, Next, RevokeStep, Revoke
  <1>5. ASSUME NEW n \in 2..MaxBatch, NEW uids \in [1..n -> UIDs], NEW ns, NEW ks,
               MultiRevokeByDelegation(uids, ns, ks)
        PROVE  Next
    <2> DEFINE S == {uids[i] : i \in DOMAIN uids}
    <2>1. S \in (SUBSET UIDs) \ {{}}
      BY <1>5, BatchValues
    <2>2. MultiRevoke(S)
      BY <1>5 DEF MultiRevokeByDelegation, MultiRevoke
    <2> QED
      BY <2>1, <2>2 DEF Next, RevokeStep
  <1>6. ASSUME NEW old \in UIDs, NEW new \in {a \in Attestation : a.ref_uid = NoRef},
               NEW na, NEW ka, NEW nr, NEW kr,
               ReplaceByDelegationConsent(old, new, na, ka, nr, kr)
        PROVE  Next
    <2>1. ReplaceAttestation(old, new)
      BY <1>6 DEF ReplaceByDelegationConsent, ReplaceAttestation, FeeDue, NoFee
    <2> QED
      BY <2>1 DEF Next, AmendStep
  <1> QED
    BY <1>1, <1>2, <1>3, <1>4, <1>5, <1>6 DEF SignedStep

(* Every step of the contract is a step of SASCore or leaves it alone. *)
LEMMA StepImplements ==
    ASSUME NoFee, [DelegationNext]_allVars
    PROVE  [Next]_coreVars
  <1>1. ASSUME NonceStep \/ KeyStep \/ SetZkVerifier
        PROVE  UNCHANGED coreVars
    BY <1>1 DEF NonceStep, KeyStep, InvalidateNonces, SetNonceHighwaterMark,
       InvalidateNoncesByDelegation, restOfInvalidation, RegisterAttesterKey,
       RotateAttesterKey, RevokeAttesterKey, restOfKeys, SetDelegationPolicy,
       SetSchemaFrostGroup, SetZkVerifier
  <1>2. ASSUME NEW a \in Attestation, NEW z, AttestWithZk(a, z)
        PROVE  Next
    BY <1>2 DEF AttestWithZk, Next, IssueStep, Attest
  <1>3. ASSUME UNCHANGED allVars
        PROVE  UNCHANGED coreVars
    BY <1>3 DEF allVars
  <1> QED
    BY <1>1, <1>2, <1>3, SignedStepImplements DEF DelegationNext, ZkStep, DirectStep

(* Delegation adds no behaviour to the store.  In an instance whose admin  *)
(* never sets a per-byte fee every delegated call, whoever relays it, is a *)
(* step some direct call could have taken, so every theorem about SASCore  *)
(* is one about the contract with delegation.                              *)
THEOREM DelegationImplementsCore ==
    ASSUME "fee" \notin AdminOps
    PROVE  DelegationSpec => ImplementsCore
  <1>1. DelegationInit => Init /\ NoFee
    BY DEF DelegationInit, Init, NoFee
  <1>2. NoFee /\ [Next]_coreVars => NoFee'
    <2> SUFFICES ASSUME [Next]_coreVars PROVE fee_per_byte' = fee_per_byte
      BY DEF NoFee
    <2> USE DEF Commit, adminVars
    <2>1. IssueStep => fee_per_byte' = fee_per_byte
      <3>1. \A a : Attest(a) => fee_per_byte' = fee_per_byte
        BY DEF Attest
      <3>2. \A batch : MultiAttest(batch) => fee_per_byte' = fee_per_byte
        BY DEF MultiAttest
      <3>3. \A items : BroadcastAttest(items) => fee_per_byte' = fee_per_byte
        BY DEF BroadcastAttest
      <3> QED
        BY <3>1, <3>2, <3>3 DEF IssueStep
    <2>2. RevokeStep => fee_per_byte' = fee_per_byte
      BY DEF RevokeStep, Revoke, RevokeByAuthorizer, MultiRevoke, RevokeBySchema
    <2>3. AmendStep => fee_per_byte' = fee_per_byte
      BY DEF AmendStep, ReplaceAttestation, ReplaceInternal, RenewAttestation, PruneExpired
    <2>4. AdminStep \/ EnvStep => fee_per_byte' = fee_per_byte
      BY DEF AdminStep, EnvStep, SetPaused, SetAutoPrune, SetIssuanceRateLimit,
         SetRateLimitExempt, SetFeePerByte, SetSchemaZeroFee, RegistryChange, CloseLedger
    <2> QED
      BY <2>1, <2>2, <2>3, <2>4 DEF Next, coreVars
  <1>3. NoFee /\ [DelegationNext]_allVars => [Next]_coreVars
    BY StepImplements
  <1> QED
    BY <1>1, <1>2, <1>3, PTL DEF DelegationSpec, ImplementsCore, Spec

(* So delegated issuance is bound by the quota of its attester: relaying   *)
(* signed messages, in whatever order and by whatever submitter, gets      *)
(* nobody past the sliding window.                                         *)
THEOREM DelegatedQuota ==
    ASSUME "fee" \notin AdminOps
    PROVE  DelegationSpec => []RateBound
  BY DelegationImplementsCore, RateBoundCorrect, PTL DEF ImplementsCore

(* And no mix of direct, delegated and zero-knowledge issuance closes a    *)
(* cycle of references, while auto-pruning is off.                         *)
THEOREM DelegatedRefsAcyclic ==
    ASSUME "fee" \notin AdminOps
    PROVE  DelegationSpec /\ []~auto_prune => []RefsAcyclic
  BY DelegationImplementsCore, RefsAcyclicCorrect, PTL DEF ImplementsCore

------------------------------------------------------------------------------
(* Replay protection.                                                      *)

(* Everything accepted or invalidated lies at or below the watermark. *)
NoncesMarked ==
    \A x \in Addrs, n \in Nonces :
        spent[x][n] <= 1 /\ (spent[x][n] # 0 => n <= nonce[x])

ConsentsMarked ==
    \A x \in Addrs, n \in Nonces :
        consented[x][n] <= 1 /\ (consented[x][n] # 0 => n <= consent[x])

InvalidMarked == \A x \in Addrs : \A n \in invalidated[x] : n <= nonce[x]

ProofsMarked ==
    \A z \in Nullifiers : proved[z] <= 1 /\ (proved[z] # 0 => z \in nullifiers)

Watermarked == NoncesMarked /\ ConsentsMarked /\ InvalidMarked /\ ProofsMarked

DelegationInv == DelegationTypeOK /\ Watermarked

MsgRec == [attester : Addrs, nonce : Nonces, key : Keys]

(* What consuming a sequence of fresh messages does to the watermarks and  *)
(* the counts: watermarks only grow, and a nonce is counted once more only *)
(* if it lies above the old watermark and not above the new one.           *)
LEMMA ConsumeFacts ==
    ASSUME DelegationTypeOK, NEW m \in Nat, NEW ms \in [1..m -> MsgRec], Fresh(ms)
    PROVE  /\ Watermark(ms) \in [Addrs -> Nonces \cup {NoNonce}]
           /\ Spend(ms) \in [Addrs -> [Nonces -> Nat]]
           /\ Signed(ms) \in [Addrs -> SUBSET Keys]
           /\ \A x \in Addrs : Watermark(ms)[x] >= nonce[x]
           /\ \A x \in Addrs, n \in Nonces :
                 \/ Spend(ms)[x][n] = spent[x][n]
                 \/ /\ Spend(ms)[x][n] = spent[x][n] + 1
                    /\ n > nonce[x]
                    /\ n <= Watermark(ms)[x]
  <1>0. /\ \A x \in Addrs : nonce[x] \in Nonces \cup {NoNonce}
        /\ \A x \in Addrs, n \in Nonces : spent[x][n] \in Nat
        /\ \A x \in Addrs : signers[x] \in SUBSET Keys
        /\ Nonces \subseteq Nat /\ NoNonce \in Int
        /\ DOMAIN ms = 1..m
        /\ \A i \in 1..m : /\ ms[i].attester \in Addrs /\ ms[i].nonce \in Nonces
                           /\ ms[i].key \in Keys
    <2>1. /\ \A x \in Addrs : nonce[x] \in Nonces \cup {NoNonce}
          /\ \A x \in Addrs, n \in Nonces : spent[x][n] \in Nat
          /\ \A x \in Addrs : signers[x] \in SUBSET Keys
      BY DEF DelegationTypeOK
    <2>2. Nonces \subseteq Nat /\ NoNonce \in Int
      BY DelegationAssumption DEF Nonces, NoNonce
    <2>3. /\ DOMAIN ms = 1..m
          /\ \A i \in 1..m : /\ ms[i].attester \in Addrs /\ ms[i].nonce \in Nonces
                             /\ ms[i].key \in Keys
      BY DEF MsgRec
    <2> QED
      BY <2>1, <2>2, <2>3
  <1>1. ASSUME NEW x \in Addrs
        PROVE  /\ Watermark(ms)[x] \in Nonces \cup {NoNonce}
               /\ Watermark(ms)[x] >= nonce[x]
               /\ \A i \in MsgsOf(x, ms) : ms[i].nonce <= Watermark(ms)[x]
    <2> DEFINE I == MsgsOf(x, ms)
               l == CHOOSE i \in I : \A j \in I : j <= i
    <2>1. I \subseteq 1..m
      BY <1>0 DEF MsgsOf
    <2>2. CASE I = {}
      BY <1>0, <2>2 DEF Watermark
    <2>3. CASE I # {}
      <3>1. l \in I /\ \A j \in I : j <= l
        BY <2>1, <2>3, LastPosition
      <3>2. Watermark(ms)[x] = ms[l].nonce
        BY <2>3 DEF Watermark
      <3> HIDE DEF l
      <3>3. ms[l].attester = x /\ ms[l].nonce \in Nonces /\ l \in 1..m
        BY <2>1, <3>1, <1>0 DEF MsgsOf
      <3>4. ms[l].nonce > nonce[x]
        BY <3>3, <1>0 DEF Fresh
      <3>5. ASSUME NEW i \in I PROVE ms[i].nonce <= ms[l].nonce
        <4>1. i \in 1..m /\ ms[i].attester = x /\ i <= l /\ ms[i].nonce \in Nonces
          BY <2>1, <3>1, <1>0 DEF MsgsOf
        <4>2. i < l => ms[i].nonce < ms[l].nonce
          BY <4>1, <3>3, <1>0 DEF Fresh
        <4>3. ms[i].nonce \in Nat /\ ms[l].nonce \in Nat
          BY <4>1, <3>3, <1>0
        <4> QED
          BY <4>1, <4>2, <4>3, <3>3
      <3>6. nonce[x] \in Int /\ ms[l].nonce \in Int
        <4>1. nonce[x] \in Nonces \cup {NoNonce}
          BY <1>0
        <4>2. Nonces \subseteq Int /\ NoNonce \in Int
          BY <1>0
        <4> QED
          BY <4>1, <4>2, <3>3
      <3>7. ms[l].nonce >= nonce[x]
        BY <3>4, <3>6
      <3> QED
        BY <3>2, <3>3, <3>5, <3>7
    <2> QED
      BY <2>2, <2>3
  <1>2. ASSUME NEW x \in Addrs, NEW n \in Nonces
        PROVE  /\ Spend(ms)[x][n] \in Nat
               /\ \/ Spend(ms)[x][n] = spent[x][n]
                  \/ /\ Spend(ms)[x][n] = spent[x][n] + 1
                     /\ n > nonce[x]
                     /\ n <= Watermark(ms)[x]
    <2> DEFINE J == {i \in MsgsOf(x, ms) : ms[i].nonce = n}
    <2>1. Spend(ms)[x][n] = spent[x][n] + Cardinality(J)
      BY DEF Spend
    <2>2. CASE J = {}
      <3>1. Cardinality(J) = 0
        BY <2>2, FS_EmptySet
      <3> QED
        BY <2>1, <3>1, <1>0
    <2>3. CASE J # {}
      <3>1. PICK i \in J : TRUE
        BY <2>3
      <3>2. i \in 1..m /\ ms[i].attester = x /\ ms[i].nonce = n /\ i \in MsgsOf(x, ms)
        BY <3>1, <1>0 DEF MsgsOf
      <3>3. ASSUME NEW j \in J, j # i PROVE FALSE
        <4>1. j \in 1..m /\ ms[j].attester = x /\ ms[j].nonce = n
          BY <1>0 DEF MsgsOf
        <4>2. i < j \/ j < i
          BY <3>2, <3>3, <4>1
        <4> QED
          BY <3>2, <4>1, <4>2, <1>0 DEF Fresh
      <3>4. J = {i}
        BY <3>1, <3>3
      <3>5. Cardinality(J) = 1
        BY <3>4, FS_Singleton
      <3>6. n > nonce[x]
        BY <3>2, <1>0 DEF Fresh
      <3>7. n <= Watermark(ms)[x]
        BY <3>2, <1>1
      <3> QED
        BY <2>1, <3>5, <3>6, <3>7, <1>0
    <2> QED
      BY <2>2, <2>3
  <1>3. Watermark(ms) \in [Addrs -> Nonces \cup {NoNonce}]
    BY <1>1 DEF Watermark
  <1>4. Spend(ms) \in [Addrs -> [Nonces -> Nat]]
    BY <1>2 DEF Spend
  <1>5. Signed(ms) \in [Addrs -> SUBSET Keys]
    BY <1>0 DEF Signed, MsgsOf
  <1> QED
    BY <1>1, <1>2, <1>3, <1>4, <1>5

(* Watermarks that only move up, past what was consumed, keep the marks. *)
LEMMA NonceMarks ==
    ASSUME DelegationInv, NEW m \in Nat, NEW ms \in [1..m -> MsgRec], Fresh(ms),
           spent' = Spend(ms), nonce' \in [Addrs -> Nonces \cup {NoNonce}],
           \A x \in Addrs : nonce'[x] >= Watermark(ms)[x],
           invalidated' = invalidated
    PROVE  NoncesMarked' /\ InvalidMarked'
  <1>0. /\ \A x \in Addrs : nonce[x] \in Int /\ nonce'[x] \in Int
        /\ \A x \in Addrs, n \in Nonces : spent[x][n] \in Nat
        /\ \A x \in Addrs : invalidated[x] \subseteq Nonces
        /\ Nonces \subseteq Nat
    <2>1. Nonces \subseteq Nat /\ NoNonce \in Int
      BY DelegationAssumption DEF Nonces, NoNonce
    <2>2. /\ nonce \in [Addrs -> Nonces \cup {NoNonce}]
          /\ spent \in [Addrs -> [Nonces -> Nat]]
          /\ invalidated \in [Addrs -> SUBSET Nonces]
      BY DEF DelegationInv, DelegationTypeOK
    <2>3. \A x \in Addrs : nonce[x] \in Nonces \cup {NoNonce} /\ nonce'[x] \in Nonces \cup {NoNonce}
      BY <2>2
    <2>4. \A v \in Nonces \cup {NoNonce} : v \in Int
      BY <2>1
    <2> QED
      BY <2>1, <2>2, <2>3, <2>4
  <1>1. /\ \A x \in Addrs : Watermark(ms)[x] \in Int /\ Watermark(ms)[x] >= nonce[x]
        /\ \A x \in Addrs, n \in Nonces :
              \/ spent'[x][n] = spent[x][n]
              \/ /\ spent'[x][n] = spent[x][n] + 1
                 /\ n > nonce[x]
                 /\ n <= Watermark(ms)[x]
    <2>1. Nonces \subseteq Nat /\ NoNonce \in Int
      BY DelegationAssumption DEF Nonces, NoNonce
    <2>2. \A v \in Nonces \cup {NoNonce} : v \in Int
      BY <2>1
    <2>3. /\ Watermark(ms) \in [Addrs -> Nonces \cup {NoNonce}]
          /\ \A x \in Addrs : Watermark(ms)[x] >= nonce[x]
          /\ \A x \in Addrs, n \in Nonces :
                \/ spent'[x][n] = spent[x][n]
                \/ /\ spent'[x][n] = spent[x][n] + 1
                   /\ n > nonce[x]
                   /\ n <= Watermark(ms)[x]
      BY ConsumeFacts DEF DelegationInv
    <2>4. \A x \in Addrs : Watermark(ms)[x] \in Int
      BY <2>2, <2>3
    <2> QED
      BY <2>3, <2>4
  <1>2. \A x \in Addrs : nonce'[x] >= nonce[x]
    BY <1>0, <1>1
  <1>3. ASSUME NEW x \in Addrs, NEW n \in Nonces
        PROVE  spent'[x][n] <= 1 /\ (spent'[x][n] # 0 => n <= nonce'[x])
    <2>0. spent[x][n] <= 1 /\ (spent[x][n] # 0 => n <= nonce[x])
      BY DEF DelegationInv, Watermarked, NoncesMarked
    <2>1. n \in Nat /\ nonce[x] \in Int /\ nonce'[x] \in Int /\ nonce'[x] >= nonce[x]
          /\ spent[x][n] \in Nat
      BY <1>0, <1>2
    <2>2. CASE spent'[x][n] = spent[x][n]
      BY <2>0, <2>1, <2>2
    <2>3. CASE spent'[x][n] = spent[x][n] + 1 /\ n > nonce[x] /\ n <= Watermark(ms)[x]
      <3>1. spent[x][n] = 0
        BY <2>0, <2>1, <2>3
      <3>2. n <= nonce'[x]
        BY <2>1, <2>3, <1>1
      <3> QED
        BY <2>3, <3>1, <3>2
    <2> QED
      BY <1>1, <2>2, <2>3
  <1>4. ASSUME NEW x \in Addrs, NEW n \in invalidated[x] PROVE n <= nonce'[x]
    <2>1. n <= nonce[x] /\ n \in Nat
      BY <1>0, <1>4 DEF DelegationInv, Watermarked, InvalidMarked
    <2> QED
      BY <2>1, <1>0, <1>2
  <1> QED
    BY <1>3, <1>4 DEF NoncesMarked, InvalidMarked

(* One message moves its attester's watermark to its nonce. *)
LEMMA SingleMessage ==
    ASSUME NEW x \in Addrs, NEW n \in Nonces, NEW k \in Keys
    PROVE  /\ <<Msg(x, n, k)>> \in [1..1 -> MsgRec]
           /\ \A y \in Addrs : Watermark(<<Msg(x, n, k)>>)[y] = IF y = x THEN n ELSE nonce[y]
  <1> DEFINE ms == <<Msg(x, n, k)>>
  <1>1. DOMAIN ms = {1} /\ ms[1] = Msg(x, n, k) /\ ms \in [1..1 -> MsgRec]
    BY DEF MsgRec, Msg
  <1>2. ms[1].attester = x /\ ms[1].nonce = n
    BY <1>1 DEF Msg
  <1> HIDE DEF ms
  <1>3. ASSUME NEW y \in Addrs
        PROVE  Watermark(ms)[y] = IF y = x THEN n ELSE nonce[y]
    <2>1. CASE y = x
      <3>1. MsgsOf(y, ms) = {1}
        BY <1>1, <1>2, <2>1 DEF MsgsOf
      <3>2. (CHOOSE i \in {1} : \A j \in {1} : j <= i) = 1
        OBVIOUS
      <3> QED
        BY <1>2, <2>1, <3>1, <3>2 DEF Watermark
    <2>2. CASE y # x
      <3>1. MsgsOf(y, ms) = {}
        BY <1>1, <1>2, <2>2 DEF MsgsOf
      <3> QED
        BY <2>2, <3>1 DEF Watermark
    <2> QED
      BY <2>1, <2>2
  <1> QED
    BY <1>1, <1>3 DEF ms
(* A call that consumes messages and leaves the rest of the delegation     *)
(* state alone keeps the invariant.                                        *)
LEMMA ConsumePreserves ==
    ASSUME DelegationInv, NEW m \in Nat, NEW ms \in [1..m -> MsgRec],
           Consume(ms), UNCHANGED restOfDelegation
    PROVE  DelegationInv'
  <1>1. /\ Fresh(ms) /\ nonce' = Watermark(ms) /\ spent' = Spend(ms)
        /\ signers' = Signed(ms)
        /\ UNCHANGED <<consent, consented, keys, retired, policy, group, zk_verifier,
                       nullifiers, proved, invalidated>>
    BY DEF Consume, restOfDelegation, keyVars, zkVars
  <1>2. /\ nonce' \in [Addrs -> Nonces \cup {NoNonce}]
        /\ spent' \in [Addrs -> [Nonces -> Nat]]
        /\ signers' \in [Addrs -> SUBSET Keys]
    BY <1>1, ConsumeFacts DEF DelegationInv
  <1>3. DelegationTypeOK'
    BY <1>1, <1>2 DEF DelegationInv, DelegationTypeOK
  <1>4. \A x \in Addrs : nonce'[x] >= Watermark(ms)[x]
    <2>1. \A v \in Nonces \cup {NoNonce} : v \in Int
      BY DelegationAssumption DEF Nonces, NoNonce
    <2>2. \A x \in Addrs : nonce'[x] \in Int /\ nonce'[x] = Watermark(ms)[x]
      BY <1>1, <1>2, <2>1
    <2> QED
      BY <2>2
  <1>5. NoncesMarked' /\ InvalidMarked'
    BY <1>1, <1>2, <1>4, NonceMarks
  <1>6. ConsentsMarked' /\ ProofsMarked'
    BY <1>1 DEF DelegationInv, Watermarked, ConsentsMarked, ProofsMarked
  <1> QED
    BY <1>3, <1>5, <1>6 DEF DelegationInv, Watermarked

(* The parties of a claim are addresses. *)
LEMMA ClaimParties ==
    ASSUME NEW u \in UIDs
    PROVE  u.attester \in Addrs /\ u.recipient \in Addrs
  BY CoreAssumption DEF Claim

(* The UID of an issuing call's argument is one of the claims. *)
LEMMA AttestationUid ==
    ASSUME NEW a \in Attestation
    PROVE  a.uid \in UIDs
  BY DEF Attestation

(* Every signed call keeps the invariant. *)
LEMMA SignedPreserves ==
    ASSUME DelegationInv, SignedStep
    PROVE  DelegationInv'
  <1>1. ASSUME NEW x \in Addrs, NEW n \in Nonces, NEW k \in Keys,
               Consume(<<Msg(x, n, k)>>), UNCHANGED restOfDelegation
        PROVE  DelegationInv'
    BY <1>1, SingleMessage, ConsumePreserves
  <1>2. ASSUME NEW a \in Attestation, NEW n \in Nonces, NEW k \in Keys,
               \/ AttestByDelegation(a, n, k)
               \/ \E p \in Scopes : AttestByScopedDelegation(a, n, k, p)
        PROVE  DelegationInv'
    <2>1. a.uid.attester \in Addrs
      BY AttestationUid, ClaimParties
    <2> QED
      BY <1>1, <1>2, <2>1 DEF AttestByDelegation, AttestByScopedDelegation
  <1>3. ASSUME NEW n \in 2..MaxBatch, NEW batch \in [1..n -> Attestation],
               NEW ns \in [1..n -> Nonces], NEW ks \in [1..n -> Keys],
               MultiAttestByDelegation(batch, ns, ks)
        PROVE  DelegationInv'
    <2> DEFINE ms == [i \in DOMAIN batch |-> Msg(batch[i].uid.attester, ns[i], ks[i])]
    <2>1. \A i \in 1..n : batch[i].uid.attester \in Addrs
      BY AttestationUid, ClaimParties
    <2>2. ms \in [1..n -> MsgRec]
      BY <2>1 DEF MsgRec, Msg
    <2>3. Consume(ms) /\ UNCHANGED restOfDelegation
      BY <1>3 DEF MultiAttestByDelegation
    <2>4. n \in Nat
      BY CoreAssumption
    <2> HIDE DEF ms
    <2> QED
      BY <2>2, <2>3, <2>4, ConsumePreserves
  <1>4. ASSUME NEW u \in UIDs, NEW n \in Nonces, NEW k \in Keys, RevokeByDelegation(u, n, k)
        PROVE  DelegationInv'
    BY <1>1, <1>4, ClaimParties DEF RevokeByDelegation
  <1>5. ASSUME NEW n \in 2..MaxBatch, NEW uids \in [1..n -> UIDs],
               NEW ns \in [1..n -> Nonces], NEW ks \in [1..n -> Keys],
               MultiRevokeByDelegation(uids, ns, ks)
        PROVE  DelegationInv'
    <2> DEFINE ms == [i \in DOMAIN uids |-> Msg(uids[i].attester, ns[i], ks[i])]
    <2>1. \A i \in 1..n : uids[i].attester \in Addrs
      BY ClaimParties
    <2>2. ms \in [1..n -> MsgRec]
      BY <2>1 DEF MsgRec, Msg
    <2>3. Consume(ms) /\ UNCHANGED restOfDelegation
      BY <1>5 DEF MultiRevokeByDelegation
    <2>4. n \in Nat
      BY CoreAssumption
    <2> HIDE DEF ms
    <2> QED
      BY <2>2, <2>3, <2>4, ConsumePreserves
  <1>6. ASSUME NEW old \in UIDs, NEW new, NEW na \in Nonces, NEW ka \in Keys,
               NEW nr \in Nonces, NEW kr \in Keys,
               ReplaceByDelegationConsent(old, new, na, ka, nr, kr)
        PROVE  DelegationInv'
    <2> DEFINE x == old.attester
               r == old.recipient
               ms == <<Msg(x, na, ka)>>
    <2>1. /\ Fresh(ms) /\ nonce' = Watermark(ms) /\ spent' = Spend(ms)
          /\ nr > consent[r]
          /\ consent' = [consent EXCEPT ![r] = nr]
          /\ consented' = [consented EXCEPT ![r][nr] = @ + 1]
          /\ signers' = [signers EXCEPT ![x] = {ka}, ![r] = {kr}]
          /\ UNCHANGED <<keys, retired, policy, group, zk_verifier, nullifiers, proved,
                         invalidated>>
      BY <1>6 DEF ReplaceByDelegationConsent, ConsumeRecipientConsentNonce, restOfDelegation, keyVars, zkVars
    <2>2. x \in Addrs /\ r \in Addrs
      BY ClaimParties
    <2>3. ms \in [1..1 -> MsgRec]
      BY <2>2, SingleMessage
    <2> HIDE DEF x, r, ms
    <2>4. nonce' \in [Addrs -> Nonces \cup {NoNonce}] /\ spent' \in [Addrs -> [Nonces -> Nat]]
      BY <2>1, <2>3, ConsumeFacts DEF DelegationInv
    <2>5. /\ consent \in [Addrs -> Nonces \cup {NoNonce}]
          /\ consented \in [Addrs -> [Nonces -> Nat]]
          /\ signers \in [Addrs -> SUBSET Keys]
      BY DEF DelegationInv, DelegationTypeOK
    <2>6. /\ consent' \in [Addrs -> Nonces \cup {NoNonce}]
          /\ consented' \in [Addrs -> [Nonces -> Nat]]
          /\ signers' \in [Addrs -> SUBSET Keys]
      BY <2>1, <2>2, <2>5
    <2>7. DelegationTypeOK'
      BY <2>1, <2>4, <2>6 DEF DelegationInv, DelegationTypeOK
    <2>8. \A v \in Nonces \cup {NoNonce} : v \in Int
      BY DelegationAssumption DEF Nonces, NoNonce
    <2>9. NoncesMarked' /\ InvalidMarked'
      <3>1. \A y \in Addrs : nonce'[y] >= Watermark(ms)[y]
        BY <2>1, <2>4, <2>8
      <3> QED
        BY <2>1, <2>3, <2>4, <3>1, NonceMarks
    <2>10. ConsentsMarked'
      <3> SUFFICES ASSUME NEW y \in Addrs, NEW n \in Nonces
                   PROVE  consented'[y][n] <= 1 /\ (consented'[y][n] # 0 => n <= consent'[y])
        BY DEF ConsentsMarked
      <3>1. /\ consented[y][n] <= 1 /\ (consented[y][n] # 0 => n <= consent[y])
            /\ consented[y][n] \in Nat /\ consent[y] \in Int /\ n \in Int /\ nr \in Int
        BY <2>5, <2>8 DEF DelegationInv, Watermarked, ConsentsMarked
      <3>2. CASE y # r
        BY <2>1, <2>2, <2>5, <3>1, <3>2
      <3>3. CASE y = r /\ n = nr
        BY <2>1, <2>2, <2>5, <3>1, <3>3
      <3>4. CASE y = r /\ n # nr
        BY <2>1, <2>2, <2>5, <3>1, <3>4
      <3> QED
        BY <3>2, <3>3, <3>4
    <2>11. ProofsMarked'
      BY <2>1 DEF DelegationInv, Watermarked, ProofsMarked
    <2> QED
      BY <2>7, <2>9, <2>10, <2>11 DEF DelegationInv, Watermarked
  <1> QED
    BY <1>2, <1>3, <1>4, <1>5, <1>6 DEF SignedStep

(* Invalidating nonces keeps the invariant: the watermark moves up. *)
LEMMA NoncePreserves ==
    ASSUME DelegationInv, NonceStep
    PROVE  DelegationInv'
  <1>0. /\ \A v \in Nonces \cup {NoNonce} : v \in Int
        /\ nonce \in [Addrs -> Nonces \cup {NoNonce}]
        /\ spent \in [Addrs -> [Nonces -> Nat]]
        /\ invalidated \in [Addrs -> SUBSET Nonces]
        /\ signers \in [Addrs -> SUBSET Keys]
        /\ Delegators \subseteq Addrs
    <2>1. \A v \in Nonces \cup {NoNonce} : v \in Int
      BY DelegationAssumption DEF Nonces, NoNonce
    <2> QED
      BY <2>1, DelegationAssumption DEF DelegationInv, DelegationTypeOK
  <1>1. ASSUME NEW x \in Addrs, NEW max \in Nonces, NEW R \in SUBSET Nonces,
               nonce' = [nonce EXCEPT ![x] = max],
               invalidated' = [invalidated EXCEPT ![x] = @ \cup R],
               \A n \in R : n <= max,
               max >= nonce[x],
               NoncesMarked', spent' \in [Addrs -> [Nonces -> Nat]],
               signers' \in [Addrs -> SUBSET Keys],
               UNCHANGED restOfInvalidation
        PROVE  DelegationInv'
    <2>1. UNCHANGED <<consent, consented, keys, retired, policy, group, zk_verifier,
                      nullifiers, proved>>
      BY <1>1 DEF restOfInvalidation, keyVars, zkVars
    <2>2. /\ nonce' \in [Addrs -> Nonces \cup {NoNonce}]
          /\ invalidated' \in [Addrs -> SUBSET Nonces]
      BY <1>0, <1>1
    <2>3. DelegationTypeOK'
      BY <1>1, <2>1, <2>2 DEF DelegationInv, DelegationTypeOK
    <2>4. InvalidMarked'
      <3> SUFFICES ASSUME NEW y \in Addrs, NEW n \in invalidated'[y] PROVE n <= nonce'[y]
        BY DEF InvalidMarked
      <3>1. CASE y # x
        BY <1>0, <1>1, <3>1 DEF DelegationInv, Watermarked, InvalidMarked
      <3>2. CASE y = x /\ n \in R
        BY <1>0, <1>1, <3>2
      <3>3. CASE y = x /\ n \in invalidated[x]
        <4>1. n <= nonce[x]
          BY <3>3 DEF DelegationInv, Watermarked, InvalidMarked
        <4>2. n \in Nonces /\ nonce[x] \in Nonces \cup {NoNonce} /\ nonce'[y] = max
          BY <1>0, <1>1, <3>3
        <4>3. n \in Int /\ nonce[x] \in Int /\ max \in Int
          BY <4>2, <1>0
        <4> QED
          BY <1>1, <4>1, <4>2, <4>3
      <3> QED
        BY <1>0, <1>1, <3>1, <3>2, <3>3
    <2>5. ConsentsMarked' /\ ProofsMarked'
      BY <2>1 DEF DelegationInv, Watermarked, ConsentsMarked, ProofsMarked
    <2> QED
      BY <1>1, <2>3, <2>4, <2>5 DEF DelegationInv, Watermarked
  <1>2. ASSUME NEW x \in Addrs, NEW max \in Nonces,
               nonce' = [nonce EXCEPT ![x] = max], max >= nonce[x], spent' = spent
        PROVE  NoncesMarked'
    <2> SUFFICES ASSUME NEW y \in Addrs, NEW n \in Nonces
                 PROVE  spent[y][n] <= 1 /\ (spent[y][n] # 0 => n <= nonce'[y])
      BY <1>2 DEF NoncesMarked
    <2>1. spent[y][n] <= 1 /\ (spent[y][n] # 0 => n <= nonce[y])
      BY DEF DelegationInv, Watermarked, NoncesMarked
    <2>2. n \in Int /\ nonce[y] \in Int /\ max \in Int
      BY <1>0
    <2>3. nonce'[y] = IF y = x THEN max ELSE nonce[y]
      BY <1>0, <1>2
    <2> QED
      BY <1>2, <2>1, <2>2, <2>3
  <1>3. ASSUME NEW x \in Addrs, NEW max \in Nonces, max > Highwater(x)
        PROVE  max >= nonce[x]
    <2>1. nonce[x] \in Int /\ max \in Int /\ NoNonce \in Int
      BY <1>0
    <2>2. max >= NoNonce
      BY DelegationAssumption DEF NoNonce, Nonces
    <2> QED
      BY <1>3, <2>1, <2>2 DEF Highwater
  <1>4. ASSUME NEW x \in Addrs, NEW min, NEW max \in Nonces,
               InvalidateNoncesInternal(x, min, max),
               UNCHANGED <<spent, signers, restOfInvalidation>>
        PROVE  DelegationInv'
    <2>1. NonceRange(min, max) \in SUBSET Nonces /\ \A n \in NonceRange(min, max) : n <= max
      BY DEF NonceRange
    <2>2. /\ nonce' = [nonce EXCEPT ![x] = max]
          /\ invalidated' = [invalidated EXCEPT ![x] = @ \cup NonceRange(min, max)]
          /\ max >= nonce[x]
          /\ spent' = spent /\ signers' = signers /\ UNCHANGED restOfInvalidation
      BY <1>3, <1>4 DEF InvalidateNoncesInternal
    <2>3. NoncesMarked'
      BY <1>2, <2>2
    <2> QED
      BY <1>0, <1>1, <2>1, <2>2, <2>3
  <1>5. ASSUME NEW x \in Addrs, NEW min, NEW max \in Nonces, NEW n \in Nonces,
               NEW k \in Keys, InvalidateNoncesByDelegation(x, min, max, n, k)
        PROVE  DelegationInv'
    <2> DEFINE ms == <<Msg(x, n, k)>>
    <2>0. ms \in [1..1 -> MsgRec] /\ \A y \in Addrs : Watermark(ms)[y] = IF y = x THEN n ELSE nonce[y]
      BY SingleMessage
    <2>1. NonceRange(min, max) \in SUBSET Nonces /\ \A v \in NonceRange(min, max) : v <= max
      BY DEF NonceRange
    <2>2. /\ Fresh(ms) /\ spent' = Spend(ms) /\ signers' = Signed(ms) /\ max > n
          /\ nonce' = [nonce EXCEPT ![x] = max]
          /\ invalidated' = [invalidated EXCEPT ![x] = @ \cup NonceRange(min, max)]
          /\ UNCHANGED restOfInvalidation
      BY <1>5 DEF InvalidateNoncesByDelegation
    <2> HIDE DEF ms
    <2>3. /\ spent' \in [Addrs -> [Nonces -> Nat]] /\ signers' \in [Addrs -> SUBSET Keys]
          /\ n >= nonce[x]
          /\ \A y \in Addrs, v \in Nonces :
                \/ spent'[y][v] = spent[y][v]
                \/ /\ spent'[y][v] = spent[y][v] + 1
                   /\ v > nonce[y]
                   /\ v <= Watermark(ms)[y]
      BY <2>0, <2>2, ConsumeFacts DEF DelegationInv
    <2>4. max >= nonce[x] /\ max \in Int /\ n \in Int /\ nonce[x] \in Int
      BY <2>2, <2>3, <1>0
    <2>5. NoncesMarked'
      <3> SUFFICES ASSUME NEW y \in Addrs, NEW v \in Nonces
                   PROVE  spent'[y][v] <= 1 /\ (spent'[y][v] # 0 => v <= nonce'[y])
        BY DEF NoncesMarked
      <3>1. /\ spent[y][v] <= 1 /\ (spent[y][v] # 0 => v <= nonce[y])
            /\ spent[y][v] \in Nat /\ nonce[y] \in Int /\ v \in Int
        BY <1>0 DEF DelegationInv, Watermarked, NoncesMarked
      <3>2. nonce'[y] = IF y = x THEN max ELSE nonce[y]
        BY <1>0, <2>2
      <3>3. Watermark(ms)[y] = IF y = x THEN n ELSE nonce[y]
        BY <2>0
      <3>4. CASE spent'[y][v] = spent[y][v]
        BY <2>4, <3>1, <3>2, <3>4
      <3>5. CASE spent'[y][v] = spent[y][v] + 1 /\ v > nonce[y] /\ v <= Watermark(ms)[y]
        BY <2>2, <2>4, <3>1, <3>2, <3>3, <3>5
      <3> QED
        BY <2>3, <3>4, <3>5
    <2> QED
      BY <1>1, <2>1, <2>2, <2>3, <2>4, <2>5
  <1> QED
    BY <1>0, <1>4, <1>5 DEF NonceStep, InvalidateNonces, SetNonceHighwaterMark

(* What the steps that consume no nonce do to the delegation state. *)
LEMMA KeyPreserves ==
    ASSUME DelegationInv, KeyStep
    PROVE  DelegationInv'
  <1>0. /\ keys \in [Addrs -> KeyRecord] /\ retired \in [Addrs -> SUBSET (RegKeys \cup {NoKey})]
        /\ policy \in [Addrs -> Scopes \cup {Unrestricted}]
        /\ group \in [Schemas -> GroupKeys \cup {NoKey}]
        /\ Delegators \subseteq Addrs /\ RegKeys \subseteq Keys
    BY DelegationAssumption DEF DelegationInv, DelegationTypeOK
  <1>1. UNCHANGED <<nonce, consent, spent, consented, signers, zk_verifier, nullifiers, proved,
                    invalidated>>
    BY DEF KeyStep, RegisterAttesterKey, RotateAttesterKey, RevokeAttesterKey, restOfKeys,
       SetDelegationPolicy, SetSchemaFrostGroup, nonceVars, zkVars
  <1>2. keys' \in [Addrs -> KeyRecord]
    <2>1. ASSUME NEW x \in Addrs, NEW k \in RegKeys,
                 RegisterAttesterKey(x, k) \/ RotateAttesterKey(x, k)
          PROVE  keys' \in [Addrs -> KeyRecord]
      <3>1. /\ keys' = [keys EXCEPT ![x] =
                          [key |-> k, version |-> keys[x].version + 1, revoked |-> FALSE]]
            /\ keys[x].version < MaxVersion
        BY <2>1 DEF RegisterAttesterKey, RotateAttesterKey
      <3>2. keys[x].version + 1 \in 0..MaxVersion
        BY <1>0, <3>1, DelegationAssumption DEF KeyRecord
      <3>3. [key |-> k, version |-> keys[x].version + 1, revoked |-> FALSE] \in KeyRecord
        BY <1>0, <3>2 DEF KeyRecord
      <3> QED
        BY <1>0, <3>1, <3>3
    <2>2. ASSUME NEW x \in Addrs, RevokeAttesterKey(x)
          PROVE  keys' \in [Addrs -> KeyRecord]
      <3>1. keys' = [keys EXCEPT ![x] = [keys[x] EXCEPT !.revoked = TRUE]]
        BY <2>2 DEF RevokeAttesterKey
      <3>2. [keys[x] EXCEPT !.revoked = TRUE] \in KeyRecord
        BY <1>0 DEF KeyRecord
      <3> QED
        BY <1>0, <3>1, <3>2
    <2> QED
      BY <1>0, <2>1, <2>2 DEF KeyStep, SetDelegationPolicy, SetSchemaFrostGroup, keyVars
  <1>3. retired' \in [Addrs -> SUBSET (RegKeys \cup {NoKey})]
    <2>1. \A x \in Addrs : keys[x].key \in RegKeys \cup {NoKey}
      BY <1>0 DEF KeyRecord
    <2> QED
      BY <1>0, <2>1 DEF KeyStep, RegisterAttesterKey, RotateAttesterKey, RevokeAttesterKey,
         SetDelegationPolicy, SetSchemaFrostGroup, keyVars
  <1>4. policy' \in [Addrs -> Scopes \cup {Unrestricted}]
    BY <1>0 DEF KeyStep, RegisterAttesterKey, RotateAttesterKey, RevokeAttesterKey, restOfKeys,
       SetDelegationPolicy, SetSchemaFrostGroup
  <1>5. group' \in [Schemas -> GroupKeys \cup {NoKey}]
    BY <1>0 DEF KeyStep, RegisterAttesterKey, RotateAttesterKey, RevokeAttesterKey, restOfKeys,
       SetDelegationPolicy, SetSchemaFrostGroup
  <1>6. DelegationTypeOK'
    BY <1>1, <1>2, <1>3, <1>4, <1>5 DEF DelegationInv, DelegationTypeOK
  <1>7. Watermarked'
    BY <1>1 DEF DelegationInv, Watermarked, NoncesMarked, ConsentsMarked, InvalidMarked,
       ProofsMarked
  <1> QED
    BY <1>6, <1>7 DEF DelegationInv

(* ZK issuance spends a nullifier that was not used before. *)
LEMMA ZkPreserves ==
    ASSUME DelegationInv, ZkStep
    PROVE  DelegationInv'
  <1>1. UNCHANGED <<nonce, consent, spent, consented, signers, keys, retired, policy, group,
                    invalidated>>
    BY DEF ZkStep, SetZkVerifier, AttestWithZk, nonceVars, keyVars
  <1>2. /\ zk_verifier' \in BOOLEAN
        /\ nullifiers' \in SUBSET Nullifiers
        /\ proved' \in [Nullifiers -> Nat]
        /\ ProofsMarked'
    <2>0. /\ zk_verifier \in BOOLEAN /\ nullifiers \in SUBSET Nullifiers
          /\ proved \in [Nullifiers -> Nat] /\ ProofsMarked
      BY DEF DelegationInv, DelegationTypeOK, Watermarked
    <2>1. CASE SetZkVerifier
      BY <2>0, <2>1 DEF SetZkVerifier, zkVars, ProofsMarked
    <2>2. ASSUME NEW a, NEW z \in Nullifiers, AttestWithZk(a, z)
          PROVE  /\ zk_verifier' \in BOOLEAN
                 /\ nullifiers' \in SUBSET Nullifiers
                 /\ proved' \in [Nullifiers -> Nat]
                 /\ ProofsMarked'
      <3>1. /\ z \notin nullifiers /\ zk_verifier' = zk_verifier
            /\ nullifiers' = nullifiers \cup {z}
            /\ proved' = [proved EXCEPT ![z] = @ + 1]
        BY <2>2 DEF AttestWithZk
      <3>2. proved[z] = 0
        BY <2>0, <3>1 DEF ProofsMarked
      <3>3. proved' = [proved EXCEPT ![z] = 1]
        BY <2>0, <3>1, <3>2
      <3>4. ProofsMarked'
        BY <2>0, <3>1, <3>3 DEF ProofsMarked
      <3> QED
        BY <2>0, <3>1, <3>3, <3>4
    <2> QED
      BY <2>1, <2>2 DEF ZkStep
  <1>3. DelegationTypeOK'
    BY <1>1, <1>2 DEF DelegationInv, DelegationTypeOK
  <1>4. Watermarked'
    BY <1>1, <1>2 DEF DelegationInv, Watermarked, NoncesMarked, ConsentsMarked, InvalidMarked
  <1> QED
    BY <1>3, <1>4 DEF DelegationInv

(* A direct call, or none, keeps the delegation invariant. *)
LEMMA IdlePreserves ==
    ASSUME DelegationInv, UNCHANGED delegationVars
    PROVE  DelegationInv'
  <1>1. UNCHANGED <<nonce, consent, spent, consented, signers, keys, retired, policy, group,
                    zk_verifier, nullifiers, proved, invalidated>>
    BY DEF delegationVars, nonceVars, keyVars, zkVars
  <1>2. DelegationTypeOK'
    BY <1>1 DEF DelegationInv, DelegationTypeOK
  <1>3. Watermarked'
    BY <1>1 DEF DelegationInv, Watermarked, NoncesMarked, ConsentsMarked, InvalidMarked,
       ProofsMarked
  <1> QED
    BY <1>2, <1>3 DEF DelegationInv

(* No step breaks the delegation invariant. *)
LEMMA DelegationStepInv == DelegationInv /\ [DelegationNext]_allVars => DelegationInv'
  <1>1. UNCHANGED allVars => UNCHANGED delegationVars
    BY DEF allVars
  <1>2. DirectStep => UNCHANGED delegationVars
    BY DEF DirectStep
  <1> QED
    BY <1>1, <1>2, SignedPreserves, NoncePreserves, KeyPreserves, ZkPreserves, IdlePreserves
    DEF DelegationNext

(* No message is consumed at first. *)
LEMMA DelegationInitInv == DelegationInit => DelegationInv
  <1> SUFFICES ASSUME DelegationInit PROVE DelegationInv
    OBVIOUS
  <1>1. NoRecord \in KeyRecord
    BY DelegationAssumption DEF NoRecord, KeyRecord
  <1>2. DelegationTypeOK
    BY <1>1 DEF DelegationInit, DelegationTypeOK
  <1>3. Watermarked
    BY DEF DelegationInit, Watermarked, NoncesMarked, ConsentsMarked, InvalidMarked,
       ProofsMarked
  <1> QED
    BY <1>2, <1>3 DEF DelegationInv

(* The watermark invariant holds of the contract with delegation. *)
THEOREM DelegationInvariant == DelegationSpec => []DelegationInv
  BY DelegationInitInv, DelegationStepInv, PTL DEF DelegationSpec

(* Replay protection of consume_delegation_nonce,                          *)
(* consume_recipient_consent_nonce and attest_with_zk, for any number of   *)
(* attesters, messages and batches: nothing is authorised twice.           *)
THEOREM SpentOnceCorrect == DelegationSpec => []SpentOnce
  <1>1. DelegationInv => SpentOnce
    BY DEF DelegationInv, Watermarked, NoncesMarked, ConsentsMarked, ProofsMarked, SpentOnce
  <1> QED
    BY <1>1, DelegationInvariant, PTL
------------------------------------------------------------------------------
(* Invalidated nonces and retired keys.                                    *)

(* The key of an accepted message: the attester's own or a group's. *)
AcceptedKey(x, k) == k \in Keys /\ (IsAttesterKey(x, k) \/ k \in GroupKeys)

(* require_delegation_key lets through the group's key or the party's own. *)
LEMMA GroupOrOwn ==
    ASSUME DelegationInv, NEW s \in Schemas, NEW x, NEW k \in Keys, IsDelegationKey(s, x, k)
    PROVE  AcceptedKey(x, k)
  <1>1. group[s] \in GroupKeys \cup {NoKey}
    BY DEF DelegationInv, DelegationTypeOK
  <1> QED
    BY <1>1 DEF IsDelegationKey, AcceptedKey

(* A party whose counters move has signed with an accepted key, and the    *)
(* nonces counted lie above the watermark.                                 *)
Accepts(x) ==
    /\ \A n \in Nonces : spent'[x][n] # spent[x][n] => n > nonce[x]
    /\ spent'[x] # spent[x] \/ consented'[x] # consented[x]
       => \A k \in signers'[x] : AcceptedKey(x, k)

(* A call that checks the key of every message it consumes is accepted. *)
LEMMA ConsumeAccepts ==
    ASSUME DelegationInv, NEW m \in Nat, NEW ms \in [1..m -> MsgRec], Fresh(ms),
           \A i \in 1..m : AcceptedKey(ms[i].attester, ms[i].key),
           spent' = Spend(ms), signers' = Signed(ms), consented' = consented,
           NEW x \in Addrs
    PROVE  Accepts(x)
  <1>0. DOMAIN ms = 1..m
    OBVIOUS
  <1>1. \A n \in Nonces : spent'[x][n] # spent[x][n] => n > nonce[x]
    BY ConsumeFacts DEF DelegationInv
  <1>2. CASE MsgsOf(x, ms) = {}
    <2>1. ASSUME NEW n \in Nonces PROVE spent'[x][n] = spent[x][n]
      <3>1. {i \in MsgsOf(x, ms) : ms[i].nonce = n} = {}
        BY <1>2
      <3>2. Cardinality({i \in MsgsOf(x, ms) : ms[i].nonce = n}) = 0
        BY <3>1, FS_EmptySet
      <3>3. spent[x][n] \in Nat
        BY DEF DelegationInv, DelegationTypeOK
      <3> QED
        BY <3>2, <3>3 DEF Spend
    <2>2. spent'[x] \in [Nonces -> Nat] /\ spent[x] \in [Nonces -> Nat]
      BY ConsumeFacts DEF DelegationInv, DelegationTypeOK
    <2>3. spent'[x] = spent[x]
      BY <2>1, <2>2
    <2> QED
      BY <1>1, <2>3 DEF Accepts
  <1>3. CASE MsgsOf(x, ms) # {}
    <2>1. signers'[x] = {ms[i].key : i \in MsgsOf(x, ms)}
      BY <1>3 DEF Signed
    <2>2. \A i \in MsgsOf(x, ms) : AcceptedKey(x, ms[i].key)
      BY <1>0 DEF MsgsOf
    <2> QED
      BY <1>1, <2>1, <2>2 DEF Accepts
  <1> QED
    BY <1>2, <1>3

(* The same for a call with a single message. *)
LEMMA SingleAccepts ==
    ASSUME DelegationInv, NEW x \in Addrs, NEW n \in Nonces, NEW k \in Keys,
           Fresh(<<Msg(x, n, k)>>), AcceptedKey(x, k),
           spent' = Spend(<<Msg(x, n, k)>>), signers' = Signed(<<Msg(x, n, k)>>),
           consented' = consented, NEW y \in Addrs
    PROVE  Accepts(y)
  <1> DEFINE ms == <<Msg(x, n, k)>>
  <1>1. ms \in [1..1 -> MsgRec]
    BY SingleMessage
  <1>2. \A i \in 1..1 : AcceptedKey(ms[i].attester, ms[i].key)
    BY DEF Msg
  <1> HIDE DEF ms
  <1>3. Fresh(ms) /\ spent' = Spend(ms) /\ signers' = Signed(ms)
    BY DEF ms
  <1> QED
    BY <1>1, <1>2, <1>3, ConsumeAccepts

(* The schema of a claim is a schema. *)
LEMMA ClaimSchema ==
    ASSUME NEW u \in UIDs
    PROVE  u.schema \in Schemas
  BY CoreAssumption DEF Claim

(* Every step that consumes a nonce does so with an accepted key. *)
LEMMA StepAccepts ==
    ASSUME DelegationInv, [DelegationNext]_allVars, NEW y \in Addrs
    PROVE  Accepts(y)
  <1>1. ASSUME NEW a \in Attestation, NEW n \in Nonces, NEW k \in Keys,
               \/ AttestByDelegation(a, n, k)
               \/ \E p \in Scopes : AttestByScopedDelegation(a, n, k, p)
        PROVE  Accepts(y)
    <2> DEFINE x == a.uid.attester
    <2>1. x \in Addrs /\ a.uid.schema \in Schemas
      BY AttestationUid, ClaimParties, ClaimSchema
    <2>2. Consume(<<Msg(x, n, k)>>) /\ (IsDelegationKey(a.uid.schema, x, k) \/ IsAttesterKey(x, k))
      BY <1>1 DEF AttestByDelegation, AttestByScopedDelegation
    <2>3. AcceptedKey(x, k)
      BY <2>1, <2>2, GroupOrOwn DEF AcceptedKey
    <2> HIDE DEF x
    <2> QED
      BY <2>1, <2>2, <2>3, SingleAccepts DEF Consume
  <1>2. ASSUME NEW n \in 2..MaxBatch, NEW batch \in [1..n -> Attestation],
               NEW ns \in [1..n -> Nonces], NEW ks \in [1..n -> Keys],
               MultiAttestByDelegation(batch, ns, ks)
        PROVE  Accepts(y)
    <2> DEFINE ms == [i \in DOMAIN batch |-> Msg(batch[i].uid.attester, ns[i], ks[i])]
    <2>1. \A i \in 1..n : batch[i].uid.attester \in Addrs /\ batch[i].uid.schema \in Schemas
      BY AttestationUid, ClaimParties, ClaimSchema
    <2>2. ms \in [1..n -> MsgRec]
      BY <2>1 DEF MsgRec, Msg
    <2>3. Consume(ms)
      BY <1>2 DEF MultiAttestByDelegation
    <2>4. \A i \in 1..n : IsDelegationKey(batch[i].uid.schema, batch[i].uid.attester, ks[i])
      BY <1>2 DEF MultiAttestByDelegation
    <2>5. \A i \in 1..n : AcceptedKey(batch[i].uid.attester, ks[i])
      BY <2>1, <2>4, GroupOrOwn
    <2>6. \A i \in 1..n : AcceptedKey(ms[i].attester, ms[i].key)
      BY <2>5 DEF Msg
    <2>7. n \in Nat
      BY CoreAssumption
    <2> HIDE DEF ms
    <2> QED
      BY <2>2, <2>3, <2>6, <2>7, ConsumeAccepts DEF Consume
  <1>3. ASSUME NEW u \in UIDs, NEW n \in Nonces, NEW k \in Keys, RevokeByDelegation(u, n, k)
        PROVE  Accepts(y)
    <2>1. AcceptedKey(u.attester, k) /\ Consume(<<Msg(u.attester, n, k)>>)
      BY <1>3, ClaimSchema, GroupOrOwn DEF RevokeByDelegation
    <2> QED
      BY <2>1, ClaimParties, SingleAccepts DEF Consume
  <1>4. ASSUME NEW n \in 2..MaxBatch, NEW uids \in [1..n -> UIDs],
               NEW ns \in [1..n -> Nonces], NEW ks \in [1..n -> Keys],
               MultiRevokeByDelegation(uids, ns, ks)
        PROVE  Accepts(y)
    <2> DEFINE ms == [i \in DOMAIN uids |-> Msg(uids[i].attester, ns[i], ks[i])]
    <2>1. \A i \in 1..n : uids[i].attester \in Addrs /\ uids[i].schema \in Schemas
      BY ClaimParties, ClaimSchema
    <2>2. ms \in [1..n -> MsgRec]
      BY <2>1 DEF MsgRec, Msg
    <2>3. Consume(ms)
      BY <1>4 DEF MultiRevokeByDelegation
    <2>4. \A i \in 1..n : IsDelegationKey(uids[i].schema, uids[i].attester, ks[i])
      BY <1>4 DEF MultiRevokeByDelegation
    <2>5. \A i \in 1..n : AcceptedKey(uids[i].attester, ks[i])
      BY <2>1, <2>4, GroupOrOwn
    <2>6. \A i \in 1..n : AcceptedKey(ms[i].attester, ms[i].key)
      BY <2>5 DEF Msg
    <2>7. n \in Nat
      BY CoreAssumption
    <2> HIDE DEF ms
    <2> QED
      BY <2>2, <2>3, <2>6, <2>7, ConsumeAccepts DEF Consume
  <1>5. ASSUME NEW old \in UIDs, NEW new, NEW na \in Nonces, NEW ka \in Keys,
               NEW nr \in Nonces, NEW kr \in Keys,
               ReplaceByDelegationConsent(old, new, na, ka, nr, kr)
        PROVE  Accepts(y)
    <2> DEFINE x == old.attester
               r == old.recipient
               ms == <<Msg(x, na, ka)>>
    <2>1. /\ Fresh(ms) /\ spent' = Spend(ms)
          /\ consented' = [consented EXCEPT ![r][nr] = @ + 1]
          /\ signers' = [signers EXCEPT ![x] = {ka}, ![r] = {kr}]
          /\ IsAttesterKey(x, ka) /\ IsAttesterKey(r, kr)
      BY <1>5 DEF ReplaceByDelegationConsent, ConsumeRecipientConsentNonce
    <2>2. x \in Addrs /\ r \in Addrs
      BY ClaimParties
    <2>3. ms \in [1..1 -> MsgRec]
      BY <2>2, SingleMessage
    <2>4. MsgsOf(y, ms) = {} \/ y = x
      BY DEF MsgsOf, Msg
    <2> HIDE DEF x, r, ms
    <2>5. \A n \in Nonces : spent'[y][n] # spent[y][n] => n > nonce[y]
      BY <2>1, <2>3, ConsumeFacts DEF DelegationInv
    <2>6. signers \in [Addrs -> SUBSET Keys]
      BY DEF DelegationInv, DelegationTypeOK
    <2>7. CASE y = x \/ y = r
      <3>1. \A k \in signers'[y] : AcceptedKey(y, k)
        BY <2>1, <2>2, <2>6, <2>7 DEF AcceptedKey
      <3> QED
        BY <2>5, <3>1 DEF Accepts
    <2>8. CASE y # x /\ y # r
      <3>1. consented'[y] = consented[y]
        BY <2>1, <2>2, <2>8 DEF DelegationInv, DelegationTypeOK
      <3>2. MsgsOf(y, ms) = {}
        BY <2>4, <2>8
      <3>3. ASSUME NEW n \in Nonces PROVE spent'[y][n] = spent[y][n]
        <4>1. {i \in MsgsOf(y, ms) : ms[i].nonce = n} = {}
          BY <3>2
        <4>2. Cardinality({i \in MsgsOf(y, ms) : ms[i].nonce = n}) = 0
          BY <4>1, FS_EmptySet
        <4>3. spent[y][n] \in Nat
          BY DEF DelegationInv, DelegationTypeOK
        <4> QED
          BY <2>1, <4>2, <4>3 DEF Spend
      <3>4. spent'[y] \in [Nonces -> Nat] /\ spent[y] \in [Nonces -> Nat]
        BY <2>1, <2>3, ConsumeFacts DEF DelegationInv, DelegationTypeOK
      <3>5. spent'[y] = spent[y]
        BY <3>3, <3>4
      <3> QED
        BY <2>5, <3>1, <3>5 DEF Accepts
    <2> QED
      BY <2>7, <2>8
  <1>6. ASSUME spent' = spent, consented' = consented
        PROVE  Accepts(y)
    BY <1>6 DEF Accepts
  <1>7. CASE NonceStep
    <2>1. Delegators \subseteq Addrs
      BY DelegationAssumption
    <2>2. ASSUME NEW x \in Delegators, NEW min, NEW max, NEW n \in Nonces, NEW k \in Keys,
                 InvalidateNoncesByDelegation(x, min, max, n, k)
          PROVE  Accepts(y)
      <3>1. /\ AcceptedKey(x, k) /\ Fresh(<<Msg(x, n, k)>>)
            /\ spent' = Spend(<<Msg(x, n, k)>>) /\ signers' = Signed(<<Msg(x, n, k)>>)
            /\ consented' = consented
        BY <2>2 DEF InvalidateNoncesByDelegation, AcceptedKey, restOfInvalidation
      <3> QED
        BY <2>1, <3>1, SingleAccepts
    <2>3. ASSUME NEW x, NEW min, NEW max,
                 InvalidateNonces(x, min, max) \/ SetNonceHighwaterMark(x, max)
          PROVE  Accepts(y)
      BY <1>6, <2>3 DEF InvalidateNonces, SetNonceHighwaterMark, restOfInvalidation
    <2> QED
      BY <1>7, <2>2, <2>3 DEF NonceStep
  <1>8. CASE KeyStep \/ ZkStep
    BY <1>6, <1>8 DEF KeyStep, RegisterAttesterKey, RotateAttesterKey, RevokeAttesterKey,
       restOfKeys, SetDelegationPolicy, SetSchemaFrostGroup, nonceVars, ZkStep, SetZkVerifier,
       AttestWithZk
  <1>9. CASE DirectStep \/ UNCHANGED allVars
    BY <1>6, <1>9 DEF DirectStep, allVars, delegationVars, nonceVars
  <1> QED
    BY <1>1, <1>2, <1>3, <1>4, <1>5, <1>7, <1>8, <1>9 DEF DelegationNext, SignedStep
(* No sequence of delegated calls, batches and invalidations takes a       *)
(* watermark back: an invalidated nonce stays unusable for ever.           *)
THEOREM InvalidatedCorrect == DelegationSpec => InvalidatedNeverSpent
  <1>1. ASSUME DelegationInv, [DelegationNext]_allVars, NEW x \in Addrs,
               NEW n \in invalidated[x]
        PROVE  spent'[x][n] = spent[x][n]
    <2>1. n \in Nonces /\ n <= nonce[x] /\ nonce[x] \in Nonces \cup {NoNonce}
      BY <1>1 DEF DelegationInv, DelegationTypeOK, Watermarked, InvalidMarked
    <2>2. \A v \in Nonces \cup {NoNonce} : v \in Int
      BY DelegationAssumption DEF Nonces, NoNonce
    <2>3. ~(n > nonce[x])
      BY <2>1, <2>2
    <2> QED
      BY <1>1, <2>1, <2>3, StepAccepts DEF Accepts
  <1>2. DelegationInv /\ [DelegationNext]_allVars
        => [\A x \in Addrs : \A n \in invalidated[x] : spent'[x][n] = spent[x][n]]_allVars
    BY <1>1
  <1> QED
    BY <1>2, DelegationInvariant, PTL DEF DelegationSpec, InvalidatedNeverSpent

(* Signed calls do not touch the key records. *)
LEMMA SignedKeepsKeys == SignedStep => UNCHANGED keyVars
  <1>0. UNCHANGED restOfDelegation => UNCHANGED keyVars
    BY DEF restOfDelegation
  <1>1. \A a, n, k, p : AttestByDelegation(a, n, k) \/ AttestByScopedDelegation(a, n, k, p)
                        => UNCHANGED keyVars
    BY <1>0 DEF AttestByDelegation, AttestByScopedDelegation
  <1>2. \A b, ns, ks : MultiAttestByDelegation(b, ns, ks) => UNCHANGED keyVars
    BY <1>0 DEF MultiAttestByDelegation
  <1>3. \A u, n, k : RevokeByDelegation(u, n, k) => UNCHANGED keyVars
    BY <1>0 DEF RevokeByDelegation
  <1>4. \A b, ns, ks : MultiRevokeByDelegation(b, ns, ks) => UNCHANGED keyVars
    BY <1>0 DEF MultiRevokeByDelegation
  <1>5. \A old, new, na, ka, nr, kr :
          ReplaceByDelegationConsent(old, new, na, ka, nr, kr) => UNCHANGED keyVars
    BY <1>0 DEF ReplaceByDelegationConsent
  <1> QED
    BY <1>1, <1>2, <1>3, <1>4, <1>5 DEF SignedStep

(* The active key of a record is a real key and is not retired. *)
KeysApart ==
    \A x \in Addrs : ~keys[x].revoked =>
        keys[x].key \in RegKeys /\ keys[x].key \notin retired[x]

(* No step retires a key that is still active. *)
LEMMA KeysApartStep ==
    ASSUME DelegationInv, KeysApart, [DelegationNext]_allVars
    PROVE  KeysApart'
  <1>0. /\ keys \in [Addrs -> KeyRecord]
        /\ retired \in [Addrs -> SUBSET (RegKeys \cup {NoKey})]
        /\ Delegators \subseteq Addrs
    BY DelegationAssumption DEF DelegationInv, DelegationTypeOK
  <1>1. ASSUME UNCHANGED keyVars PROVE KeysApart'
    BY <1>1 DEF KeysApart, keyVars
  <1>2. ASSUME NEW x \in Addrs, NEW k \in RegKeys,
               RegisterAttesterKey(x, k) \/ RotateAttesterKey(x, k)
        PROVE  KeysApart'
    <2>1. /\ keys' = [keys EXCEPT ![x] =
                        [key |-> k, version |-> keys[x].version + 1, revoked |-> FALSE]]
          /\ k \notin retired'[x]
          /\ \A y \in Addrs \ {x} : retired'[y] = retired[y]
      BY <1>0, <1>2 DEF RegisterAttesterKey, RotateAttesterKey
    <2> QED
      BY <1>0, <2>1 DEF KeysApart
  <1>3. ASSUME NEW x \in Addrs, RevokeAttesterKey(x)
        PROVE  KeysApart'
    <2>1. /\ keys' = [keys EXCEPT ![x] = [keys[x] EXCEPT !.revoked = TRUE]]
          /\ \A y \in Addrs \ {x} : retired'[y] = retired[y]
      BY <1>0, <1>3 DEF RevokeAttesterKey
    <2>2. keys'[x].revoked
      BY <1>0, <2>1 DEF KeyRecord
    <2>3. \A y \in Addrs \ {x} : keys'[y] = keys[y]
      BY <1>0, <2>1
    <2> QED
      BY <2>1, <2>2, <2>3 DEF KeysApart
  <1>4. CASE SignedStep
    BY <1>1, <1>4, SignedKeepsKeys
  <1>5. CASE NonceStep \/ ZkStep \/ DirectStep \/ UNCHANGED allVars
    BY <1>1, <1>5 DEF NonceStep, InvalidateNonces, SetNonceHighwaterMark,
       InvalidateNoncesByDelegation, restOfInvalidation, ZkStep, SetZkVerifier, AttestWithZk,
       DirectStep, delegationVars, allVars
  <1>6. CASE KeyStep
    BY <1>0, <1>1, <1>2, <1>3, <1>6 DEF KeyStep, SetDelegationPolicy, SetSchemaFrostGroup
  <1> QED
    BY <1>4, <1>5, <1>6 DEF DelegationNext

(* Rotation and revocation of a registered key take effect at once and for *)
(* good (require_attester_key compares with the current record only): when *)
(* registered keys are neither account keys nor FROST group keys, a        *)
(* retired key never authorises anything until it is registered again.     *)
THEOREM RetiredKeysCorrect ==
    ASSUME RegKeys \cap GroupKeys = {}, \A x \in Addrs : AccountKey[x] \notin RegKeys
    PROVE  DelegationSpec => RetiredKeysRefused
  <1>1. DelegationInit => KeysApart
    BY DEF DelegationInit, KeysApart, NoRecord
  <1>2. DelegationInv /\ KeysApart /\ [DelegationNext]_allVars => KeysApart'
    BY KeysApartStep
  <1>3. ASSUME DelegationInv, KeysApart, [DelegationNext]_allVars, NEW x \in Addrs,
               spent'[x] # spent[x] \/ consented'[x] # consented[x]
        PROVE  signers'[x] \cap retired[x] = {}
    <2>1. \A k \in signers'[x] : AcceptedKey(x, k)
      BY <1>3, StepAccepts DEF Accepts
    <2>2. retired[x] \subseteq RegKeys \cup {NoKey}
      BY <1>3 DEF DelegationInv, DelegationTypeOK
    <2>3. ASSUME NEW k, AcceptedKey(x, k) PROVE k \notin retired[x]
      BY <1>3, <2>2, <2>3, DelegationAssumption
      DEF AcceptedKey, IsAttesterKey, RegisteredKeyMatches, KeysApart
    <2> QED
      BY <2>1, <2>3
  <1>4. DelegationInv /\ KeysApart /\ [DelegationNext]_allVars
        => [\A x \in Addrs : spent'[x] # spent[x] \/ consented'[x] # consented[x]
              => signers'[x] \cap retired[x] = {}]_allVars
    BY <1>3
  <1> QED
    BY <1>1, <1>2, <1>4, DelegationInvariant, PTL DEF DelegationSpec, RetiredKeysRefused

(* The version sequence of register_attester_key and rotate_attester_key   *)
(* never repeats a version for another key or another life of a key.       *)
THEOREM KeyVersionsCorrect == DelegationSpec => KeyVersionsGrow
  <1> DEFINE Grows(x) ==
          /\ keys'[x].version >= keys[x].version
          /\ keys'[x].key # keys[x].key \/ (keys[x].revoked /\ ~keys'[x].revoked)
             => keys'[x].version > keys[x].version
  <1>1. ASSUME DelegationInv, [DelegationNext]_allVars, NEW y \in Addrs
        PROVE  Grows(y)
    <2>0. /\ keys \in [Addrs -> KeyRecord] /\ Delegators \subseteq Addrs
          /\ keys[y].version \in Nat /\ keys[y] \in KeyRecord
      <3>1. keys \in [Addrs -> KeyRecord] /\ Delegators \subseteq Addrs
        BY <1>1, DelegationAssumption DEF DelegationInv, DelegationTypeOK
      <3> QED
        BY <3>1, DelegationAssumption DEF KeyRecord
    <2>1. ASSUME keys' = keys PROVE Grows(y)
      BY <2>0, <2>1
    <2>2. ASSUME NEW x \in Addrs, NEW k, RegisterAttesterKey(x, k) \/ RotateAttesterKey(x, k)
          PROVE  Grows(y)
      <3>1. keys' = [keys EXCEPT ![x] =
                        [key |-> k, version |-> keys[x].version + 1, revoked |-> FALSE]]
        BY <2>2 DEF RegisterAttesterKey, RotateAttesterKey
      <3>2. CASE y = x
        BY <2>0, <3>1, <3>2
      <3>3. CASE y # x
        BY <2>0, <3>1, <3>3
      <3> QED
        BY <3>2, <3>3
    <2>3. ASSUME NEW x \in Addrs, RevokeAttesterKey(x) PROVE Grows(y)
      <3>1. keys' = [keys EXCEPT ![x] = [keys[x] EXCEPT !.revoked = TRUE]]
        BY <2>3 DEF RevokeAttesterKey
      <3>2. keys'[y] = keys[y] \/ keys'[y] = [keys[y] EXCEPT !.revoked = TRUE]
        BY <2>0, <3>1
      <3>3. keys'[y].version = keys[y].version /\ keys'[y].key = keys[y].key
            /\ (keys'[y].revoked = keys[y].revoked \/ keys'[y].revoked)
        BY <2>0, <3>2 DEF KeyRecord
      <3> QED
        BY <2>0, <3>3
    <2>4. ASSUME UNCHANGED keyVars PROVE keys' = keys
      BY <2>4 DEF keyVars
    <2>5. SignedStep => keys' = keys
      BY <2>4, SignedKeepsKeys
    <2>6. NonceStep \/ ZkStep \/ DirectStep \/ UNCHANGED allVars => keys' = keys
      BY <2>4 DEF NonceStep, InvalidateNonces, SetNonceHighwaterMark,
         InvalidateNoncesByDelegation, restOfInvalidation, ZkStep, SetZkVerifier, AttestWithZk,
         DirectStep, delegationVars, allVars
    <2>7. CASE KeyStep
      BY <2>0, <2>1, <2>2, <2>3, <2>4, <2>7, DelegationAssumption
      DEF KeyStep, SetDelegationPolicy, SetSchemaFrostGroup
    <2> QED
      BY <1>1, <2>1, <2>5, <2>6, <2>7 DEF DelegationNext
  <1>2. DelegationInv /\ [DelegationNext]_allVars => [\A x \in Addrs : Grows(x)]_allVars
    BY <1>1
  <1> QED
    BY <1>2, DelegationInvariant, PTL DEF DelegationSpec, KeyVersionsGrow
==============================================================================
