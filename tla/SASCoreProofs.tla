---------------------------- MODULE SASCoreProofs ----------------------------
(***************************************************************************)
(* TLAPS proofs about SASCore, for every set of claims, every registry     *)
(* answer, every input and every bound.                                    *)
(*                                                                         *)
(* The inductive invariant CoreInv joins the type invariant with the       *)
(* invariants the runs check: AnchorsMatch needs the types to know that a  *)
(* ledger number is not zero, EverValid needs AnchorsMatch to know that a  *)
(* stored record was issued no later than now, SchemaRulesHold needs the   *)
(* registry's fixed rules.  Every issuing and revoking entry point commits *)
(* through Commit, so the argument is made once, in CommitPreserves.       *)
(*                                                                         *)
(* The references and the quota need more of a call than its checks one by *)
(* one: what they say together of the set it issues (Accepted).  RefInv    *)
(* adds that a reference is to a stored record, so that an old record      *)
(* never points at a new one; a set of new records has an item issued      *)
(* before the others.  RateInv charges every counted record to a history   *)
(* entry of its own ledger, no two to the same, and bounds the entries.    *)
(***************************************************************************)
EXTENDS SASCore, FiniteSetTheorems, WellFoundedInduction, TLAPS

(* The quota counts with Cardinality, which means something only on finite *)
(* sets.                                                                   *)
HistFinite == \A x \in Addrs : IsFiniteSet(hist[x])

CoreInv == TypeOK /\ HistFinite /\ AnchorsMatch /\ EverValid /\ SchemaRulesHold

(* An issuing request before its inputs are restricted to the instance.    *)
Request == [uid : UIDs, expiration_time : Nat, revocation_time : Nat,
            ref_uid : UIDs \cup {NoRef}, revocable : BOOLEAN, valid_from : Nat]

(* The part of attest_internal's checks that the invariants depend on.     *)
Checked(a) ==
    /\ ~HasAttestation(a.uid)
    /\ NotExpired(a.expiration_time)
    /\ ValidRange(a.valid_from, a.expiration_time)
    /\ WithinMaxTtl(reg[a.uid.schema].max_ttl, a.expiration_time)
    /\ CheckPolicy(reg[a.uid.schema].policy, a.revocable)
    /\ anchor[a.uid].issuance = 0

(* Issuable includes those checks. *)
LEMMA IssuableChecked ==
    ASSUME NEW a, NEW earlier, Issuable(a, earlier)
    PROVE  Checked(a)
  BY DEF Issuable, Checked

(* An issuing call's argument is a request. *)
LEMMA AttestationIsRequest ==
    Attestation \subseteq Request
  BY CoreAssumption DEF Attestation, Request

(* The fields of a claim have their types. *)
LEMMA ClaimFields ==
    ASSUME NEW u \in UIDs
    PROVE  u.schema \in Schemas /\ u.attester \in Addrs
  BY CoreAssumption DEF Claim

(* The initial store satisfies the invariant. *)
LEMMA InitInv == Init => CoreInv
  <1> SUFFICES ASSUME Init PROVE CoreInv
    OBVIOUS
  <1>1. TypeOK
    <2>1. now \in 1..MaxTime /\ rate_since \in 0..now
      BY CoreAssumption DEF Init
    <2>2. att \in [UIDs -> AttRec]
      BY DEF Init, AttRec, Absent
    <2>3. anchor \in [UIDs -> [issuance : 0..now, revocation : 0..now]]
      BY DEF Init
    <2>4. reg \in [Schemas -> SchemaViews]
      BY DEF Init
    <2>5. hist \in [Addrs -> SUBSET [at : 1..now, no : Nat \ {0}]]
      BY DEF Init
    <2> QED
      BY <2>1, <2>2, <2>3, <2>4, <2>5 DEF Init, TypeOK
  <1>2. HistFinite
    BY FS_EmptySet DEF Init, HistFinite
  <1>3. AnchorsMatch
    BY DEF Init, AnchorsMatch, AnchorMatches, HasAttestation, Absent
  <1>4. EverValid
    BY DEF Init, EverValid, HasValidLedger, Absent
  <1>5. SchemaRulesHold
    BY DEF Init, SchemaRulesHold, ObeysSchema, HasAttestation
  <1> QED
    BY <1>1, <1>2, <1>3, <1>4, <1>5 DEF CoreInv

(* What a commit does to the quota history. *)
LEMMA QuotaUsedTyped ==
    ASSUME TypeOK, HistFinite, NEW issued, IsFiniteSet(issued)
    PROVE  /\ QuotaUsed(issued) \in [Addrs -> SUBSET [at : 1..now, no : Nat \ {0}]]
           /\ \A x \in Addrs : IsFiniteSet(QuotaUsed(issued)[x])
  <1> SUFFICES ASSUME NEW x \in Addrs
               PROVE  /\ QuotaUsed(issued)[x] \in SUBSET [at : 1..now, no : Nat \ {0}]
                      /\ IsFiniteSet(QuotaUsed(issued)[x])
    BY DEF QuotaUsed
  <1> DEFINE n == Cardinality(By(x, issued))
             same == {e \in Recent(x) : e.at = now}
             k == Cardinality(same)
             new == {[at |-> now, no |-> i] : i \in (k + 1)..(k + n)}
  <1>1. /\ hist[x] \in SUBSET [at : 1..now, no : Nat \ {0}]
        /\ IsFiniteSet(hist[x])
        /\ now \in Nat \ {0}
    BY CoreAssumption DEF TypeOK, HistFinite
  <1>2. IsFiniteSet(Recent(x)) /\ Recent(x) \subseteq hist[x]
    BY <1>1, FS_Subset DEF Recent
  <1>3. IsFiniteSet(same) /\ k \in Nat
    <2>1. same \subseteq Recent(x)
      OBVIOUS
    <2>2. IsFiniteSet(same)
      BY <1>2, <2>1, FS_Subset
    <2> QED
      BY <2>2, FS_CardinalityType
  <1>4. n \in Nat
    <2>1. By(x, issued) \subseteq issued
      BY DEF By
    <2> QED
      BY <2>1, FS_Subset, FS_CardinalityType
  <1> HIDE DEF n, same, k
  <1>5. new \in SUBSET [at : 1..now, no : Nat \ {0}]
    BY <1>1, <1>3, <1>4
  <1>6. IsFiniteSet(new)
    <2>1. IsFiniteSet((k + 1)..(k + n))
      BY <1>3, <1>4, FS_Interval
    <2> DEFINE f == [i \in (k + 1)..(k + n) |-> [at |-> now, no |-> i]]
    <2>2. f \in Surjection((k + 1)..(k + n), new)
      BY DEF Surjection
    <2> QED
      BY <2>1, <2>2, FS_Surjection
  <1>7. QuotaUsed(issued)[x] = IF n > 0 /\ Limited(x) THEN Recent(x) \cup new ELSE hist[x]
    BY DEF QuotaUsed, n, k, same
  <1>8. IsFiniteSet(Recent(x) \cup new)
    BY <1>2, <1>6, FS_Union
  <1> QED
    BY <1>1, <1>2, <1>5, <1>7, <1>8

(* The heart of the argument: one invocation that issues checked requests  *)
(* and revokes revocable UIDs keeps the invariant.                         *)
LEMMA CommitPreserves ==
    ASSUME CoreInv, NEW issued \in SUBSET Request, NEW revoked \in SUBSET UIDs,
           IsFiniteSet(issued),
           \A a \in issued : Checked(a),
           \A u \in revoked : Revocable(u),
           Commit(issued, revoked)
    PROVE  CoreInv'
  <1> USE DEF CoreInv
  <1>0. /\ now \in Nat \ {0} /\ now' = now /\ reg' = reg
        /\ att' = Written(issued, revoked)
        /\ anchor' = Anchored(issued, revoked)
        /\ hist' = QuotaUsed(issued)
    BY CoreAssumption DEF Commit, TypeOK
  <1>1. ASSUME NEW u \in UIDs
        PROVE  /\ att[u] \in AttRec
               /\ anchor[u] \in [issuance : 0..now, revocation : 0..now]
               /\ AnchorMatches(u) /\ HasValidLedger(u) /\ ObeysSchema(u)
               /\ reg[u.schema] \in SchemaView
    BY <1>1, ClaimFields, CoreAssumption DEF TypeOK, AnchorsMatch, EverValid, SchemaRulesHold
  <1>2. ASSUME NEW u \in UIDs, NEW a \in issued, a.uid = u, att'[u] = Issued(a),
               anchor'[u].issuance = now
        PROVE  /\ att'[u] \in AttRec
               /\ AnchorMatches(u)' /\ HasValidLedger(u)' /\ ObeysSchema(u)'
    <2>1. /\ a \in Request /\ Checked(a) /\ ~HasAttestation(u)
          /\ u \notin revoked
      BY <1>2 DEF Checked, Revocable
    <2>2. att'[u] \in AttRec /\ att'[u].time = now
      BY <1>0, <1>2, <2>1 DEF Issued, AttRec, Request
    <2>3. HasAttestation(u)'
      BY <1>0, <2>2 DEF HasAttestation, Absent
    <2>4. anchor'[u] = [issuance |-> now, revocation |-> 0]
      BY <1>0, <1>1, <1>2, <2>1 DEF Anchored, AnchorMatches
    <2>5. AnchorMatches(u)'
      BY <1>0, <2>2, <2>3, <2>4 DEF AnchorMatches
    <2>6. HasValidLedger(u)'
      BY <1>0, <1>2, <2>1 DEF HasValidLedger, Issued, Checked, NotExpired, ValidRange, Request
    <2>7. ObeysSchema(u)'
      BY <1>0, <1>2, <2>1 DEF ObeysSchema, Issued, Checked, WithinMaxTtl, CheckPolicy
    <2> QED
      BY <2>2, <2>5, <2>6, <2>7
  <1>3. ASSUME NEW u \in UIDs, u \in revoked,
               att'[u] = [att[u] EXCEPT !.revocation_time = now],
               anchor'[u] = [issuance |-> anchor[u].issuance, revocation |-> now]
        PROVE  /\ att'[u] \in AttRec
               /\ AnchorMatches(u)' /\ HasValidLedger(u)' /\ ObeysSchema(u)'
    <2>1. /\ HasAttestation(u) /\ att[u].revocable /\ anchor[u].issuance # 0
          /\ att[u].time = anchor[u].issuance /\ anchor[u].issuance \in 0..now
      BY <1>1, <1>3 DEF Revocable, AnchorMatches
    <2>2. /\ att'[u] \in AttRec /\ att'[u].time = att[u].time
          /\ att'[u].revocation_time = now /\ att'[u].revocable = att[u].revocable
          /\ att'[u].expiration_time = att[u].expiration_time
          /\ att'[u].valid_from = att[u].valid_from
      BY <1>0, <1>1, <1>3 DEF AttRec
    <2>3. HasAttestation(u)'
      BY <1>0, <2>1, <2>2 DEF HasAttestation, Absent
    <2>4. AnchorMatches(u)'
      BY <1>0, <1>3, <2>1, <2>2, <2>3 DEF AnchorMatches
    <2>5. HasValidLedger(u)'
      BY <1>1, <2>2 DEF HasValidLedger
    <2>6. ObeysSchema(u)'
      BY <1>0, <1>1, <2>1, <2>2 DEF ObeysSchema, WithinMaxTtl, CheckPolicy
    <2> QED
      BY <2>2, <2>4, <2>5, <2>6
  <1>4. ASSUME NEW u \in UIDs, att'[u] = att[u],
               anchor'[u] = [issuance |-> anchor[u].issuance,
                             revocation |-> anchor[u].revocation]
        PROVE  /\ att'[u] \in AttRec
               /\ AnchorMatches(u)' /\ HasValidLedger(u)' /\ ObeysSchema(u)'
    BY <1>0, <1>1, <1>4 DEF AnchorMatches, HasValidLedger, ObeysSchema, HasAttestation,
       WithinMaxTtl
  <1>5. ASSUME NEW u \in UIDs
        PROVE  /\ att'[u] \in AttRec
               /\ AnchorMatches(u)' /\ HasValidLedger(u)' /\ ObeysSchema(u)'
    <2>1. CASE \E a \in issued : a.uid = u
      <3> DEFINE b == CHOOSE a \in issued : a.uid = u
      <3>1. b \in issued /\ b.uid = u
        BY <2>1
      <3>2. att'[u] = Issued(b)
        BY <1>0, <2>1 DEF Written
      <3>3. anchor'[u].issuance = now
        BY <1>0, <2>1 DEF Anchored
      <3> HIDE DEF b
      <3> QED
        BY <3>1, <3>2, <3>3, <1>2
    <2>2. CASE u \in revoked /\ ~\E a \in issued : a.uid = u
      BY <1>0, <1>3, <2>2 DEF Written, Anchored
    <2>3. CASE u \notin revoked /\ ~\E a \in issued : a.uid = u
      BY <1>0, <1>4, <2>3 DEF Written, Anchored
    <2> QED
      BY <2>1, <2>2, <2>3
  <1>6. TypeOK'
    <2>1. att' \in [UIDs -> AttRec]
      BY <1>0, <1>5 DEF Written
    <2>2. anchor' \in [UIDs -> [issuance : 0..now, revocation : 0..now]]
      BY <1>0, <1>1 DEF Anchored
    <2>3. hist' \in [Addrs -> SUBSET [at : 1..now, no : Nat \ {0}]]
      BY <1>0, QuotaUsedTyped
    <2> QED
      BY <1>0, <2>1, <2>2, <2>3 DEF TypeOK, Commit, adminVars
  <1>7. HistFinite'
    BY <1>0, QuotaUsedTyped DEF HistFinite
  <1> QED
    BY <1>5, <1>6, <1>7 DEF AnchorsMatch, EverValid, SchemaRulesHold

(* Every issuing call keeps the invariant. *)
LEMMA IssuePreserves == CoreInv /\ IssueStep => CoreInv'
  <1> SUFFICES ASSUME CoreInv, IssueStep PROVE CoreInv'
    OBVIOUS
  <1>1. ASSUME NEW a \in Attestation, Attest(a) PROVE CoreInv'
    <2>1. {a} \in SUBSET Request /\ IsFiniteSet({a}) /\ \A b \in {a} : Checked(b)
      BY <1>1, IssuableChecked, AttestationIsRequest, FS_Singleton DEF Attest
    <2> QED
      BY <1>1, <2>1, CommitPreserves DEF Attest
  <1>2. ASSUME NEW n \in 2..MaxBatch, NEW batch \in [1..n -> Attestation],
               MultiAttest(batch)
        PROVE  CoreInv'
    <2> DEFINE items == {batch[i] : i \in DOMAIN batch}
    <2>1. IsFiniteSet(1..n)
      BY FS_Interval
    <2>2. batch \in Surjection(1..n, items)
      BY DEF Surjection
    <2>3. IsFiniteSet(items)
      BY <2>1, <2>2, FS_Surjection
    <2>4. items \in SUBSET Request
      BY AttestationIsRequest
    <2>5. \A a \in items : Checked(a)
      BY <1>2, IssuableChecked DEF MultiAttest
    <2>6. Commit(items, {})
      BY <1>2 DEF MultiAttest
    <2> HIDE DEF items
    <2> QED
      BY <2>3, <2>4, <2>5, <2>6, CommitPreserves
  <1>3. ASSUME NEW x \in Addrs, NEW s \in Schemas, NEW R \in (SUBSET Addrs) \ {{}},
               NEW d \in Datas, NEW e \in Expirations, NEW b \in BOOLEAN,
               {a.uid : a \in BroadcastItems(x, s, R, d, e, b)} \subseteq UIDs,
               BroadcastAttest(BroadcastItems(x, s, R, d, e, b))
        PROVE  CoreInv'
    <2> DEFINE item(r) == [uid |-> [schema |-> s, recipient |-> r, attester |-> x, data |-> d],
                           expiration_time |-> e, revocation_time |-> 0,
                           ref_uid |-> NoRef, revocable |-> b, valid_from |-> 0]
               items == BroadcastItems(x, s, R, d, e, b)
               f == [r \in R |-> item(r)]
    <2>1. IsFiniteSet(R)
      BY CoreAssumption, FS_Subset
    <2>2. f \in Surjection(R, items)
      BY DEF Surjection, BroadcastItems
    <2>3. IsFiniteSet(items)
      BY <2>1, <2>2, FS_Surjection
    <2>4. items \in SUBSET Request
      BY <1>3, CoreAssumption DEF BroadcastItems, Request
    <2>5. \A a \in items : Checked(a)
      BY <1>3, IssuableChecked DEF BroadcastAttest
    <2>6. Commit(items, {})
      BY <1>3 DEF BroadcastAttest
    <2> HIDE DEF items
    <2> QED
      BY <2>3, <2>4, <2>5, <2>6, CommitPreserves
  <1> QED
    BY <1>1, <1>2, <1>3 DEF IssueStep

(* Every revoking call keeps the invariant. *)
LEMMA RevokePreserves == CoreInv /\ RevokeStep => CoreInv'
  <1> SUFFICES ASSUME CoreInv, RevokeStep PROVE CoreInv'
    OBVIOUS
  <1>1. ASSUME NEW S \in SUBSET UIDs, \A u \in S : Revocable(u), Commit({}, S)
        PROVE  CoreInv'
    BY <1>1, CommitPreserves, FS_EmptySet
  <1>2. ASSUME NEW u \in UIDs, Revocable(u), Commit({}, {u})
        PROVE  CoreInv'
    BY <1>1, <1>2
  <1> QED
    BY <1>1, <1>2 DEF RevokeStep, Revoke, RevokeByAuthorizer, MultiRevoke, RevokeBySchema

(* Replacement, renewal and pruning keep the invariant. *)
LEMMA AmendPreserves == CoreInv /\ AmendStep => CoreInv'
  <1> SUFFICES ASSUME CoreInv, AmendStep PROVE CoreInv'
    OBVIOUS
  <1>0. \A u \in UIDs : u.schema \in Schemas /\ AnchorMatches(u) /\ HasValidLedger(u) /\ ObeysSchema(u)
    BY ClaimFields DEF CoreInv, AnchorsMatch, EverValid, SchemaRulesHold
  <1>1. ASSUME NEW old \in UIDs, NEW new \in Attestation, ReplaceAttestation(old, new)
        PROVE  CoreInv'
    <2> DEFINE linked == [new EXCEPT !.ref_uid = old]
    <2>1. Issuable(linked, {}) /\ Commit({linked}, {old}) /\ Revocable(old)
      BY <1>1 DEF ReplaceAttestation, ReplaceInternal
    <2>2. linked \in Request
      BY AttestationIsRequest DEF Request
    <2> HIDE DEF linked
    <2>3. Checked(linked)
      BY <2>1, IssuableChecked
    <2> QED
      BY <2>1, <2>2, <2>3, CommitPreserves, FS_Singleton
  <1>2. ASSUME NEW u \in UIDs, NEW e \in Expirations, RenewAttestation(u, e)
        PROVE  CoreInv'
    <2>1. /\ e \in Nat /\ now \in Nat /\ att[u] \in AttRec
          /\ att' = [att EXCEPT ![u].expiration_time = e]
          /\ HasAttestation(u) /\ ~(e # 0 /\ e <= now)
          /\ e > 0 => att[u].valid_from < e
          /\ WithinMaxTtl(reg[u.schema].max_ttl, e)
          /\ UNCHANGED <<now, anchor, hist, reg, paused, auto_prune, rate, exempt,
                         fee_per_byte, zero_fee, rate_since>>
      BY <1>2, CoreAssumption
      DEF RenewAttestation, Renewable, RenewableUntil, ValidRange, NotExpired,
          CoreInv, TypeOK, adminVars
    <2>2. att' \in [UIDs -> AttRec]
      BY <2>1 DEF CoreInv, TypeOK, AttRec
    <2>3. TypeOK'
      BY <2>1, <2>2 DEF CoreInv, TypeOK
    <2>4. HistFinite'
      BY <2>1 DEF CoreInv, HistFinite
    <2>5. ASSUME NEW v \in UIDs, v # u
          PROVE  AnchorMatches(v)' /\ HasValidLedger(v)' /\ ObeysSchema(v)'
      <3>1. att'[v] = att[v] /\ anchor'[v] = anchor[v] /\ reg' = reg /\ now' = now
        BY <2>1, <2>5 DEF CoreInv, TypeOK
      <3> QED
        BY <1>0, <3>1 DEF AnchorMatches, HasValidLedger, ObeysSchema, HasAttestation, WithinMaxTtl
    <2>6. AnchorMatches(u)' /\ HasValidLedger(u)' /\ ObeysSchema(u)'
      <3>1. /\ att'[u] = [att[u] EXCEPT !.expiration_time = e]
            /\ anchor'[u] = anchor[u] /\ anchor[u] \in [issuance : 0..now, revocation : 0..now]
        BY <2>1 DEF CoreInv, TypeOK
      <3>2. /\ att'[u].time = att[u].time /\ att'[u].expiration_time = e
            /\ att'[u].revocable = att[u].revocable
            /\ att'[u].revocation_time = att[u].revocation_time
            /\ att'[u].valid_from = att[u].valid_from
        BY <2>1, <3>1 DEF AttRec
      <3>3. att[u].time # 0 /\ att[u].time <= now
        BY <1>0, <2>1, <3>1 DEF AnchorMatches
      <3>4. HasAttestation(u)'
        BY <3>2, <3>3 DEF HasAttestation, Absent
      <3>5. AnchorMatches(u)'
        BY <1>0, <2>1, <3>1, <3>2, <3>4 DEF AnchorMatches
      <3>6. HasValidLedger(u)'
        BY <2>1, <3>2, <3>3 DEF HasValidLedger, AttRec
      <3>7. ObeysSchema(u)'
        BY <1>0, <2>1, <3>2 DEF ObeysSchema, WithinMaxTtl, CheckPolicy
      <3> QED
        BY <3>5, <3>6, <3>7
    <2> QED
      BY <2>3, <2>4, <2>5, <2>6 DEF CoreInv, AnchorsMatch, EverValid, SchemaRulesHold
  <1>3. ASSUME NEW S \in (SUBSET UIDs) \ {{}}, PruneExpired(S)
        PROVE  CoreInv'
    <2> DEFINE P == {u \in S : Prunable(u)}
    <2>1. /\ att' = [u \in UIDs |-> IF u \in P THEN Absent ELSE att[u]]
          /\ anchor' = [u \in UIDs |-> IF u \in P THEN [issuance |-> 0, revocation |-> 0]
                                                  ELSE anchor[u]]
          /\ UNCHANGED <<now, hist, reg, paused, auto_prune, rate, exempt,
                         fee_per_byte, zero_fee, rate_since>>
      BY <1>3 DEF PruneExpired, RemoveAttestations, adminVars
    <2> HIDE DEF P
    <2>2. Absent \in AttRec
      BY DEF Absent, AttRec
    <2>3. TypeOK'
      <3>1. att' \in [UIDs -> AttRec]
        BY <2>1, <2>2 DEF CoreInv, TypeOK
      <3>2. anchor' \in [UIDs -> [issuance : 0..now, revocation : 0..now]]
        BY <2>1, CoreAssumption DEF CoreInv, TypeOK
      <3> QED
        BY <2>1, <3>1, <3>2 DEF CoreInv, TypeOK
    <2>4. HistFinite'
      BY <2>1 DEF CoreInv, HistFinite
    <2>5. ASSUME NEW u \in UIDs
          PROVE  AnchorMatches(u)' /\ HasValidLedger(u)' /\ ObeysSchema(u)'
      <3>1. CASE u \in P
        BY <2>1, <3>1 DEF AnchorMatches, HasValidLedger, ObeysSchema, HasAttestation, Absent
      <3>2. CASE u \notin P
        BY <1>0, <2>1, <3>2 DEF AnchorMatches, HasValidLedger, ObeysSchema, HasAttestation, WithinMaxTtl
      <3> QED
        BY <3>1, <3>2
    <2> QED
      BY <2>3, <2>4, <2>5 DEF CoreInv, AnchorsMatch, EverValid, SchemaRulesHold
  <1> QED
    BY <1>1, <1>2, <1>3 DEF AmendStep

(* A step that leaves the store and the ledger alone and changes no        *)
(* schema's fixed rules keeps the invariant.                               *)
LEMMA StoreUntouched ==
    ASSUME CoreInv, UNCHANGED <<now, att, anchor, hist>>,
           \A s \in Schemas : /\ reg'[s].policy = reg[s].policy
                              /\ reg'[s].max_ttl = reg[s].max_ttl,
           TypeOK'
    PROVE  CoreInv'
  <1>1. HistFinite'
    BY DEF CoreInv, HistFinite
  <1>2. AnchorsMatch' /\ EverValid'
    BY DEF CoreInv, AnchorsMatch, AnchorMatches, EverValid, HasValidLedger, HasAttestation
  <1>3. SchemaRulesHold'
    <2> SUFFICES ASSUME NEW u \in UIDs PROVE ObeysSchema(u)'
      BY DEF SchemaRulesHold
    <2>1. ObeysSchema(u) /\ u.schema \in Schemas
      BY ClaimFields DEF CoreInv, SchemaRulesHold
    <2>2. /\ reg'[u.schema].policy = reg[u.schema].policy
          /\ reg'[u.schema].max_ttl = reg[u.schema].max_ttl
      BY <2>1
    <2> QED
      BY <2>1, <2>2 DEF ObeysSchema, HasAttestation, WithinMaxTtl, CheckPolicy
  <1> QED
    BY <1>1, <1>2, <1>3 DEF CoreInv

(* The admin switches keep the invariant. *)
LEMMA AdminPreserves == CoreInv /\ AdminStep => CoreInv'
  <1> SUFFICES ASSUME CoreInv, AdminStep PROVE CoreInv'
    OBVIOUS
  <1>1. UNCHANGED <<now, att, anchor, hist, reg>>
    BY DEF AdminStep, SetPaused, SetAutoPrune, SetIssuanceRateLimit, SetRateLimitExempt,
           SetFeePerByte, SetSchemaZeroFee, storeVars
  <1>a. \A u \in UIDs : u.attester \in Addrs
    BY CoreAssumption DEF Claim
  <1>2. /\ paused' \in BOOLEAN /\ auto_prune' \in BOOLEAN /\ fee_per_byte' \in BOOLEAN
        /\ rate' \in RateLimits \cup {NoLimit}
        /\ exempt' \in SUBSET Addrs /\ zero_fee' \in SUBSET Schemas
        /\ rate_since' \in 0..now
    BY <1>a DEF AdminStep, SetPaused, SetAutoPrune, SetIssuanceRateLimit, SetRateLimitExempt,
           SetFeePerByte, SetSchemaZeroFee, CoreInv, TypeOK
  <1>3. TypeOK'
    BY <1>1, <1>2 DEF CoreInv, TypeOK
  <1> QED
    BY <1>1, <1>3, StoreUntouched

(* The registry and the ledger keep the invariant. *)
LEMMA EnvPreserves == CoreInv /\ EnvStep => CoreInv'
  <1> SUFFICES ASSUME CoreInv, EnvStep PROVE CoreInv'
    OBVIOUS
  <1>1. ASSUME NEW s \in Schemas, NEW v \in SchemaViews, RegistryChange(s, v)
        PROVE  CoreInv'
    <2>1. /\ UNCHANGED <<now, att, anchor, hist>>
          /\ reg' = [reg EXCEPT ![s] = v]
          /\ v.max_ttl = reg[s].max_ttl /\ v.policy = reg[s].policy
      BY <1>1 DEF RegistryChange, storeVars
    <2>2. TypeOK'
      BY <1>1, <2>1 DEF CoreInv, TypeOK, RegistryChange, adminVars
    <2>3. \A q \in Schemas : /\ reg'[q].policy = reg[q].policy
                             /\ reg'[q].max_ttl = reg[q].max_ttl
      BY <2>1 DEF CoreInv, TypeOK
    <2> QED
      BY <2>1, <2>2, <2>3, StoreUntouched
  <1>2. CASE CloseLedger
    <2>1. /\ now \in Nat /\ now' = now + 1 /\ now < MaxTime /\ MaxTime \in Nat
          /\ UNCHANGED <<att, anchor, hist, reg, paused, auto_prune, rate, exempt,
                         fee_per_byte, zero_fee, rate_since>>
      BY <1>2, CoreAssumption DEF CloseLedger, storeVars, adminVars, CoreInv, TypeOK
    <2>2. TypeOK'
      <3>1. anchor' \in [UIDs -> [issuance : 0..now', revocation : 0..now']]
        BY <2>1 DEF CoreInv, TypeOK
      <3>2. hist' \in [Addrs -> SUBSET [at : 1..now', no : Nat \ {0}]]
        <4>1. [at : 1..now, no : Nat \ {0}] \subseteq [at : 1..now', no : Nat \ {0}]
          BY <2>1
        <4> QED
          BY <2>1, <4>1 DEF CoreInv, TypeOK
      <3> QED
        BY <2>1, <3>1, <3>2 DEF CoreInv, TypeOK
    <2>3. HistFinite' /\ AnchorsMatch' /\ EverValid'
      BY <2>1 DEF CoreInv, HistFinite, AnchorsMatch, AnchorMatches, EverValid,
                  HasValidLedger, HasAttestation
    <2>4. SchemaRulesHold'
      <3> SUFFICES ASSUME NEW u \in UIDs PROVE ObeysSchema(u)'
        BY DEF SchemaRulesHold
      <3>1. /\ ObeysSchema(u) /\ att[u].expiration_time \in Nat
            /\ reg[u.schema].max_ttl \in Nat
        BY ClaimFields, CoreAssumption
        DEF CoreInv, SchemaRulesHold, TypeOK, AttRec, SchemaView
      <3> QED
        BY <2>1, <3>1 DEF ObeysSchema, HasAttestation, WithinMaxTtl, CheckPolicy
    <2> QED
      BY <2>2, <2>3, <2>4 DEF CoreInv
  <1> QED
    BY <1>1, <1>2 DEF EnvStep

(* No step of the contract, and no stutter, breaks the invariant. *)
LEMMA NextInv == CoreInv /\ [Next]_coreVars => CoreInv'
  <1> SUFFICES ASSUME CoreInv, [Next]_coreVars PROVE CoreInv'
    OBVIOUS
  <1>1. CASE UNCHANGED coreVars
    <2>1. TypeOK' /\ UNCHANGED <<now, att, anchor, hist, reg>>
      BY <1>1 DEF CoreInv, TypeOK, coreVars, storeVars, adminVars
    <2> QED
      BY <2>1, StoreUntouched
  <1> QED
    BY <1>1, IssuePreserves, RevokePreserves, AmendPreserves, AdminPreserves, EnvPreserves
    DEF Next

(* CoreInv is an invariant of the contract. *)
THEOREM CoreInvariant == Spec => []CoreInv
  BY InitInv, NextInv, PTL DEF Spec

(* Every reachable store is well typed and carries no time from a ledger   *)
(* that has not closed yet (attest_internal, write_anchor).                *)
THEOREM TypeCorrect == Spec => []TypeOK
  <1>1. CoreInv => TypeOK
    BY DEF CoreInv
  <1> QED
    BY <1>1, CoreInvariant, PTL

(* The timestamp anchors always describe the stored records: the           *)
(* immutability panic of write_anchor is unreachable.                      *)
THEOREM AnchorsCorrect == Spec => []AnchorsMatch
  <1>1. CoreInv => AnchorsMatch
    BY DEF CoreInv
  <1> QED
    BY <1>1, CoreInvariant, PTL

(* No sequence of issuances, renewals and replacements stores a record     *)
(* that could not verify in any ledger.                                    *)
THEOREM EverValidCorrect == Spec => []EverValid
  <1>1. CoreInv => EverValid
    BY DEF CoreInv
  <1> QED
    BY <1>1, CoreInvariant, PTL

(* Every stored record keeps to its schema's revocation policy and maximum *)
(* TTL for as long as it is stored.                                        *)
THEOREM SchemaRulesCorrect == Spec => []SchemaRulesHold
  <1>1. CoreInv => SchemaRulesHold
    BY DEF CoreInv
  <1> QED
    BY <1>1, CoreInvariant, PTL

------------------------------------------------------------------------------
(* Everything a step can do to one record: nothing (perhaps while a ledger *)
(* closes), issue it, revoke it, renew it or prune it.                     *)
Kept(u)    == att'[u] = att[u] /\ (now' = now \/ now' = now + 1)
Created(u) == ~paused /\ ~HasAttestation(u) /\ reg[u.schema].live
Revoked(u) == ~paused /\ Revocable(u) /\ att'[u] = [att[u] EXCEPT !.revocation_time = now]
Renewed(u) == /\ ~paused /\ Renewable(u)
              /\ \E e \in Nat : /\ RenewableUntil(u, e)
                                /\ att'[u] = [att[u] EXCEPT !.expiration_time = e]
Pruned(u)  == Prunable(u) /\ att'[u] = Absent

Effect(u) ==
    \/ Kept(u)
    \/ now' = now /\ (Created(u) \/ Revoked(u) \/ Renewed(u) \/ Pruned(u))

(* A commit creates, revokes or keeps each record. *)
LEMMA CommitEffect ==
    ASSUME ~paused, NEW issued, NEW revoked, NEW u \in UIDs,
           \A a \in issued : ~HasAttestation(a.uid) /\ reg[a.uid.schema].live,
           \A v \in revoked : Revocable(v),
           Commit(issued, revoked)
    PROVE  Effect(u)
  <1>0. att' = Written(issued, revoked) /\ now' = now
    BY DEF Commit
  <1>1. CASE \E a \in issued : a.uid = u
    BY <1>0, <1>1 DEF Effect, Created
  <1>2. CASE u \in revoked /\ ~\E a \in issued : a.uid = u
    BY <1>0, <1>2 DEF Written, Effect, Revoked
  <1>3. CASE u \notin revoked /\ ~\E a \in issued : a.uid = u
    BY <1>0, <1>3 DEF Written, Effect, Kept
  <1> QED
    BY <1>1, <1>2, <1>3

(* Every step of the contract has one of those effects on every record. *)
LEMMA StepEffect ==
    ASSUME CoreInv, [Next]_coreVars, NEW u \in UIDs
    PROVE  Effect(u)
  <1>1. CASE IssueStep
    <2>1. ASSUME NEW a, NEW earlier, Issuable(a, earlier)
          PROVE  ~HasAttestation(a.uid) /\ reg[a.uid.schema].live
      BY <2>1 DEF Issuable
    <2>2. ASSUME NEW a, Attest(a) PROVE Effect(u)
      BY <2>1, <2>2, CommitEffect DEF Attest
    <2>3. ASSUME NEW batch, MultiAttest(batch) PROVE Effect(u)
      <3> DEFINE items == {batch[i] : i \in DOMAIN batch}
      <3>1. \A a \in items : ~HasAttestation(a.uid) /\ reg[a.uid.schema].live
        BY <2>1, <2>3 DEF MultiAttest
      <3>2. Commit(items, {}) /\ ~paused
        BY <2>3 DEF MultiAttest
      <3> HIDE DEF items
      <3> QED
        BY <3>1, <3>2, CommitEffect
    <2>4. ASSUME NEW items, BroadcastAttest(items) PROVE Effect(u)
      BY <2>1, <2>4, CommitEffect DEF BroadcastAttest
    <2> QED
      BY <1>1, <2>2, <2>3, <2>4 DEF IssueStep
  <1>2. CASE RevokeStep
    <2>1. ASSUME NEW S, ~paused, \A v \in S : Revocable(v), Commit({}, S) PROVE Effect(u)
      BY <2>1, CommitEffect
    <2>2. ASSUME NEW v, ~paused, Revocable(v), Commit({}, {v}) PROVE Effect(u)
      BY <2>1, <2>2
    <2> QED
      BY <1>2, <2>1, <2>2 DEF RevokeStep, Revoke, RevokeByAuthorizer, MultiRevoke, RevokeBySchema
  <1>3. CASE AmendStep
    <2>1. ASSUME NEW old \in UIDs, NEW new, ReplaceAttestation(old, new) PROVE Effect(u)
      <3> DEFINE linked == [new EXCEPT !.ref_uid = old]
      <3>1. Issuable(linked, {}) /\ Commit({linked}, {old}) /\ Revocable(old) /\ ~paused
        BY <2>1 DEF ReplaceAttestation, ReplaceInternal
      <3> HIDE DEF linked
      <3>2. ~HasAttestation(linked.uid) /\ reg[linked.uid.schema].live
        BY <3>1 DEF Issuable
      <3> QED
        BY <3>1, <3>2, CommitEffect
    <2>2. ASSUME NEW v \in UIDs, NEW e \in Expirations, RenewAttestation(v, e) PROVE Effect(u)
      <3>1. /\ att' = [att EXCEPT ![v].expiration_time = e] /\ now' = now /\ e \in Nat
            /\ ~paused /\ Renewable(v) /\ RenewableUntil(v, e)
        BY <2>2, CoreAssumption DEF RenewAttestation
      <3>2. CASE u = v
        <4>1. att'[u] = [att[u] EXCEPT !.expiration_time = e]
          BY <3>1, <3>2 DEF CoreInv, TypeOK
        <4> QED
          BY <3>1, <3>2, <4>1 DEF Effect, Renewed
      <3>3. CASE u # v
        BY <3>1, <3>3 DEF CoreInv, TypeOK, Effect, Kept
      <3> QED
        BY <3>2, <3>3
    <2>3. ASSUME NEW S, PruneExpired(S) PROVE Effect(u)
      BY <2>3 DEF PruneExpired, RemoveAttestations, Effect, Pruned, Kept
    <2> QED
      BY <1>3, <2>1, <2>2, <2>3 DEF AmendStep
  <1>4. CASE AdminStep
    BY <1>4 DEF AdminStep, SetPaused, SetAutoPrune, SetIssuanceRateLimit, SetRateLimitExempt,
                SetFeePerByte, SetSchemaZeroFee, storeVars, Effect, Kept
  <1>5. CASE EnvStep
    BY <1>5 DEF EnvStep, RegistryChange, CloseLedger, storeVars, Effect, Kept
  <1>6. CASE UNCHANGED coreVars
    BY <1>6 DEF coreVars, storeVars, Effect, Kept
  <1> QED
    BY <1>1, <1>2, <1>3, <1>4, <1>5, <1>6 DEF Next

(* The facts about one record that the action properties rest on. *)
LEMMA RecordFacts ==
    ASSUME CoreInv, NEW u \in UIDs
    PROVE  /\ now \in Nat \ {0}
           /\ att[u] \in AttRec
           /\ ~HasAttestation(u) => att[u].revocation_time = 0
  BY CoreAssumption DEF CoreInv, TypeOK, HasAttestation, Absent

(* A revoked record never changes again; it can only be pruned, and only   *)
(* after its expiration (revoke_internal, renew_attestation,               *)
(* prune_expired).                                                         *)
THEOREM RevokedFrozenCorrect == Spec => RevokedFrozen
  <1>1. ASSUME CoreInv, [Next]_coreVars, NEW u \in UIDs, att[u].revocation_time # 0
        PROVE  KeptOrPruned(u)
    <2>1. Effect(u) /\ HasAttestation(u)
      BY <1>1, StepEffect, RecordFacts
    <2> QED
      BY <1>1, <2>1 DEF KeptOrPruned, Effect, Kept, Created, Revoked, Renewed, Pruned,
         Revocable, Renewable
  <1>2. CoreInv /\ [Next]_coreVars
        => [\A u \in UIDs : att[u].revocation_time # 0 => KeptOrPruned(u)]_coreVars
    BY <1>1
  <1> QED
    BY <1>2, CoreInvariant, PTL DEF Spec, RevokedFrozen

(* A paused contract issues, revokes, renews and replaces nothing, by any  *)
(* entry point; it can only prune expired records.                         *)
THEOREM PauseCorrect == Spec => PauseStopsIssuance
  <1>1. ASSUME CoreInv, [Next]_coreVars, paused, NEW u \in UIDs
        PROVE  KeptOrPruned(u)
    <2>1. Effect(u)
      BY <1>1, StepEffect
    <2> QED
      BY <1>1, <2>1 DEF KeptOrPruned, Effect, Kept, Created, Revoked, Renewed, Pruned
  <1>2. CoreInv /\ [Next]_coreVars
        => [paused => \A u \in UIDs : KeptOrPruned(u)]_coreVars
    BY <1>1
  <1> QED
    BY <1>2, CoreInvariant, PTL DEF Spec, PauseStopsIssuance

(* Nothing is issued or revoked under a deprecated schema. *)
THEOREM DeprecationCorrect == Spec => DeprecationFreezes
  <1> DEFINE Frozen(u) == \/ att'[u] = att[u]
                          \/ att'[u] = Absent
                          \/ att'[u] = [att[u] EXCEPT !.expiration_time = att'[u].expiration_time]
  <1>1. ASSUME CoreInv, [Next]_coreVars, NEW u \in UIDs, ~reg[u.schema].live
        PROVE  Frozen(u)
    <2>1. Effect(u) /\ att[u] \in AttRec
      BY <1>1, StepEffect, RecordFacts
    <2>2. ASSUME NEW e \in Nat, att'[u] = [att[u] EXCEPT !.expiration_time = e]
          PROVE  Frozen(u)
      BY <2>1, <2>2 DEF AttRec
    <2> QED
      BY <1>1, <2>1, <2>2 DEF Effect, Kept, Created, Revoked, Renewed, Pruned, Revocable
  <1>2. CoreInv /\ [Next]_coreVars
        => [\A u \in UIDs : ~reg[u.schema].live => Frozen(u)]_coreVars
    BY <1>1
  <1> QED
    BY <1>2, CoreInvariant, PTL DEF Spec, DeprecationFreezes

(* The verdict of verify_attestation changes only by revocation, issuance  *)
(* and the passing of expiration_time and valid_from; no call revives a    *)
(* revoked or expired attestation.                                         *)
THEOREM VerdictCorrect == Spec => VerdictHistory
  <1>1. ASSUME CoreInv, [Next]_coreVars, NEW u \in UIDs
        PROVE  VerdictMoves(u)
    <2>1. Effect(u) /\ att[u] \in AttRec /\ now \in Nat \ {0}
      BY <1>1, StepEffect, RecordFacts
    <2>2. CASE att'[u] = att[u] /\ now' = now
      BY <2>2 DEF VerdictMoves, Verify, HasAttestation, NotExpired
    <2>3. CASE att'[u] = att[u] /\ now' = now + 1
      <3>1. HasAttestation(u)' <=> HasAttestation(u)
        BY <2>3 DEF HasAttestation
      <3>2. Verify(u)' <=> /\ HasAttestation(u)
                           /\ att[u].revocation_time = 0
                           /\ att[u].valid_from <= now + 1
                           /\ att[u].expiration_time = 0 \/ att[u].expiration_time > now + 1
        BY <2>3, <3>1 DEF Verify, NotExpired
      <3> QED
        BY <2>1, <2>3, <3>2 DEF VerdictMoves, Verify, NotExpired, AttRec
    <2>4. CASE now' = now /\ Created(u)
      BY <2>4 DEF Created, VerdictMoves, Verify
    <2>5. CASE now' = now /\ Revoked(u)
      <3>1. att'[u].revocation_time # 0
        BY <2>1, <2>5 DEF Revoked, AttRec
      <3> QED
        BY <2>5, <3>1 DEF Revoked, VerdictMoves, Verify
    <2>6. CASE now' = now /\ Renewed(u)
      <3>1. PICK e \in Nat : /\ RenewableUntil(u, e)
                             /\ att'[u] = [att[u] EXCEPT !.expiration_time = e]
        BY <2>6 DEF Renewed
      <3>2. /\ att'[u].revocation_time = att[u].revocation_time
            /\ att'[u].valid_from = att[u].valid_from
            /\ att'[u].expiration_time = e
            /\ att'[u].time = att[u].time
        BY <2>1, <3>1 DEF AttRec
      <3>3. /\ HasAttestation(u) /\ att[u].revocation_time = 0
            /\ NotExpired(att[u].expiration_time) /\ NotExpired(e)
        BY <2>6, <3>1 DEF Renewed, Renewable, RenewableUntil
      <3>4. HasAttestation(u)'
        <4>1. att[u].time # 0
          BY <1>1, <3>3 DEF CoreInv, AnchorsMatch, AnchorMatches
        <4> QED
          BY <3>2, <4>1 DEF HasAttestation, Absent
      <3>5. Verify(u)' <=> Verify(u)
        BY <2>6, <3>2, <3>3, <3>4 DEF Verify, NotExpired
      <3> QED
        BY <3>5 DEF VerdictMoves
    <2>7. CASE now' = now /\ Pruned(u)
      BY <2>7 DEF Pruned, Prunable, VerdictMoves, Verify, HasAttestation
    <2> QED
      BY <2>1, <2>2, <2>3, <2>4, <2>5, <2>6, <2>7 DEF Effect, Kept
  <1>2. CoreInv /\ [Next]_coreVars => [\A u \in UIDs : VerdictMoves(u)]_coreVars
    BY <1>1
  <1> QED
    BY <1>2, CoreInvariant, PTL DEF Spec, VerdictHistory

------------------------------------------------------------------------------
(* What one step does to the references and to the quota.                  *)

(* A non-empty set of naturals has a least element. *)
LEMMA NatMin ==
    ASSUME NEW T, T \subseteq Nat, T # {}
    PROVE  \E x \in T : \A y \in T : x <= y
  <1> DEFINE R == OpToRel(<, Nat)
  <1>1. IsWellFoundedOn(R, Nat)
    BY NatLessThanWellFounded
  <1>2. \A x, y \in Nat : y < x => <<y, x>> \in R
    BY DEF OpToRel
  <1> HIDE DEF R
  <1>3. PICK x \in T : \A y \in T : ~(<<y, x>> \in R)
    BY <1>1, WFMin
  <1>4. x \in Nat /\ \A y \in T : y \in Nat
    OBVIOUS
  <1>5. \A y \in T : ~(y < x)
    BY <1>2, <1>3, <1>4
  <1>6. \A y \in T : x <= y
    BY <1>4, <1>5
  <1> QED
    BY <1>6

(* A non-empty set of positions has a last one. *)
LEMMA LastPosition ==
    ASSUME NEW m \in Nat, NEW I, I \subseteq 1..m, I # {}
    PROVE  \E i \in I : \A j \in I : j <= i
  <1> DEFINE T == {m - i : i \in I}
  <1>0. \A i \in I : i \in Nat /\ i <= m
    OBVIOUS
  <1>1. T \subseteq Nat /\ T # {}
    <2>1. \A i \in I : m - i \in Nat
      BY <1>0
    <2>2. PICK k \in I : TRUE
      OBVIOUS
    <2>3. m - k \in T
      BY <2>2
    <2> QED
      BY <2>1, <2>3
  <1>2. PICK t \in T : \A y \in T : t <= y
    BY <1>1, NatMin
  <1>3. PICK i \in I : t = m - i
    BY <1>2
  <1>4. ASSUME NEW j \in I PROVE j <= i
    <2>1. m - j \in T
      BY <1>4
    <2>2. m - i <= m - j
      BY <2>1, <1>2, <1>3
    <2> QED
      BY <2>2, <1>0
  <1> QED
    BY <1>4


(* What attest_internal's checks say of everything one invocation issues:  *)
(* the UIDs are new and differ, every reference is to a stored record or   *)
(* to an item of the same invocation, the references within it lead back   *)
(* to earlier items, and no attester is taken past the quota.              *)
UidsNew(issued) ==
    \A a \in issued : ~HasAttestation(a.uid) /\ \A b \in issued : b.uid = a.uid => b = a

RefsLeadBack(issued) ==
    \A T \in (SUBSET issued) \ {{}} : \E a \in T : \A b \in T : b.uid # a.ref_uid

QuotaKept(issued) ==
    \A x \in Addrs : Limited(x) /\ By(x, issued) # {} =>
        Cardinality(Recent(x)) + Cardinality(By(x, issued)) <= rate.max_issuances

Accepted(issued) ==
    /\ issued \in SUBSET Request
    /\ IsFiniteSet(issued)
    /\ UidsNew(issued)
    /\ \A a \in issued : RefResolves(a, issued)
    /\ RefsLeadBack(issued)
    /\ QuotaKept(issued)

(* The counts of the quota are numbers. *)
LEMMA RecentFinite ==
    ASSUME CoreInv, NEW x \in Addrs
    PROVE  IsFiniteSet(Recent(x)) /\ Cardinality(Recent(x)) \in Nat
  <1>1. Recent(x) \in SUBSET hist[x] /\ IsFiniteSet(hist[x])
    BY DEF CoreInv, HistFinite, Recent
  <1> QED
    BY <1>1, FS_Subset, FS_CardinalityType

(* A limit in force is positive. *)
LEMMA LimitTyped ==
    ASSUME CoreInv, NEW x, Limited(x)
    PROVE  rate.max_issuances \in Nat \ {0} /\ rate.window \in Nat \ {0}
  BY CoreAssumption DEF CoreInv, TypeOK, Limited

(* A single item. *)
LEMMA OneAccepted ==
    ASSUME CoreInv, NEW a \in Request, Issuable(a, {})
    PROVE  Accepted({a})
  <1>1. UidsNew({a})
    BY DEF UidsNew, Issuable
  <1>2. \A b \in {a} : RefResolves(b, {a})
    BY DEF Issuable, RefResolves
  <1>3. RefsLeadBack({a})
    BY DEF RefsLeadBack, Issuable
  <1>4. QuotaKept({a})
    <2> SUFFICES ASSUME NEW x \in Addrs, Limited(x), By(x, {a}) # {}
                 PROVE  Cardinality(Recent(x)) + Cardinality(By(x, {a})) <= rate.max_issuances
      BY DEF QuotaKept
    <2>1. By(x, {a}) = {a} /\ By(x, {}) = {} /\ a.uid.attester = x
      BY DEF By
    <2>2. Cardinality(Recent(x)) + Cardinality(By(x, {})) < rate.max_issuances
      BY <2>1 DEF Issuable, QuotaLeft
    <2>3. Cardinality(By(x, {a})) = 1 /\ Cardinality(By(x, {})) = 0
      BY <2>1, FS_Singleton, FS_EmptySet
    <2> QED
      BY <2>2, <2>3, RecentFinite, LimitTyped
  <1> QED
    BY <1>1, <1>2, <1>3, <1>4, FS_Singleton DEF Accepted

(* A multi_attest batch: the first of some items refers to none of them,   *)
(* and the last item of an attester meets the quota with all the others.   *)
LEMMA BatchAccepted ==
    ASSUME CoreInv, NEW n \in Nat, NEW batch \in [1..n -> Request],
           \A i \in 1..n : Issuable(batch[i], {batch[j] : j \in {k \in 1..n : k < i}})
    PROVE  Accepted({batch[i] : i \in 1..n})
  <1> DEFINE items == {batch[i] : i \in 1..n}
             before(i) == {batch[j] : j \in {k \in 1..n : k < i}}
  <1>0. ASSUME NEW i \in 1..n
        PROVE  /\ ~HasAttestation(batch[i].uid)
               /\ \A j \in 1..n : j < i => batch[j].uid # batch[i].uid
               /\ batch[i].ref_uid # NoRef =>
                    HasAttestation(batch[i].ref_uid) \/ \E j \in 1..n : j < i /\ batch[j].uid = batch[i].ref_uid
               /\ QuotaLeft(batch[i].uid.attester, before(i))
    BY <1>0 DEF Issuable, RefResolves
  <1>1. ASSUME NEW i \in 1..n, NEW j \in 1..n, batch[i].uid = batch[j].uid
        PROVE  i = j
    <2>1. ~(i < j) /\ ~(j < i)
      BY <1>0, <1>1
    <2> QED
      BY <2>1
  <1>2. UidsNew(items)
    <2>1. ASSUME NEW a \in items, NEW b \in items
          PROVE  ~HasAttestation(a.uid) /\ (b.uid = a.uid => b = a)
      <3>1. PICK i \in 1..n : a = batch[i]
        OBVIOUS
      <3>2. PICK j \in 1..n : b = batch[j]
        OBVIOUS
      <3>3. b.uid = a.uid => i = j
        BY <1>1, <3>1, <3>2
      <3>4. ~HasAttestation(a.uid)
        BY <1>0, <3>1
      <3> QED
        BY <3>1, <3>2, <3>3, <3>4
    <2> HIDE DEF items
    <2> QED
      BY <2>1 DEF UidsNew
  <1>3. ASSUME NEW a \in items PROVE RefResolves(a, items)
    <2>1. PICK i \in 1..n : a = batch[i]
      BY <1>3
    <2>2. \A j \in 1..n : batch[j] \in items
      OBVIOUS
    <2>3. a.ref_uid # NoRef =>
             HasAttestation(a.ref_uid) \/ \E j \in 1..n : j < i /\ batch[j].uid = a.ref_uid
      BY <1>0, <2>1
    <2> HIDE DEF items
    <2> QED
      BY <2>2, <2>3 DEF RefResolves
  <1>4. RefsLeadBack(items)
    <2> SUFFICES ASSUME NEW T \in (SUBSET items) \ {{}}
                 PROVE  \E a \in T : \A b \in T : b.uid # a.ref_uid
      BY DEF RefsLeadBack
    <2> DEFINE I == {i \in 1..n : batch[i] \in T}
    <2>1. I \subseteq Nat /\ I # {}
      OBVIOUS
    <2>2. PICK i \in I : \A j \in I : i <= j
      BY <2>1, NatMin
    <2>3. ASSUME NEW b \in T, b.uid = batch[i].ref_uid PROVE FALSE
      <3>1. PICK j \in 1..n : b = batch[j]
        OBVIOUS
      <3>2. j \in I /\ i <= j /\ ~HasAttestation(b.uid)
        BY <1>0, <2>2, <3>1
      <3>3. b.uid \in UIDs /\ b.uid # NoRef
        BY <3>1, CoreAssumption DEF Request
      <3>4. PICK k \in 1..n : k < i /\ batch[k].uid = batch[i].ref_uid
        BY <1>0, <2>2, <2>3, <3>2, <3>3
      <3>5. k = j
        BY <1>1, <2>3, <3>1, <3>4
      <3> QED
        BY <3>2, <3>4, <3>5
    <2> QED
      BY <2>2, <2>3
  <1>5. IsFiniteSet(items)
    <2>1. batch \in Surjection(1..n, items)
      BY DEF Surjection
    <2> QED
      BY <2>1, FS_Surjection, FS_Interval
  <1>6. QuotaKept(items)
    <2> SUFFICES ASSUME NEW x \in Addrs, Limited(x), By(x, items) # {}
                 PROVE  Cardinality(Recent(x)) + Cardinality(By(x, items)) <= rate.max_issuances
      BY DEF QuotaKept
    <2> DEFINE I == {i \in 1..n : batch[i].uid.attester = x}
    <2>1. I \subseteq 1..n /\ I # {}
      BY DEF By
    <2>2. PICK i \in I : \A j \in I : j <= i
      BY <2>1, LastPosition
    <2>3. By(x, before(i)) = By(x, items) \ {batch[i]} /\ batch[i] \in By(x, items)
      <3>1. batch[i] \in By(x, items)
        BY <2>2 DEF By
      <3>2. ASSUME NEW b \in By(x, before(i)) PROVE b \in By(x, items) \ {batch[i]}
        BY <1>0, <2>2 DEF By
      <3>3. ASSUME NEW b \in By(x, items) \ {batch[i]} PROVE b \in By(x, before(i))
        <4>1. PICK j \in 1..n : b = batch[j]
          BY DEF By
        <4>2. j \in I /\ j # i
          BY <4>1 DEF By
        <4>3. j < i
          BY <2>2, <4>2
        <4> QED
          BY <4>1, <4>3 DEF By
      <3> QED
        BY <3>1, <3>2, <3>3
    <2>4. Cardinality(Recent(x)) + Cardinality(By(x, before(i))) < rate.max_issuances
      BY <1>0, <2>2 DEF QuotaLeft
    <2>5. IsFiniteSet(By(x, items))
      <3>1. By(x, items) \in SUBSET items
        BY DEF By
      <3> QED
        BY <1>5, <3>1, FS_Subset
    <2> HIDE DEF items, before
    <2>6. Cardinality(By(x, before(i))) = Cardinality(By(x, items)) - 1
      BY <2>3, <2>5, FS_RemoveElement
    <2>7. Cardinality(By(x, items)) \in Nat /\ Cardinality(Recent(x)) \in Nat
      BY <2>5, FS_CardinalityType, RecentFinite
    <2> QED
      BY <2>4, <2>6, <2>7, LimitTyped
  <1>7. items \in SUBSET Request
    OBVIOUS
  <1> QED
    BY <1>2, <1>3, <1>4, <1>5, <1>6, <1>7 DEF Accepted

(* A broadcast: the items refer to nothing and share their attester. *)
LEMMA BroadcastAccepted ==
    ASSUME CoreInv, NEW items \in SUBSET Request, IsFiniteSet(items),
           \A a \in items : a.ref_uid = NoRef /\ Issuable(a, items \ {a})
    PROVE  Accepted(items)
  <1>1. UidsNew(items)
    BY DEF UidsNew, Issuable
  <1>2. \A a \in items : RefResolves(a, items)
    BY DEF RefResolves
  <1>3. RefsLeadBack(items)
    <2>1. \A b \in items : b.uid # NoRef
      BY CoreAssumption DEF Request
    <2> QED
      BY <2>1 DEF RefsLeadBack
  <1>4. QuotaKept(items)
    <2> SUFFICES ASSUME NEW x \in Addrs, Limited(x), By(x, items) # {}
                 PROVE  Cardinality(Recent(x)) + Cardinality(By(x, items)) <= rate.max_issuances
      BY DEF QuotaKept
    <2>1. PICK a \in By(x, items) : TRUE
      OBVIOUS
    <2>2. a \in items /\ a.uid.attester = x /\ By(x, items \ {a}) = By(x, items) \ {a}
      BY <2>1 DEF By
    <2>3. Cardinality(Recent(x)) + Cardinality(By(x, items \ {a})) < rate.max_issuances
      BY <2>2 DEF Issuable, QuotaLeft
    <2>4. IsFiniteSet(By(x, items))
      <3>1. By(x, items) \in SUBSET items
        BY DEF By
      <3> QED
        BY <3>1, FS_Subset
    <2>5. Cardinality(By(x, items \ {a})) = Cardinality(By(x, items)) - 1
      <3>1. Cardinality(By(x, items) \ {a}) = Cardinality(By(x, items)) - 1
        BY <2>1, <2>4, FS_RemoveElement
      <3> QED
        BY <2>2, <3>1, Zenon
    <2>6. Cardinality(By(x, items)) \in Nat /\ Cardinality(Recent(x)) \in Nat
      BY <2>4, FS_CardinalityType, RecentFinite
    <2> QED
      BY <2>3, <2>5, <2>6, LimitTyped
  <1> QED
    BY <1>1, <1>2, <1>3, <1>4 DEF Accepted

(* The three shapes of a step, as the references and the quota see it: an  *)
(* invocation that issues and revokes, a step that issues nothing (records *)
(* are renewed or pruned, or a ledger closes), a change of the quota.      *)
Committed ==
    \E issued \in SUBSET Request, revoked \in SUBSET UIDs :
        /\ Accepted(issued)
        /\ \A u \in revoked : HasAttestation(u)
        /\ Commit(issued, revoked)

SameOrigin(u) ==
    HasAttestation(u) /\ att'[u].time = att[u].time /\ att'[u].ref_uid = att[u].ref_uid

Unissued ==
    /\ UNCHANGED <<hist, rate, exempt, rate_since>>
    /\ now' = now \/ now' = now + 1
    /\ \A u \in UIDs : HasAttestation(u)' => SameOrigin(u)
    /\ ~auto_prune => \A u \in UIDs : HasAttestation(u) => HasAttestation(u)'

Requoted ==
    /\ UNCHANGED <<now, att, hist>>
    /\ rate_since' = now

(* A step that leaves the records and the quota alone. *)
LEMMA StoreKept ==
    ASSUME CoreInv, UNCHANGED <<att, hist, rate, exempt, rate_since>>, now' = now \/ now' = now + 1
    PROVE  Unissued
  BY DEF Unissued, SameOrigin, HasAttestation

(* Every step has one of the three shapes. *)
LEMMA StepShape ==
    ASSUME CoreInv, [Next]_coreVars
    PROVE  Committed \/ Unissued \/ Requoted
  <1>1. CASE IssueStep
    <2>1. ASSUME NEW a \in Attestation, Attest(a) PROVE Committed
      <3>1. Accepted({a}) /\ {a} \in SUBSET Request
        BY <2>1, AttestationIsRequest, OneAccepted DEF Attest
      <3> QED
        BY <2>1, <3>1 DEF Attest, Committed
    <2>2. ASSUME NEW n \in 2..MaxBatch, NEW batch \in [1..n -> Attestation],
                 MultiAttest(batch)
          PROVE  Committed
      <3>1. batch \in [1..n -> Request] /\ n \in Nat /\ DOMAIN batch = 1..n
        BY AttestationIsRequest
      <3>2. \A i \in 1..n : Issuable(batch[i], {batch[j] : j \in {k \in 1..n : k < i}})
        BY <2>2, <3>1 DEF MultiAttest
      <3> DEFINE items == {batch[i] : i \in 1..n}
      <3>3. Accepted(items)
        BY <3>1, <3>2, BatchAccepted
      <3>4. Commit(items, {})
        BY <2>2, <3>1 DEF MultiAttest
      <3> HIDE DEF items
      <3> QED
        BY <3>3, <3>4 DEF Committed, Accepted
    <2>3. ASSUME NEW x \in Addrs, NEW s \in Schemas, NEW R \in (SUBSET Addrs) \ {{}},
                 NEW d \in Datas, NEW e \in Expirations, NEW b \in BOOLEAN,
                 {a.uid : a \in BroadcastItems(x, s, R, d, e, b)} \subseteq UIDs,
                 BroadcastAttest(BroadcastItems(x, s, R, d, e, b))
          PROVE  Committed
      <3> DEFINE item(r) == [uid |-> [schema |-> s, recipient |-> r, attester |-> x, data |-> d],
                             expiration_time |-> e, revocation_time |-> 0,
                             ref_uid |-> NoRef, revocable |-> b, valid_from |-> 0]
                 items == BroadcastItems(x, s, R, d, e, b)
                 f == [r \in R |-> item(r)]
      <3>1. IsFiniteSet(R)
        BY CoreAssumption, FS_Subset
      <3>2. f \in Surjection(R, items)
        BY DEF Surjection, BroadcastItems
      <3>3. IsFiniteSet(items)
        BY <3>1, <3>2, FS_Surjection
      <3>4. items \in SUBSET Request
        BY <2>3, CoreAssumption DEF BroadcastItems, Request
      <3>5. \A a \in items : a.ref_uid = NoRef
        BY DEF BroadcastItems
      <3>6. Commit(items, {}) /\ \A a \in items : Issuable(a, items \ {a})
        BY <2>3 DEF BroadcastAttest
      <3> HIDE DEF items
      <3>7. Accepted(items)
        BY <3>3, <3>4, <3>5, <3>6, BroadcastAccepted
      <3> QED
        BY <3>4, <3>6, <3>7 DEF Committed
    <2> QED
      BY <1>1, <2>1, <2>2, <2>3 DEF IssueStep
  <1>2. CASE RevokeStep
    <2>0. Accepted({})
      <3>1. \A x : By(x, {}) = {}
        BY DEF By
      <3> QED
        BY <3>1, FS_EmptySet DEF Accepted, UidsNew, RefsLeadBack, QuotaKept
    <2>1. ASSUME NEW S \in SUBSET UIDs, \A u \in S : Revocable(u), Commit({}, S)
          PROVE  Committed
      BY <2>0, <2>1 DEF Committed, Revocable
    <2>2. ASSUME NEW u \in UIDs, Revocable(u), Commit({}, {u})
          PROVE  Committed
      BY <2>1, <2>2
    <2> QED
      BY <1>2, <2>1, <2>2 DEF RevokeStep, Revoke, RevokeByAuthorizer, MultiRevoke, RevokeBySchema
  <1>3. CASE AmendStep
    <2>1. ASSUME NEW old \in UIDs, NEW new \in Attestation, ReplaceAttestation(old, new)
          PROVE  Committed
      <3> DEFINE linked == [new EXCEPT !.ref_uid = old]
      <3>1. Issuable(linked, {}) /\ Commit({linked}, {old}) /\ HasAttestation(old)
        BY <2>1 DEF ReplaceAttestation, ReplaceInternal
      <3>2. linked \in Request
        BY AttestationIsRequest DEF Request
      <3> HIDE DEF linked
      <3>3. Accepted({linked})
        BY <3>1, <3>2, OneAccepted
      <3> QED
        BY <3>1, <3>2, <3>3 DEF Committed
    <2>2. ASSUME NEW v \in UIDs, NEW e \in Expirations, RenewAttestation(v, e)
          PROVE  Unissued
      <3>1. /\ att' = [att EXCEPT ![v].expiration_time = e] /\ HasAttestation(v)
            /\ UNCHANGED <<now, hist, rate, exempt, rate_since>>
        BY <2>2 DEF RenewAttestation, Renewable, adminVars
      <3>2. ASSUME NEW u \in UIDs, HasAttestation(u) \/ HasAttestation(u)'
            PROVE  SameOrigin(u) /\ HasAttestation(u)'
        <4>1. CASE u # v
          BY <3>1, <3>2, <4>1 DEF SameOrigin, HasAttestation, CoreInv, TypeOK
        <4>2. CASE u = v
          <5>1. att[u] \in AttRec /\ att'[u] = [att[u] EXCEPT !.expiration_time = e]
            BY <3>1, <4>2 DEF CoreInv, TypeOK
          <5>2. att'[u].time = att[u].time /\ att'[u].ref_uid = att[u].ref_uid
            BY <5>1 DEF AttRec
          <5>3. att[u].time # 0
            BY <3>1, <4>2 DEF CoreInv, AnchorsMatch, AnchorMatches
          <5>4. att'[u] # Absent
            BY <5>2, <5>3 DEF Absent
          <5> QED
            BY <3>1, <4>2, <5>2, <5>4 DEF SameOrigin, HasAttestation
        <4> QED
          BY <4>1, <4>2
      <3> QED
        BY <3>1, <3>2 DEF Unissued
    <2>3. ASSUME NEW S, PruneExpired(S) PROVE Unissued
      BY <2>3 DEF PruneExpired, RemoveAttestations, adminVars, Unissued, SameOrigin, HasAttestation
    <2> QED
      BY <1>3, <2>1, <2>2, <2>3 DEF AmendStep
  <1>4. CASE AdminStep
    <2>1. \/ UNCHANGED <<now, att, hist, rate, exempt, rate_since>>
          \/ Requoted
      BY <1>4 DEF AdminStep, SetPaused, SetAutoPrune, SetIssuanceRateLimit, SetRateLimitExempt,
                  SetFeePerByte, SetSchemaZeroFee, storeVars, Requoted
    <2> QED
      BY <2>1, StoreKept
  <1>5. CASE EnvStep
    BY <1>5, StoreKept DEF EnvStep, RegistryChange, CloseLedger, storeVars, adminVars
  <1>6. CASE UNCHANGED coreVars
    BY <1>6, StoreKept DEF coreVars, storeVars, adminVars
  <1> QED
    BY <1>1, <1>2, <1>3, <1>4, <1>5, <1>6 DEF Next

(* What a commit leaves in the store, record by record. *)
LEMMA CommitRecords ==
    ASSUME CoreInv, NEW issued \in SUBSET Request, NEW revoked \in SUBSET UIDs,
           Accepted(issued), \A u \in revoked : HasAttestation(u),
           Commit(issued, revoked)
    PROVE  /\ \A a \in issued : /\ a.uid \in UIDs /\ HasAttestation(a.uid)'
                                /\ att'[a.uid].time = now /\ att'[a.uid].ref_uid = a.ref_uid
           /\ \A u \in UIDs : (\A a \in issued : a.uid # u) =>
                 /\ HasAttestation(u)' <=> HasAttestation(u)
                 /\ att'[u].time = att[u].time /\ att'[u].ref_uid = att[u].ref_uid
  <1>0. att' = Written(issued, revoked) /\ now \in Nat \ {0}
    BY CoreAssumption DEF Commit, CoreInv, TypeOK
  <1>1. ASSUME NEW a \in issued
        PROVE  /\ a.uid \in UIDs /\ HasAttestation(a.uid)'
               /\ att'[a.uid].time = now /\ att'[a.uid].ref_uid = a.ref_uid
    <2> DEFINE b == CHOOSE c \in issued : c.uid = a.uid
    <2>1. a \in Request /\ a.uid \in UIDs
      BY DEF Request
    <2>2. b \in issued /\ b.uid = a.uid
      OBVIOUS
    <2>3. b = a
      BY <2>2 DEF Accepted, UidsNew
    <2>4. att'[a.uid] = Issued(b)
      BY <1>0, <2>1 DEF Written
    <2> HIDE DEF b
    <2>5. att'[a.uid].time = now /\ att'[a.uid].ref_uid = a.ref_uid
      BY <2>3, <2>4 DEF Issued
    <2>6. att'[a.uid] # Absent
      BY <1>0, <2>5 DEF Absent
    <2> QED
      BY <2>1, <2>5, <2>6 DEF HasAttestation
  <1>2. ASSUME NEW u \in UIDs, \A a \in issued : a.uid # u
        PROVE  /\ HasAttestation(u)' <=> HasAttestation(u)
               /\ att'[u].time = att[u].time /\ att'[u].ref_uid = att[u].ref_uid
    <2>1. CASE u \notin revoked
      BY <1>0, <1>2, <2>1 DEF Written, HasAttestation
    <2>2. CASE u \in revoked
      <3>1. att'[u] = [att[u] EXCEPT !.revocation_time = now] /\ att[u] \in AttRec /\ HasAttestation(u)
        BY <1>0, <1>2, <2>2 DEF Written, CoreInv, TypeOK
      <3>2. att'[u].time = att[u].time /\ att'[u].ref_uid = att[u].ref_uid
        BY <3>1 DEF AttRec
      <3>3. att[u].time # 0
        BY <3>1 DEF CoreInv, AnchorsMatch, AnchorMatches
      <3>4. att'[u] # Absent
        BY <3>2, <3>3 DEF Absent
      <3> QED
        BY <3>1, <3>2, <3>4 DEF HasAttestation
    <2> QED
      BY <2>1, <2>2
  <1> QED
    BY <1>1, <1>2

------------------------------------------------------------------------------
(* References.                                                             *)

(* Nothing is pruned, so a reference is to a stored record. *)
RefsStored ==
    \A u, v \in UIDs : HasAttestation(u) /\ att[u].ref_uid = v => HasAttestation(v)

RefInv == RefsStored /\ RefsAcyclic

(* An invocation refers to what is stored or to what it issues first. *)
LEMMA CommitRefs ==
    ASSUME CoreInv, RefInv, NEW issued \in SUBSET Request, NEW revoked \in SUBSET UIDs,
           Accepted(issued), \A u \in revoked : HasAttestation(u),
           Commit(issued, revoked)
    PROVE  RefInv'
  <1> DEFINE N == {a.uid : a \in issued}
             New(a) == /\ a.uid \in UIDs /\ HasAttestation(a.uid)'
                       /\ att'[a.uid].ref_uid = a.ref_uid
             Old(u) == (HasAttestation(u)' <=> HasAttestation(u)) /\ att'[u].ref_uid = att[u].ref_uid
  <1>1. \A a \in issued : New(a)
    BY CommitRecords
  <1>2. \A u \in UIDs : u \notin N => Old(u)
    BY CommitRecords
  <1>3. \A u \in N : ~HasAttestation(u)
    BY DEF Accepted, UidsNew
  <1>6. RefsStored'
    <2> SUFFICES ASSUME NEW u \in UIDs, NEW v \in UIDs, HasAttestation(u)', att'[u].ref_uid = v
                 PROVE  HasAttestation(v)'
      BY DEF RefsStored, HasAttestation
    <2>0. HasAttestation(v) => HasAttestation(v)'
      BY <1>2, <1>3
    <2>1. CASE u \in N
      <3>1. PICK a \in issued : a.uid = u
        BY <2>1
      <3>2. a.ref_uid = v /\ v # NoRef
        BY <1>1, <3>1, CoreAssumption
      <3>3. HasAttestation(v) \/ \E e \in issued : e.uid = v
        BY <3>2 DEF Accepted, RefResolves
      <3> QED
        BY <1>1, <2>0, <3>3
    <2>2. CASE u \notin N
      <3>1. HasAttestation(u) /\ att[u].ref_uid = v
        BY <1>2, <2>2
      <3> QED
        BY <2>0, <3>1 DEF RefInv, RefsStored
    <2> QED
      BY <2>1, <2>2
  <1>7. RefsAcyclic'
    <2> SUFFICES ASSUME NEW S \in (SUBSET UIDs) \ {{}}
                 PROVE  \E u \in S : \A v \in S : ~(HasAttestation(u)' /\ att'[u].ref_uid = v)
      BY DEF RefsAcyclic, RefEdges, HasAttestation
    <2>1. CASE S \subseteq N
      <3> DEFINE T == {a \in issued : a.uid \in S}
      <3>1. T \in (SUBSET issued) \ {{}}
        BY <2>1
      <3>2. PICK a \in T : \A b \in T : b.uid # a.ref_uid
        BY <3>1 DEF Accepted, RefsLeadBack
      <3>3. a.uid \in S /\ att'[a.uid].ref_uid = a.ref_uid
        BY <1>1, <3>2
      <3>4. \A v \in S : \E b \in T : b.uid = v
        BY <2>1
      <3> HIDE DEF T
      <3> QED
        BY <3>2, <3>3, <3>4
    <2>2. CASE S \ N # {}
      <3>1. PICK u \in S \ N : \A v \in S \ N : ~(HasAttestation(u) /\ att[u].ref_uid = v)
        <4>1. S \ N \in (SUBSET UIDs) \ {{}}
          BY <2>2
        <4>2. PICK u \in S \ N : \A v \in S \ N : <<u, v>> \notin RefEdges
          BY <4>1 DEF RefInv, RefsAcyclic
        <4> HIDE DEF N
        <4> QED
          BY <4>2 DEF RefEdges
      <3>2. u \in UIDs /\ Old(u)
        BY <1>2, <3>1
      <3>3. ASSUME NEW v \in S, HasAttestation(u)', att'[u].ref_uid = v PROVE FALSE
        <4>1. HasAttestation(u) /\ att[u].ref_uid = v
          BY <3>2, <3>3
        <4>2. v \in N
          BY <3>1, <4>1
        <4>3. HasAttestation(v)
          BY <3>2, <4>1 DEF RefInv, RefsStored
        <4> QED
          BY <1>3, <4>2, <4>3
      <3> QED
        BY <3>1, <3>3
    <2> QED
      BY <2>1, <2>2
  <1> QED
    BY <1>6, <1>7 DEF RefInv

(* While nothing is pruned the other steps leave the references alone. *)
LEMMA UnissuedRefs ==
    ASSUME CoreInv, RefInv, ~auto_prune, Unissued
    PROVE  RefInv'
  <1>1. ASSUME NEW u \in UIDs
        PROVE  /\ HasAttestation(u)' <=> HasAttestation(u)
               /\ HasAttestation(u) => att'[u].ref_uid = att[u].ref_uid
    BY DEF Unissued, SameOrigin
  <1>3. RefsStored'
    <2> SUFFICES ASSUME NEW u \in UIDs, NEW v \in UIDs, HasAttestation(u)', att'[u].ref_uid = v
                 PROVE  HasAttestation(v)'
      BY DEF RefsStored, HasAttestation
    <2> QED
      BY <1>1 DEF RefInv, RefsStored
  <1>4. RefEdges' = RefEdges
    <2>1. ASSUME NEW e \in UIDs \X UIDs PROVE e \in RefEdges' <=> e \in RefEdges
      <3>1. e[1] \in UIDs
        OBVIOUS
      <3>2. (HasAttestation(e[1])' /\ att'[e[1]].ref_uid = e[2]) <=> (HasAttestation(e[1]) /\ att[e[1]].ref_uid = e[2])
        BY <1>1, <3>1
      <3> QED
        BY <3>2 DEF RefEdges, HasAttestation
    <2> QED
      BY <2>1 DEF RefEdges
  <1> QED
    BY <1>3, <1>4 DEF RefInv, RefsAcyclic

(* Every step keeps the references, while nothing is pruned. *)
LEMMA RefStep ==
    ASSUME CoreInv, RefInv, ~auto_prune, [Next]_coreVars
    PROVE  RefInv'
  <1>1. CASE Committed
    BY <1>1, CommitRefs DEF Committed
  <1>2. CASE Requoted
    BY <1>2 DEF Requoted, RefInv, RefsStored, RefsAcyclic, RefEdges, HasAttestation
  <1> QED
    BY <1>1, <1>2, UnissuedRefs, StepShape

(* While auto-pruning is off, following ref_uid from a stored attestation  *)
(* always ends, whatever mix of calls, batches and replacements wrote the  *)
(* references (attest_internal's InvalidRefUid check).                     *)
THEOREM RefsAcyclicCorrect == Spec /\ []~auto_prune => []RefsAcyclic
  <1>1. Init => RefInv
    BY DEF Init, RefInv, RefsStored, RefsAcyclic, RefEdges, HasAttestation
  <1>2. RefInv => RefsAcyclic
    BY DEF RefInv
  <1>3. CoreInv /\ RefInv /\ ~auto_prune /\ [Next]_coreVars => RefInv'
    BY RefStep
  <1> QED
    BY <1>1, <1>2, <1>3, CoreInvariant, PTL DEF Spec

------------------------------------------------------------------------------
(* The quota.                                                              *)

(* The records RateBound counts, and the history entries that charge for   *)
(* them.                                                                   *)
Counted(x) == {u \in UIDs : /\ u.attester = x
                            /\ HasAttestation(u)
                            /\ att[u].time > rate_since
                            /\ att[u].time + rate.window > now}

Charges(x) == {e \in Recent(x) : e.at > rate_since}

Times == [u \in UIDs |-> att[u].time]

(* Every UID of W is charged to an entry of H of its own ledger, no two to *)
(* the same.                                                               *)
Charged(W, H, t) ==
    \E f \in [W -> H] : /\ \A u, v \in W : f[u] = f[v] => u = v
                        /\ \A u \in W : f[u].at = t[u]

SameLedger(x) == {e \in hist[x] : e.at = now}

(* The numbers of a ledger's entries are used up in order. *)
Numbered == \A x \in Addrs : \A e \in SameLedger(x) : e.no <= Cardinality(SameLedger(x))

QuotaHolds(x) ==
    /\ Charged(Counted(x), Charges(x), Times)
    /\ Cardinality(Charges(x)) <= rate.max_issuances

RateInv == Numbered /\ \A x \in Addrs : Limited(x) => QuotaHolds(x)

(* So the records are no more than the entries. *)
LEMMA ChargedBound ==
    ASSUME NEW W, NEW H, NEW t, IsFiniteSet(H), Charged(W, H, t)
    PROVE  IsFiniteSet(W) /\ Cardinality(W) <= Cardinality(H)
  <1>1. PICK f \in [W -> H] : \A u, v \in W : f[u] = f[v] => u = v
    BY DEF Charged
  <1>2. f \in Injection(W, H)
    BY <1>1 DEF Injection, IsInjective
  <1> QED
    BY <1>2, FS_Injection

(* Records may leave the window, and entries nobody is charged to may go. *)
LEMMA ChargedKept ==
    ASSUME NEW W, NEW H, NEW t, NEW W2, NEW H2, NEW t2,
           Charged(W, H, t), W2 \subseteq W, \A u \in W2 : t2[u] = t[u],
           \A u \in W2, e \in H : e.at = t[u] => e \in H2
    PROVE  Charged(W2, H2, t2)
  <1>1. PICK f \in [W -> H] : /\ \A u, v \in W : f[u] = f[v] => u = v
                              /\ \A u \in W : f[u].at = t[u]
    BY DEF Charged
  <1> DEFINE g == [u \in W2 |-> f[u]]
  <1>2. g \in [W2 -> H2]
    BY <1>1
  <1>3. /\ \A u, v \in W2 : g[u] = g[v] => u = v
        /\ \A u \in W2 : g[u].at = t2[u]
    BY <1>1
  <1> HIDE DEF g
  <1> QED
    BY <1>2, <1>3 DEF Charged

(* The values of a list, and n entries of ledger c numbered from k + 1.    *)
ValuesOf(g, n) == {g[i] : i \in 1..n}
EntriesOf(c, k, n) == {[at |-> c, no |-> i] : i \in (k + 1)..(k + n)}

(* New records are charged to new entries of the open ledger. *)
LEMMA ChargedMore ==
    ASSUME NEW W, NEW H, NEW t, NEW t2, NEW n \in Nat, NEW k \in Nat, NEW c, NEW g, NEW N,
           N = ValuesOf(g, n),
           Charged(W, H, t), \A u \in W : t2[u] = t[u], \A u \in N : t2[u] = c,
           \A e \in H : e.at = c => e.no \in Nat /\ e.no <= k,
           NEW new, new = EntriesOf(c, k, n)
    PROVE  Charged(W \cup N, H \cup new, t2)
  <1>1. PICK f \in [W -> H] : /\ \A u, v \in W : f[u] = f[v] => u = v
                              /\ \A u \in W : f[u].at = t[u]
    BY DEF Charged
  <1> DEFINE pos(u) == CHOOSE i \in 1..n : g[i] = u
             h == [u \in W \cup N |-> IF u \in W THEN f[u] ELSE [at |-> c, no |-> k + pos(u)]]
  <1>2. ASSUME NEW u \in N PROVE pos(u) \in 1..n /\ g[pos(u)] = u
    BY <1>2 DEF ValuesOf
  <1> HIDE DEF pos
  <1>3. ASSUME NEW u \in W \cup N
        PROVE  /\ u \in W => h[u] = f[u] /\ h[u] \in H /\ h[u].at = t2[u]
               /\ u \notin W => /\ h[u] = [at |-> c, no |-> k + pos(u)]
                                /\ k + pos(u) \in (k + 1)..(k + n)
                                /\ h[u] \in new /\ h[u].at = t2[u]
    <2>1. u \in W => h[u] = f[u] /\ h[u] \in H /\ h[u].at = t2[u]
      BY <1>1
    <2>2. u \notin W => u \in N /\ h[u] = [at |-> c, no |-> k + pos(u)]
      OBVIOUS
    <2>3. u \in N => k + pos(u) \in (k + 1)..(k + n)
      BY <1>2
    <2> HIDE DEF h
    <2>4. u \notin W => h[u] \in new /\ h[u].at = t2[u]
      BY <2>2, <2>3 DEF EntriesOf
    <2> QED
      BY <2>1, <2>2, <2>3, <2>4
  <1>4. h \in [W \cup N -> H \cup new]
    BY <1>3
  <1> HIDE DEF h
  <1>5. ASSUME NEW u \in W \cup N, NEW v \in W \cup N, h[u] = h[v], u \notin W
        PROVE  u = v
    <2>0. ASSUME NEW w \in W \cup N, w \notin W
          PROVE  h[w].at = c /\ h[w].no = k + pos(w) /\ w \in N /\ pos(w) \in 1..n /\ g[pos(w)] = w
      <3>1. h[w] = [at |-> c, no |-> k + pos(w)]
        BY <1>3, <2>0
      <3>2. w \in N
        BY <2>0
      <3>3. pos(w) \in 1..n /\ g[pos(w)] = w
        BY <1>2, <3>2
      <3> QED
        BY <3>1, <3>2, <3>3
    <2>1. h[u].at = c /\ h[u].no = k + pos(u) /\ u \in N /\ pos(u) \in 1..n /\ g[pos(u)] = u
      BY <1>5, <2>0
    <2>2. CASE v \in W
      <3>1. h[v] \in H
        BY <1>3, <2>2
      <3>2. h[v].no \in Nat /\ h[v].no <= k
        BY <1>5, <2>1, <3>1
      <3>3. h[v].no = k + pos(u)
        BY <1>5, <2>1
      <3> QED
        BY <2>1, <3>2, <3>3
    <2>3. CASE v \notin W
      <3>1. h[v].no = k + pos(v) /\ v \in N /\ pos(v) \in 1..n /\ g[pos(v)] = v
        BY <2>0, <2>3
      <3>2. pos(u) = pos(v)
        BY <1>5, <2>1, <3>1
      <3> QED
        BY <2>1, <3>1, <3>2
    <2> QED
      BY <2>2, <2>3
  <1>6. ASSUME NEW u \in W \cup N, NEW v \in W \cup N, h[u] = h[v]
        PROVE  u = v
    <2>1. CASE u \in W /\ v \in W
      BY <1>1, <1>3, <1>6, <2>1
    <2>2. CASE u \notin W
      BY <1>5, <1>6, <2>2
    <2>3. CASE v \notin W
      BY <1>5, <1>6, <2>3
    <2> QED
      BY <2>1, <2>2, <2>3
  <1>7. \A u \in W \cup N : h[u].at = t2[u]
    BY <1>3
  <1> QED
    BY <1>4, <1>6, <1>7 DEF Charged

(* The types the quota's arithmetic needs. *)
LEMMA QuotaTypes ==
    ASSUME CoreInv
    PROVE  /\ now \in Nat \ {0} /\ rate_since \in Nat
           /\ \A u \in UIDs : att[u].time \in Nat /\ att[u].time <= now
           /\ \A x \in Addrs : /\ hist[x] \in SUBSET [at : 1..now, no : Nat \ {0}]
                               /\ IsFiniteSet(hist[x]) /\ IsFiniteSet(Charges(x))
                               /\ IsFiniteSet(SameLedger(x))
           /\ rate.window \in Nat /\ rate.max_issuances \in Nat
  <1>1. now \in Nat \ {0} /\ rate_since \in Nat
    BY CoreAssumption DEF CoreInv, TypeOK
  <1>2. ASSUME NEW u \in UIDs PROVE att[u].time \in Nat /\ att[u].time <= now
    <2>1. att[u].time = anchor[u].issuance /\ anchor[u].issuance \in 0..now
      BY DEF CoreInv, TypeOK, AnchorsMatch, AnchorMatches
    <2> QED
      BY <1>1, <2>1
  <1>3. ASSUME NEW x \in Addrs
        PROVE  /\ hist[x] \in SUBSET [at : 1..now, no : Nat \ {0}]
               /\ IsFiniteSet(hist[x]) /\ IsFiniteSet(Charges(x)) /\ IsFiniteSet(SameLedger(x))
    <2>1. IsFiniteSet(hist[x]) /\ hist[x] \in SUBSET [at : 1..now, no : Nat \ {0}]
      BY DEF CoreInv, HistFinite, TypeOK
    <2>2. Charges(x) \in SUBSET hist[x] /\ SameLedger(x) \in SUBSET hist[x]
      BY DEF Charges, Recent, SameLedger
    <2> QED
      BY <2>1, <2>2, FS_Subset
  <1>4. rate.window \in Nat /\ rate.max_issuances \in Nat
    BY CoreAssumption DEF CoreInv, TypeOK, NoLimit
  <1> QED
    BY <1>1, <1>2, <1>3, <1>4

(* Renewal, pruning and the passing of time only relieve the quota. *)
LEMMA UnissuedQuota ==
    ASSUME CoreInv, CoreInv', RateInv, Unissued
    PROVE  RateInv'
  <1>0. /\ UNCHANGED <<hist, rate, exempt, rate_since>>
        /\ now' = now \/ now' = now + 1
        /\ \A u \in UIDs : HasAttestation(u)' => HasAttestation(u) /\ att'[u].time = att[u].time
    BY DEF Unissued, SameOrigin
  <1>1. Numbered'
    <2> SUFFICES ASSUME NEW x \in Addrs, NEW e \in SameLedger(x)'
                 PROVE  e.no <= Cardinality(SameLedger(x)')
      BY DEF Numbered
    <2>1. e \in hist[x] /\ e.at = now'
      BY <1>0 DEF SameLedger
    <2>2. e.at <= now
      BY <2>1, QuotaTypes
    <2>3. now' = now
      BY <1>0, <2>1, <2>2, QuotaTypes
    <2>4. SameLedger(x)' = SameLedger(x)
      BY <1>0, <2>3 DEF SameLedger
    <2> QED
      BY <2>4 DEF RateInv, Numbered
  <1>2. ASSUME NEW x \in Addrs, Limited(x)' PROVE QuotaHolds(x)'
    <2>1. Limited(x) /\ QuotaHolds(x)
      BY <1>0, <1>2 DEF Limited, RateInv
    <2>2. ASSUME NEW u \in Counted(x)'
          PROVE  /\ u \in Counted(x) /\ u \in UIDs /\ Times'[u] = Times[u]
                 /\ Times[u] > rate_since /\ Times[u] + rate.window > now'
      <3>1. /\ u \in UIDs /\ u.attester = x /\ HasAttestation(u) /\ att'[u].time = att[u].time
            /\ att[u].time > rate_since /\ att[u].time + rate.window > now'
        BY <1>0, <2>2 DEF Counted
      <3>2. att[u].time + rate.window > now
        BY <1>0, <3>1, QuotaTypes
      <3> QED
        BY <3>1, <3>2 DEF Counted, Times
    <2>3. ASSUME NEW u \in Counted(x)', NEW e \in Charges(x), e.at = Times[u]
          PROVE  e \in Charges(x)'
      BY <1>0, <2>2, <2>3 DEF Charges, Recent
    <2>4. Charged(Counted(x)', Charges(x)', Times')
      <3>1. Charged(Counted(x), Charges(x), Times) /\ Counted(x)' \subseteq Counted(x)
        BY <2>1, <2>2 DEF QuotaHolds
      <3>2. \A u \in Counted(x)' : Times'[u] = Times[u]
        BY <2>2
      <3>3. \A u \in Counted(x)', e \in Charges(x) : e.at = Times[u] => e \in Charges(x)'
        BY <2>3
      <3>a. PICK W : W = Counted(x) OBVIOUS
      <3>b. PICK H : H = Charges(x) OBVIOUS
      <3>c. PICK t : t = Times OBVIOUS
      <3>d. PICK W2 : W2 = Counted(x)' OBVIOUS
      <3>e. PICK H2 : H2 = Charges(x)' OBVIOUS
      <3>f. PICK t2 : t2 = Times' OBVIOUS
      <3>4. Charged(W2, H2, t2)
        BY <3>1, <3>2, <3>3, <3>a, <3>b, <3>c, <3>d, <3>e, <3>f, ChargedKept
      <3> QED
        BY <3>4, <3>d, <3>e, <3>f
    <2>5. Charges(x)' \in SUBSET Charges(x)
      <3>1. \A e \in hist[x] : e.at \in Nat
        BY QuotaTypes
      <3> QED
        BY <1>0, <3>1, QuotaTypes DEF Charges, Recent
    <2>6. IsFiniteSet(Charges(x)) /\ rate.max_issuances \in Nat
      BY QuotaTypes
    <2>7. Cardinality(Charges(x)') <= rate'.max_issuances
      <3>a. PICK H : H = Charges(x) OBVIOUS
      <3>b. PICK H2 : H2 = Charges(x)' OBVIOUS
      <3>1. Cardinality(H2) <= Cardinality(H) /\ IsFiniteSet(H2)
        BY <2>5, <2>6, <3>a, <3>b, FS_Subset
      <3>2. Cardinality(H2) \in Nat /\ Cardinality(H) \in Nat
        BY <2>6, <3>1, <3>a, FS_CardinalityType
      <3>3. Cardinality(H) <= rate.max_issuances
        BY <2>1, <3>a DEF QuotaHolds
      <3>4. Cardinality(H2) <= rate.max_issuances
        BY <2>6, <3>1, <3>2, <3>3
      <3> QED
        BY <1>0, <3>4, <3>b
    <2> QED
      BY <2>4, <2>7 DEF QuotaHolds
  <1> QED
    BY <1>1, <1>2 DEF RateInv

(* After a change of the quota the count starts anew. *)
LEMMA RequotedQuota ==
    ASSUME CoreInv, CoreInv', RateInv, Requoted
    PROVE  RateInv'
  <1>0. UNCHANGED <<now, att, hist>> /\ rate_since' = now
    BY DEF Requoted
  <1>1. Numbered'
    BY <1>0 DEF RateInv, Numbered, SameLedger
  <1>2. ASSUME NEW x \in Addrs, Limited(x)' PROVE QuotaHolds(x)'
    <2>1. Counted(x)' = {}
      <3>1. \A u \in UIDs : ~(att'[u].time > rate_since')
        BY <1>0, QuotaTypes
      <3> QED
        BY <3>1 DEF Counted
    <2>2. Charges(x)' = {}
      <3>1. \A e \in hist'[x] : ~(e.at > rate_since')
        BY <1>0, QuotaTypes
      <3> QED
        BY <3>1 DEF Charges, Recent
    <2>3. rate'.max_issuances \in Nat
      BY CoreAssumption DEF CoreInv, TypeOK, NoLimit
    <2>4. \A t : Charged({}, {}, t)
      <3> DEFINE f == [u \in {} |-> u]
      <3>1. f \in [{} -> {}]
        OBVIOUS
      <3> HIDE DEF f
      <3> QED
        BY <3>1 DEF Charged
    <2>5. Charged(Counted(x)', Charges(x)', Times')
      BY <2>1, <2>2, <2>4
    <2>6. Cardinality(Charges(x)') = 0
      BY <2>2, FS_EmptySet, Zenon
    <2>7. Cardinality(Charges(x)') <= rate'.max_issuances
      BY <2>3, <2>6
    <2> QED
      BY <2>5, <2>7 DEF QuotaHolds
  <1> QED
    BY <1>1, <1>2 DEF RateInv

(* What a commit does to the history of an attester it charges. *)
LEMMA CommitHistory ==
    ASSUME CoreInv, RateInv, NEW issued \in SUBSET Request, Accepted(issued),
           hist' = QuotaUsed(issued), now' = now,
           NEW x \in Addrs, Limited(x), By(x, issued) # {},
           NEW n, n = Cardinality(By(x, issued)), NEW k, k = Cardinality(SameLedger(x))
    PROVE  /\ n \in Nat /\ k \in Nat
           /\ hist'[x] = Recent(x) \cup {[at |-> now, no |-> i] : i \in (k + 1)..(k + n)}
           /\ Cardinality(hist'[x]) <= rate.max_issuances
           /\ IsFiniteSet(hist'[x])
           /\ Cardinality(SameLedger(x)') = k + n
  <1> DEFINE new == {[at |-> now, no |-> i] : i \in (k + 1)..(k + n)}
  <1>1. IsFiniteSet(By(x, issued)) /\ n \in Nat /\ n > 0
    <2>1. By(x, issued) \in SUBSET issued /\ IsFiniteSet(issued)
      BY DEF By, Accepted
    <2>2. IsFiniteSet(By(x, issued))
      BY <2>1, FS_Subset
    <2>3. n \in Nat /\ n # 0
      BY <2>2, FS_CardinalityType, FS_EmptySet
    <2> QED
      BY <2>2, <2>3
  <1>2. k \in Nat /\ IsFiniteSet(SameLedger(x)) /\ now \in Nat
    BY QuotaTypes, FS_CardinalityType
  <1>3. SameLedger(x) = {e \in Recent(x) : e.at = now}
    <2>1. rate.window \in Nat \ {0}
      BY LimitTyped
    <2>2. \A e \in hist[x] : e.at = now => e.at + rate.window > now
      BY <1>2, <2>1
    <2> QED
      BY <2>2 DEF SameLedger, Recent
  <1>4. hist'[x] = Recent(x) \cup new
    <2>1. Cardinality({e \in Recent(x) : e.at = now}) = k
      BY <1>3, Zenon
    <2>2. QuotaUsed(issued)[x] =
            LET m == Cardinality(By(x, issued))
                j == Cardinality({e \in Recent(x) : e.at = now})
            IN  IF m > 0 /\ Limited(x)
                  THEN Recent(x) \cup {[at |-> now, no |-> i] : i \in (j + 1)..(j + m)}
                  ELSE hist[x]
      BY DEF QuotaUsed
    <2>3. hist'[x] = IF n > 0 /\ Limited(x) THEN Recent(x) \cup new ELSE hist[x]
      BY <2>1, <2>2
    <2> QED
      BY <1>1, <2>3
  <1>5. IsFiniteSet(new) /\ Cardinality(new) = n
    <2> DEFINE I == (k + 1)..(k + n)
               f == [i \in I |-> [at |-> now, no |-> i]]
    <2>1. IsFiniteSet(I) /\ Cardinality(I) = n
      <3>1. k + 1 \in Int /\ k + n \in Int /\ ~(k + 1 > k + n) /\ (k + n) - (k + 1) + 1 = n
        BY <1>1, <1>2
      <3> QED
        BY <3>1, FS_Interval
    <2>2. f \in Bijection(I, new)
      BY DEF Bijection, Injection, Surjection, IsInjective
    <2>3. ExistsBijection(I, new)
      BY <2>2 DEF ExistsBijection
    <2> HIDE DEF I
    <2>4. IsFiniteSet(new) /\ Cardinality(new) = Cardinality(I)
      BY <2>1, <2>3, FS_Bijection
    <2> QED
      BY <2>1, <2>4
  <1>6. IsFiniteSet(hist'[x]) /\ Cardinality(hist'[x]) <= rate.max_issuances
    <2>0. PICK R : R = Recent(x)
      OBVIOUS
    <2>1. IsFiniteSet(R) /\ Cardinality(R) \in Nat /\ Cardinality(R) + n <= rate.max_issuances
      BY <2>0, RecentFinite DEF Accepted, QuotaKept
    <2> HIDE DEF new
    <2>2. /\ IsFiniteSet(R \cup new)
          /\ Cardinality(R \cup new) = Cardinality(R) + n - Cardinality(R \cap new)
      BY <1>5, <2>1, FS_Union
    <2>3. Cardinality(R \cap new) \in Nat
      BY <2>1, FS_Intersection, FS_CardinalityType
    <2>4. rate.max_issuances \in Nat
      BY LimitTyped
    <2>5. Cardinality(R \cup new) <= rate.max_issuances
      BY <1>1, <2>1, <2>2, <2>3, <2>4
    <2> QED
      BY <1>4, <2>0, <2>2, <2>5, Zenon
  <1>7. Cardinality(SameLedger(x)') = k + n
    <2>0. PICK L : L = SameLedger(x)
      OBVIOUS
    <2>1. SameLedger(x)' = L \cup new
      <3>1. \A e \in new : e.at = now
        OBVIOUS
      <3> HIDE DEF new
      <3> QED
        BY <1>3, <1>4, <2>0, <3>1 DEF SameLedger
    <2>2. L \cap new = {}
      <3>1. \A e \in L : e.no <= k
        BY <2>0 DEF RateInv, Numbered
      <3>2. \A e \in new : e.no >= k + 1 /\ e.no \in Nat
        BY <1>1, <1>2
      <3> HIDE DEF new
      <3> QED
        BY <1>2, <3>1, <3>2
    <2> HIDE DEF new
    <2>3. Cardinality(L \cup new) = Cardinality(L) + Cardinality(new) - Cardinality(L \cap new)
      BY <1>2, <1>5, <2>0, FS_Union
    <2>4. Cardinality(L \cap new) = 0
      BY <2>2, FS_EmptySet, Zenon
    <2>5. Cardinality(L \cup new) = k + n
      BY <1>1, <1>2, <1>5, <2>0, <2>3, <2>4
    <2> QED
      BY <2>1, <2>5, Zenon
  <1> QED
    BY <1>1, <1>2, <1>4, <1>6, <1>7

(* An invocation charges for what it issues. *)
LEMMA CommitQuota ==
    ASSUME CoreInv, CoreInv', RateInv, NEW issued \in SUBSET Request, NEW revoked \in SUBSET UIDs,
           Accepted(issued), \A u \in revoked : HasAttestation(u),
           Commit(issued, revoked)
    PROVE  RateInv'
  <1>0. hist' = QuotaUsed(issued) /\ UNCHANGED <<now, rate, exempt, rate_since>>
    BY DEF Commit, adminVars
  <1>1. ASSUME NEW x \in Addrs, ~(Limited(x) /\ By(x, issued) # {})
        PROVE  hist'[x] = hist[x]
    <2>1. By(x, issued) = {} => Cardinality(By(x, issued)) = 0
      BY FS_EmptySet
    <2> QED
      BY <1>0, <1>1, <2>1 DEF QuotaUsed
  <1>2. Numbered'
    <2> SUFFICES ASSUME NEW x \in Addrs, NEW e \in SameLedger(x)'
                 PROVE  e.no <= Cardinality(SameLedger(x)')
      BY DEF Numbered
    <2>1. CASE hist'[x] = hist[x]
      <3>1. SameLedger(x)' = SameLedger(x)
        BY <1>0, <2>1 DEF SameLedger
      <3> QED
        BY <3>1 DEF RateInv, Numbered
    <2>2. CASE Limited(x) /\ By(x, issued) # {}
      <3>1. PICK n : n = Cardinality(By(x, issued))
        OBVIOUS
      <3>2. PICK k : k = Cardinality(SameLedger(x))
        OBVIOUS
      <3>3. /\ n \in Nat /\ k \in Nat
            /\ hist'[x] = Recent(x) \cup {[at |-> now, no |-> i] : i \in (k + 1)..(k + n)}
            /\ Cardinality(SameLedger(x)') = k + n
        BY <1>0, <2>2, <3>1, <3>2, CommitHistory
      <3>4. e \in hist'[x] /\ e.at = now
        BY <1>0 DEF SameLedger
      <3>5. CASE e \in Recent(x)
        <4>1. e \in SameLedger(x) /\ e.no \in Nat
          BY <3>4, <3>5, QuotaTypes DEF Recent, SameLedger
        <4>2. e.no <= k
          BY <3>2, <4>1 DEF RateInv, Numbered
        <4> QED
          BY <3>3, <4>1, <4>2
      <3>6. CASE e \in {[at |-> now, no |-> i] : i \in (k + 1)..(k + n)}
        <4>1. e.no \in Nat /\ e.no <= k + n
          BY <3>3, <3>6
        <4> QED
          BY <3>3, <4>1
      <3> QED
        BY <3>3, <3>4, <3>5, <3>6
    <2> QED
      BY <1>1, <2>1, <2>2
  <1>3. ASSUME NEW x \in Addrs, Limited(x)' PROVE QuotaHolds(x)'
    <2>0. Limited(x) /\ QuotaHolds(x)
      BY <1>0, <1>3 DEF Limited, RateInv
    <2> DEFINE N == {a.uid : a \in By(x, issued)}
    <2>1. ASSUME NEW u \in Counted(x)'
          PROVE  /\ u \in Counted(x) \cup N /\ u \in UIDs
                 /\ Times'[u] > rate_since /\ Times'[u] + rate.window > now
      <3>1. /\ u \in UIDs /\ u.attester = x /\ HasAttestation(u)'
            /\ att'[u].time > rate_since /\ att'[u].time + rate.window > now
        BY <1>0, <2>1 DEF Counted
      <3>2. CASE \E a \in issued : a.uid = u
        BY <3>1, <3>2 DEF By, Times
      <3>3. CASE \A a \in issued : a.uid # u
        <4>1. HasAttestation(u) /\ att'[u].time = att[u].time
          BY <3>1, <3>3, CommitRecords
        <4> QED
          BY <3>1, <4>1 DEF Counted, Times
      <3> QED
        BY <3>2, <3>3
    <2>2. \A u \in N : u \in UIDs /\ Times'[u] = now
      BY CommitRecords DEF By, Times
    <2>3. \A u \in Counted(x) : Times'[u] = Times[u]
      <3> SUFFICES ASSUME NEW u \in Counted(x) PROVE Times'[u] = Times[u]
        OBVIOUS
      <3>1. u \in UIDs /\ HasAttestation(u)
        BY DEF Counted
      <3>2. \A a \in issued : a.uid # u
        BY <3>1 DEF Accepted, UidsNew
      <3> QED
        BY <3>1, <3>2, CommitRecords DEF Times
    <2>a. PICK W : W = Counted(x) OBVIOUS
    <2>b. PICK H : H = Charges(x) OBVIOUS
    <2>c. PICK t : t = Times OBVIOUS
    <2>d. PICK W2 : W2 = Counted(x)' OBVIOUS
    <2>e. PICK H2 : H2 = Charges(x)' OBVIOUS
    <2>f. PICK t2 : t2 = Times' OBVIOUS
    <2>g. Charged(W, H, t) /\ Cardinality(H) <= rate.max_issuances
      BY <2>0, <2>a, <2>b, <2>c DEF QuotaHolds
    <2>4. CASE By(x, issued) = {}
      <3>1. hist'[x] = hist[x]
        BY <1>1, <2>4
      <3>2. H2 = H
        BY <1>0, <3>1, <2>b, <2>e DEF Charges, Recent
      <3>3. W2 \subseteq W
        BY <2>1, <2>4, <2>a, <2>d
      <3>4. \A u \in W2 : t2[u] = t[u]
        BY <3>3, <2>3, <2>a, <2>c, <2>f
      <3>5. Charged(W2, H2, t2)
        BY <3>2, <3>3, <3>4, <2>g, ChargedKept
      <3> QED
        BY <1>0, <3>2, <3>5, <2>d, <2>e, <2>f, <2>g DEF QuotaHolds
    <2>5. CASE By(x, issued) # {}
      <3>1. PICK n : n = Cardinality(By(x, issued))
        OBVIOUS
      <3>2. PICK k : k = Cardinality(SameLedger(x))
        OBVIOUS
      <3> DEFINE new == {[at |-> now, no |-> i] : i \in (k + 1)..(k + n)}
      <3>3. /\ n \in Nat /\ k \in Nat
            /\ hist'[x] = Recent(x) \cup new
            /\ IsFiniteSet(hist'[x]) /\ Cardinality(hist'[x]) <= rate.max_issuances
        BY <1>0, <2>0, <2>5, <3>1, <3>2, CommitHistory
      <3>4. PICK c : c = now
        OBVIOUS
      <3>5. \A e \in H : e.at = c => e.no \in Nat /\ e.no <= k
        <4> SUFFICES ASSUME NEW e \in H, e.at = c PROVE e.no \in Nat /\ e.no <= k
          OBVIOUS
        <4>1. e \in hist[x] /\ e \in SameLedger(x)
          BY <2>b, <3>4 DEF Charges, Recent, SameLedger
        <4> QED
          BY <3>2, <4>1, QuotaTypes DEF RateInv, Numbered
      <3>6. PICK g : N = {g[i] : i \in 1..n}
        <4>1. IsFiniteSet(By(x, issued))
          <5>1. By(x, issued) \in SUBSET issued /\ IsFiniteSet(issued)
            BY DEF By, Accepted
          <5> QED
            BY <5>1, FS_Subset
        <4>2. ExistsBijection(1..n, By(x, issued))
          BY <3>1, <4>1, FS_CardinalityType
        <4>3. PICK h : h \in Bijection(1..n, By(x, issued))
          BY <4>2 DEF ExistsBijection
        <4>4. h \in [1..n -> By(x, issued)] /\ \A a \in By(x, issued) : \E i \in 1..n : h[i] = a
          BY <4>3 DEF Bijection, Surjection
        <4> DEFINE q == [i \in 1..n |-> h[i].uid]
        <4>5. N = {q[i] : i \in 1..n}
          <5>1. \A i \in 1..n : q[i] = h[i].uid /\ h[i] \in By(x, issued)
            BY <4>4
          <5> HIDE DEF q
          <5> QED
            BY <4>4, <5>1
        <4> HIDE DEF q, N
        <4> QED
          BY <4>5
      <3>7. PICK M : M = N
        OBVIOUS
      <3>8. \A u \in W : t2[u] = t[u]
        BY <2>3, <2>a, <2>c, <2>f
      <3>9. \A u \in M : t2[u] = c
        BY <2>2, <2>f, <3>4, <3>7
      <3>10. PICK P : P = new
        OBVIOUS
      <3>11. Charged(W \cup M, H \cup P, t2)
        <4>1. n \in Nat /\ k \in Nat /\ M = ValuesOf(g, n)
          BY <3>3, <3>6, <3>7 DEF ValuesOf
        <4>2. P = EntriesOf(c, k, n)
          BY <3>4, <3>10 DEF EntriesOf
        <4> HIDE DEF N, new
        <4> QED
          BY <4>1, <4>2, <3>5, <3>8, <3>9, <2>g, ChargedMore
      <3>12. PICK H1 : H1 = H \cup P
        OBVIOUS
      <3>13. W2 \subseteq W \cup M
        BY <2>1, <2>a, <2>d, <3>7
      <3>14. ASSUME NEW u \in W2, NEW e \in H1, e.at = t2[u] PROVE e \in H2
        <4>1. e \in hist'[x]
          BY <3>3, <3>10, <3>12, <3>14, <2>b DEF Charges
        <4>2. e.at > rate_since /\ e.at + rate.window > now
          BY <2>1, <2>d, <2>f, <3>14
        <4> QED
          BY <1>0, <2>e, <4>1, <4>2 DEF Charges, Recent
      <3>16. \A u \in W2 : t2[u] = t2[u]
        OBVIOUS
      <3>15. Charged(W2, H2, t2)
        BY <3>11, <3>12, <3>13, <3>14, <3>16, ChargedKept
      <3>17. Cardinality(H2) <= rate.max_issuances
        <4>1. H2 \in SUBSET hist'[x]
          BY <2>e DEF Charges, Recent
        <4>2. PICK L : L = hist'[x]
          OBVIOUS
        <4>3. IsFiniteSet(L) /\ Cardinality(L) <= rate.max_issuances
          BY <3>3, <4>2
        <4>4. IsFiniteSet(H2) /\ Cardinality(H2) <= Cardinality(L)
          BY <4>1, <4>2, <4>3, FS_Subset
        <4>5. Cardinality(H2) \in Nat /\ Cardinality(L) \in Nat /\ rate.max_issuances \in Nat
          BY <4>3, <4>4, FS_CardinalityType, QuotaTypes
        <4> QED
          BY <4>3, <4>4, <4>5
      <3> QED
        BY <1>0, <3>15, <3>17, <2>d, <2>e, <2>f DEF QuotaHolds
    <2> QED
      BY <2>4, <2>5
  <1> QED
    BY <1>2, <1>3 DEF RateInv

(* Every step keeps the quota. *)
LEMMA RateStep ==
    ASSUME CoreInv, RateInv, [Next]_coreVars
    PROVE  RateInv'
  <1>0. CoreInv'
    BY NextInv
  <1>1. CASE Committed
    BY <1>0, <1>1, CommitQuota DEF Committed
  <1>2. CASE Unissued
    BY <1>0, <1>2, UnissuedQuota
  <1>3. CASE Requoted
    BY <1>0, <1>3, RequotedQuota
  <1> QED
    BY <1>1, <1>2, <1>3, StepShape

(* consume_issuance_quota keeps every attester who is not exempt           *)
(* within the quota of the sliding window.                                 *)
THEOREM RateBoundCorrect == Spec => []RateBound
  <1>1. Init => RateInv
    BY DEF Init, RateInv, Numbered, SameLedger, Limited
  <1>2. CoreInv /\ RateInv => RateBound
    <2> SUFFICES ASSUME CoreInv, RateInv, NEW x \in Addrs, Limited(x)
                 PROVE  Cardinality(Counted(x)) <= rate.max_issuances
      BY DEF RateBound, Counted
    <2>1. IsFiniteSet(Charges(x)) /\ rate.max_issuances \in Nat
      BY QuotaTypes
    <2>2. Charged(Counted(x), Charges(x), Times) /\ Cardinality(Charges(x)) <= rate.max_issuances
      BY DEF RateInv, QuotaHolds
    <2>a. PICK W : W = Counted(x) OBVIOUS
    <2>b. PICK H : H = Charges(x) OBVIOUS
    <2>c. PICK t : t = Times OBVIOUS
    <2>3. IsFiniteSet(W) /\ Cardinality(W) <= Cardinality(H)
      BY <2>1, <2>2, <2>a, <2>b, <2>c, ChargedBound
    <2>4. Cardinality(W) \in Nat /\ Cardinality(H) \in Nat
      BY <2>1, <2>3, <2>b, FS_CardinalityType
    <2> QED
      BY <2>1, <2>2, <2>3, <2>4, <2>a, <2>b
  <1>3. CoreInv /\ RateInv /\ [Next]_coreVars => RateInv'
    BY RateStep
  <1> QED
    BY <1>1, <1>2, <1>3, CoreInvariant, PTL DEF Spec
==============================================================================
