---------------------------- MODULE IndexerProofs ----------------------------
(***************************************************************************)
(* What the indexer promises, for any number of attestations and any chunk *)
(* geometry: its counters are exact, every gap in the index was announced, *)
(* its readers return the history of their key, and it implements the      *)
(* append-only IndexLedger.                                                *)
(*                                                                         *)
(* The argument rests on the shape of a step.  Whatever the SAS contract   *)
(* or a repair does, at most one UID is pushed and at most one is marked   *)
(* (StepShape).  A push appends the UID once to the vector of each of its  *)
(* keys, moves no other UID, and there is room for it because the counters *)
(* are exact and the UID was not counted yet (RoomLeft); so the counters   *)
(* stay exact and Found grows by exactly the UID's keys (FoundPushed).     *)
(*                                                                         *)
(* The readers need more than membership.  As long as an address has one   *)
(* role and every push used the same capacity c, entry p of a key's        *)
(* history stands at offset p % c of chunk p \div c (Laid, ReadInv); each   *)
(* reader is then shown to walk through those positions in turn.           *)
(***************************************************************************)
EXTENDS Indexer, CollectionTheorems

(* A chunked vector lists a UID. *)
Holds(ch, u) == \E i \in 0..MaxChunk : \E j \in DOMAIN ch[i] : ch[i][j] = u

Vectors == [0..MaxChunk -> Seq(UIDs)]

(* A chunk number is no larger than the position it is computed from. *)
LEMMA DivBound ==
    ASSUME NEW n \in Nat, NEW c \in Nat \ {0}
    PROVE  n \div c \in 0..n
OBVIOUS

(* A push lists its UID and leaves the others where they are. *)
LEMMA PushedVectors ==
    ASSUME NEW ch \in Vectors, NEW n \in Nat, n < Cardinality(UIDs), NEW c \in Nat \ {0}, NEW u \in UIDs
    PROVE  /\ Pushed(ch, n, c, u) \in Vectors
           /\ Holds(Pushed(ch, n, c, u), u)
           /\ \A v \in UIDs : v # u => (Holds(Pushed(ch, n, c, u), v) <=> Holds(ch, v))
<1>. DEFINE i == TargetChunk(ch, n, c)
            new == [ch EXCEPT ![i] = Append(@, u)]
<1>0. Cardinality(UIDs) \in Nat /\ MaxChunk \in Nat /\ MaxChunk > Cardinality(UIDs)
    BY IndexerAssumption, FS_CardinalityType
<1>1. i \in 0..MaxChunk
    <2>1. n \div c \in 0..n
        BY DivBound
    <2>2. i = n \div c \/ i = (n \div c) + 1
        BY DEF TargetChunk
    <2>. HIDE DEF i
    <2>3. PICK q : q = n \div c
        OBVIOUS
    <2>. QED BY <1>0, <2>1, <2>2, <2>3
<1>2. Pushed(ch, n, c, u) = new
    BY DEF Pushed
<1>. HIDE DEF i
<1>3. ch[i] \in Seq(UIDs) /\ Append(ch[i], u) \in Seq(UIDs)
    BY <1>1 DEF Vectors
<1>4. new \in Vectors /\ new[i] = Append(ch[i], u) /\ \A x \in 0..MaxChunk : x # i => new[x] = ch[x]
    BY <1>1, <1>3 DEF Vectors
<1>. HIDE DEF new
<1>5. /\ DOMAIN new[i] = 1..Len(ch[i]) + 1 /\ DOMAIN ch[i] = 1..Len(ch[i]) /\ Len(ch[i]) \in Nat
      /\ new[i][Len(ch[i]) + 1] = u
      /\ \A j \in 1..Len(ch[i]) : new[i][j] = ch[i][j]
    BY <1>3, <1>4
<1>6. Holds(new, u)
    BY <1>1, <1>5 DEF Holds
<1>7. ASSUME NEW v \in UIDs, v # u PROVE Holds(new, v) <=> Holds(ch, v)
    <2>1. ASSUME Holds(new, v) PROVE Holds(ch, v)
        <3>1. PICK x \in 0..MaxChunk : \E j \in DOMAIN new[x] : new[x][j] = v
            BY <2>1 DEF Holds
        <3>2. PICK j \in DOMAIN new[x] : new[x][j] = v
            BY <3>1
        <3>3. CASE x # i
            BY <1>4, <3>2, <3>3 DEF Holds
        <3>4. CASE x = i
            <4>1. j \in 1..Len(ch[i]) /\ ch[i][j] = v
                BY <1>5, <1>7, <3>2, <3>4
            <4>. QED BY <1>1, <1>5, <4>1 DEF Holds
        <3>. QED BY <3>3, <3>4
    <2>2. ASSUME Holds(ch, v) PROVE Holds(new, v)
        <3>1. PICK x \in 0..MaxChunk : \E j \in DOMAIN ch[x] : ch[x][j] = v
            BY <2>2 DEF Holds
        <3>2. PICK j \in DOMAIN ch[x] : ch[x][j] = v
            BY <3>1
        <3>3. CASE x # i
            BY <1>4, <3>2, <3>3 DEF Holds
        <3>4. CASE x = i
            <4>1. j \in DOMAIN new[i] /\ new[i][j] = v
                BY <1>5, <3>2, <3>4
            <4>. QED BY <1>1, <4>1 DEF Holds
        <3>. QED BY <3>3, <3>4
    <2>. QED BY <2>1, <2>2
<1>. QED BY <1>2, <1>4, <1>6, <1>7

------------------------------------------------------------------------------
(* The inductive invariant.                                                *)

Statuses == {"Active", "Revoked", "Replaced"}

Attestation == [expiration_time : Nat, revoked : BOOLEAN, valid_from : Nat, live : BOOLEAN]

IndexTypeOK ==
    /\ stored \in [UIDs -> Attestation]
    /\ rec \in [UIDs -> Expirations \cup {NoRec}]
    /\ total \in [Dims \X Keys -> Nat]
    /\ chunk \in [Keys -> Vectors]
    /\ direct \subseteq (Addrs \cup Schemas) \X UIDs
    /\ mapped \in [Addrs \cup Schemas -> Nat]
    /\ status \in [UIDs -> Statuses]
    /\ capacity \in Nat \ {0}

(* What reindex_attestation replays was issued. *)
ExpirationsIssued == \A u \in UIDs : stored[u].live => stored[u].expiration_time \in Expirations

IndexInv == IndexTypeOK /\ ExpirationsIssued /\ CountsExact /\ GapsAnnounced

(* The types of the constants. *)
LEMMA IndexerConstants ==
    /\ IsFiniteSet(UIDs) /\ Expirations \subseteq Nat /\ NoRec \notin Expirations
    /\ MAX_CHUNK_SIZE \in Nat \ {0} /\ MID_CHUNK_SIZE \in Nat \ {0} /\ MIN_CHUNK_SIZE \in Nat \ {0}
    /\ \A r \in Requests : r.uid \in UIDs /\ r.expiration_time \in Expirations /\ r.valid_from \in Nat
<1>1. MAX_CHUNK_SIZE \in Nat \ {0} /\ MID_CHUNK_SIZE \in Nat \ {0} /\ MIN_CHUNK_SIZE \in Nat \ {0}
    BY IndexerAssumption
<1>. QED BY <1>1, IndexerAssumption

(* The lookup keys of an attestation. *)
LEMMA KeysTyped ==
    ASSUME NEW d \in Dims, NEW u \in UIDs, NEW e
    PROVE  KeyOf(d, u, e) \in Keys
<1>1. u.recipient \in Addrs /\ u.attester \in Addrs /\ u.schema \in Schemas
    BY IndexerAssumption
<1>. QED BY <1>1 DEF KeyOf, Dims, Keys, ExpirationStatus

(* A push of u lists u under its keys and leaves what else is listed. *)
LEMMA ChunksPushed ==
    ASSUME IndexTypeOK, NEW u \in UIDs, NEW e \in Expirations, NEW k \in Keys,
           \A p \in Dims \X Keys : total[p] < Cardinality(UIDs)
    PROVE  /\ ChunksWith(k, u, e) \in Vectors
           /\ \A v \in UIDs : v # u => (Holds(ChunksWith(k, u, e), v) <=> Holds(chunk[k], v))
           /\ (\E d \in Dims : k = KeyOf(d, u, e)) => Holds(ChunksWith(k, u, e), u)
<1>. DEFINE before == chunk[k]
            n1 == total[<<"recipient", k>>]
            n2 == total[<<"attester", k>>]
            n3 == total[<<"schema", k>>]
            n4 == total[<<"expiration", k>>]
            asRecipient == IF k = u.recipient THEN Pushed(before, n1, capacity, u) ELSE before
<1>1. before \in Vectors /\ capacity \in Nat \ {0} /\ MAX_CHUNK_SIZE \in Nat \ {0}
    BY IndexerConstants DEF IndexTypeOK
<1>2. /\ n1 \in Nat /\ n1 < Cardinality(UIDs) /\ n2 \in Nat /\ n2 < Cardinality(UIDs)
      /\ n3 \in Nat /\ n3 < Cardinality(UIDs) /\ n4 \in Nat /\ n4 < Cardinality(UIDs)
    <2>1. \A d \in Dims : <<d, k>> \in Dims \X Keys
        OBVIOUS
    <2>2. \A d \in Dims : total[<<d, k>>] \in Nat /\ total[<<d, k>>] < Cardinality(UIDs)
        BY <2>1 DEF IndexTypeOK
    <2>. QED BY <2>2 DEF Dims
<1>3. ChunksWith(k, u, e) =
        CASE k = u.attester -> Pushed(asRecipient, n2, capacity, u)
          [] k = u.schema -> Pushed(before, n3, capacity, u)
          [] k = KeyOf("expiration", u, e) -> Pushed(before, n4, MAX_CHUNK_SIZE, u)
          [] OTHER -> asRecipient
    BY DEF ChunksWith
<1>4. PICK w : w = ChunksWith(k, u, e)
    OBVIOUS
<1>. HIDE DEF before, n1, n2, n3, n4
<1>5. /\ asRecipient \in Vectors
      /\ \A v \in UIDs : v # u => (Holds(asRecipient, v) <=> Holds(before, v))
      /\ k = u.recipient => Holds(asRecipient, u)
    BY <1>1, <1>2, PushedVectors
<1>. HIDE DEF asRecipient
<1>. DEFINE p2 == Pushed(asRecipient, n2, capacity, u)
            p3 == Pushed(before, n3, capacity, u)
            p4 == Pushed(before, n4, MAX_CHUNK_SIZE, u)
<1>6. /\ p2 \in Vectors /\ Holds(p2, u)
      /\ \A v \in UIDs : v # u => (Holds(p2, v) <=> Holds(asRecipient, v))
    BY <1>1, <1>2, <1>5, PushedVectors
<1>7. /\ p3 \in Vectors /\ Holds(p3, u)
      /\ \A v \in UIDs : v # u => (Holds(p3, v) <=> Holds(before, v))
    BY <1>1, <1>2, PushedVectors
<1>8. /\ p4 \in Vectors /\ Holds(p4, u)
      /\ \A v \in UIDs : v # u => (Holds(p4, v) <=> Holds(before, v))
    BY <1>1, <1>2, PushedVectors
<1>9. (\E d \in Dims : k = KeyOf(d, u, e)) =>
          k = u.attester \/ k = u.schema \/ k = KeyOf("expiration", u, e) \/ k = u.recipient
    BY DEF KeyOf, Dims
<1>10. PICK x : x = KeyOf("expiration", u, e)
    OBVIOUS
<1>11. w = CASE k = u.attester -> p2 [] k = u.schema -> p3 [] k = x -> p4 [] OTHER -> asRecipient
    BY <1>3, <1>4, <1>10
<1>. HIDE DEF p2, p3, p4
<1>12. \/ w = p2 \/ w = p3 \/ w = p4
       \/ w = asRecipient /\ k # u.attester /\ k # u.schema /\ k # x
    BY <1>11
<1>13. /\ w \in Vectors
       /\ \A v \in UIDs : v # u => (Holds(w, v) <=> Holds(before, v))
       /\ (\E d \in Dims : k = KeyOf(d, u, e)) => Holds(w, u)
    BY <1>5, <1>6, <1>7, <1>8, <1>9, <1>10, <1>12
<1>. QED BY <1>4, <1>13 DEF before

(* While a UID is not indexed no count has reached the number of UIDs. *)
LEMMA RoomLeft ==
    ASSUME IndexTypeOK, CountsExact, NEW u \in UIDs, rec[u] = NoRec
    PROVE  \A p \in Dims \X Keys : total[p] < Cardinality(UIDs)
<1>1. Cardinality(UIDs) \in Nat /\ IsFiniteSet(UIDs \ {u}) /\ Cardinality(UIDs \ {u}) = Cardinality(UIDs) - 1
    BY IndexerConstants, FS_CardinalityType, FS_RemoveElement
<1>2. ASSUME NEW d \in Dims, NEW k \in Keys PROVE total[<<d, k>>] < Cardinality(UIDs)
    <2>1. Under(d, k) \subseteq UIDs \ {u}
        BY DEF Under, Indexed
    <2>2. Cardinality(Under(d, k)) <= Cardinality(UIDs \ {u}) /\ Cardinality(Under(d, k)) \in Nat
        BY <1>1, <2>1, FS_Subset, FS_CardinalityType
    <2>3. total[<<d, k>>] = Cardinality(Under(d, k))
        BY DEF CountsExact, GetCountBy, IndexTotal
    <2>. QED BY <1>1, <2>2, <2>3
<1>. QED BY <1>2

(* One more UID under its keys. *)
LEMMA UnderPushed ==
    ASSUME IndexTypeOK, NEW u \in UIDs, NEW e \in Expirations, rec[u] = NoRec, IndexWrites(u, e),
           NEW d \in Dims, NEW k \in Keys
    PROVE  /\ Indexed' = Indexed \cup {u} /\ u \notin Indexed
           /\ k = KeyOf(d, u, e) => Under(d, k)' = Under(d, k) \cup {u}
           /\ k # KeyOf(d, u, e) => Under(d, k)' = Under(d, k)
           /\ u \notin Under(d, k)
<1>1. rec'[u] = e /\ e # NoRec /\ \A v \in UIDs : v # u => rec'[v] = rec[v]
    BY IndexerConstants DEF IndexTypeOK, IndexWrites
<1>2. Indexed' = Indexed \cup {u} /\ u \notin Indexed /\ Indexed \subseteq UIDs
    BY <1>1 DEF Indexed
<1>3. \A v \in Indexed : KeyOf(d, v, rec'[v]) = KeyOf(d, v, rec[v])
    BY <1>1, <1>2
<1>4. Under(d, k)' = {v \in Indexed' : KeyOf(d, v, rec'[v]) = k}
    BY DEF Under
<1>5. KeyOf(d, u, rec'[u]) = KeyOf(d, u, e)
    BY <1>1
<1>. QED BY <1>2, <1>3, <1>4, <1>5 DEF Under

CountsOK(d, k) == total[<<d, k>>] = Cardinality(Under(d, k))

MapsOK(k) ==
    /\ mapped[k] = Cardinality({u \in UIDs : <<k, u>> \in direct})
    /\ \A u \in UIDs : <<k, u>> \in direct <=> u \in Indexed /\ k \in {u.recipient, u.schema}

(* CountsExact, counter by counter. *)
LEMMA CountsParts ==
    CountsExact <=> /\ \A d \in Dims, k \in Keys : CountsOK(d, k)
                    /\ \A k \in Addrs \cup Schemas : MapsOK(k)
BY DEF CountsExact, CountsOK, MapsOK, GetCountBy, IndexTotal, HasMapping

(* A push raises the counters of its own keys by one. *)
LEMMA CountPushed ==
    ASSUME IndexTypeOK, NEW u \in UIDs, NEW e \in Expirations, rec[u] = NoRec, IndexWrites(u, e),
           NEW d \in Dims, NEW k \in Keys, CountsOK(d, k)
    PROVE  CountsOK(d, k)'
<1>1. total'[<<d, k>>] = IF k = KeyOf(d, u, e) THEN total[<<d, k>>] + 1 ELSE total[<<d, k>>]
    BY DEF IndexWrites
<1>2. /\ k = KeyOf(d, u, e) => Under(d, k)' = Under(d, k) \cup {u}
      /\ k # KeyOf(d, u, e) => Under(d, k)' = Under(d, k)
      /\ u \notin Under(d, k)
    BY UnderPushed
<1>3. IsFiniteSet(Under(d, k))
    BY IndexerConstants, FS_Subset DEF Under, Indexed
<1>4. Cardinality(Under(d, k) \cup {u}) = Cardinality(Under(d, k)) + 1
    BY <1>2, <1>3, FS_AddElement
<1>5. CASE k = KeyOf(d, u, e)
    <2>1. Under(d, k)' = Under(d, k) \cup {u} /\ total'[<<d, k>>] = total[<<d, k>>] + 1
        BY <1>1, <1>2, <1>5
    <2>2. Cardinality(Under(d, k)') = Cardinality(Under(d, k)) + 1
        BY <1>4, <2>1, Zenon
    <2>. QED BY <2>1, <2>2 DEF CountsOK
<1>6. CASE k # KeyOf(d, u, e)
    <2>1. Under(d, k)' = Under(d, k) /\ total'[<<d, k>>] = total[<<d, k>>]
        BY <1>1, <1>2, <1>6
    <2>2. Cardinality(Under(d, k)') = Cardinality(Under(d, k))
        BY <2>1, Zenon
    <2>. QED BY <2>1, <2>2 DEF CountsOK
<1>. QED BY <1>5, <1>6

(* A push raises the counters of its own direct mappings by one. *)
LEMMA MapPushed ==
    ASSUME IndexTypeOK, NEW u \in UIDs, NEW e \in Expirations, rec[u] = NoRec, IndexWrites(u, e),
           NEW k \in Addrs \cup Schemas, MapsOK(k)
    PROVE  MapsOK(k)'
<1>. DEFINE M == {v \in UIDs : <<k, v>> \in direct}
<1>1. /\ mapped'[k] = IF k \in {u.recipient, u.schema} /\ <<k, u>> \notin direct THEN mapped[k] + 1 ELSE mapped[k]
      /\ direct' = direct \cup {<<u.recipient, u>>, <<u.schema, u>>}
    BY DEF IndexWrites
<1>2. Indexed' = Indexed \cup {u} /\ u \notin Indexed
    <2>1. "schema" \in Dims /\ k \in Keys
        BY DEF Dims, Keys
    <2>. QED BY <2>1, UnderPushed
<1>3. <<k, u>> \notin direct
    BY <1>2 DEF MapsOK
<1>4. /\ \A v \in UIDs : v # u => (<<k, v>> \in direct' <=> <<k, v>> \in direct)
      /\ <<k, u>> \in direct' <=> k \in {u.recipient, u.schema}
    BY <1>1, <1>3
<1>5. \A v \in UIDs : <<k, v>> \in direct' <=> v \in Indexed' /\ k \in {v.recipient, v.schema}
    BY <1>2, <1>4 DEF MapsOK
<1>6. IsFiniteSet(M) /\ u \notin M
    BY <1>3, IndexerConstants, FS_Subset
<1>7. Cardinality(M) = mapped[k]
    BY DEF MapsOK
<1>8. M' = IF k \in {u.recipient, u.schema} THEN M \cup {u} ELSE M
    <2>1. \A v : v \in M' <=> v \in M \/ (v = u /\ k \in {u.recipient, u.schema})
        BY <1>3, <1>4
    <2>. HIDE DEF M
    <2>. QED BY <2>1
<1>9. \A X : X = M' => Cardinality(X) = mapped'[k]
    <2>. HIDE DEF M
    <2>0. mapped'[k] = IF k \in {u.recipient, u.schema} THEN mapped[k] + 1 ELSE mapped[k]
        BY <1>1, <1>3
    <2>1. CASE k \in {u.recipient, u.schema}
        <3>1. Cardinality(M \cup {u}) = mapped[k] + 1
            BY <1>6, <1>7, FS_AddElement
        <3>2. Cardinality(M') = mapped[k] + 1
            BY <1>8, <2>1, <3>1
        <3>. QED BY <2>0, <2>1, <3>2
    <2>2. CASE k \notin {u.recipient, u.schema}
        BY <1>7, <1>8, <2>0, <2>2
    <2>. QED BY <2>1, <2>2
<1>10. mapped'[k] = Cardinality({v \in UIDs : <<k, v>> \in direct'})
    BY <1>9
<1>. QED BY <1>5, <1>10 DEF MapsOK

(* index_attestation keeps the layout and the counts. *)
LEMMA PushInv ==
    ASSUME IndexTypeOK, CountsExact, NEW u \in UIDs, NEW e \in Expirations, rec[u] = NoRec, IndexWrites(u, e)
    PROVE  /\ rec' \in [UIDs -> Expirations \cup {NoRec}] /\ total' \in [Dims \X Keys -> Nat]
           /\ chunk' \in [Keys -> Vectors] /\ direct' \subseteq (Addrs \cup Schemas) \X UIDs
           /\ mapped' \in [Addrs \cup Schemas -> Nat]
           /\ CountsExact'
<1>1. \A p \in Dims \X Keys : total[p] < Cardinality(UIDs)
    BY RoomLeft
<1>2. \A k \in Keys : ChunksWith(k, u, e) \in Vectors
    BY <1>1, ChunksPushed
<1>3. rec' \in [UIDs -> Expirations \cup {NoRec}]
    BY DEF IndexTypeOK, IndexWrites
<1>4. total' \in [Dims \X Keys -> Nat]
    BY DEF IndexTypeOK, IndexWrites
<1>5. chunk' \in [Keys -> Vectors]
    BY <1>2 DEF IndexWrites
<1>6. direct' \subseteq (Addrs \cup Schemas) \X UIDs
    <2>1. u.recipient \in Addrs /\ u.schema \in Schemas
        BY IndexerAssumption
    <2>. QED BY <2>1 DEF IndexTypeOK, IndexWrites
<1>7. mapped' \in [Addrs \cup Schemas -> Nat]
    BY DEF IndexTypeOK, IndexWrites
<1>8. \A d \in Dims, k \in Keys : CountsOK(d, k)'
    BY CountsParts, CountPushed
<1>9. \A k \in Addrs \cup Schemas : MapsOK(k)'
    BY CountsParts, MapPushed
<1>10. CountsExact'
    BY <1>8, <1>9, CountsParts DEF CountsExact, CountsOK, MapsOK, GetCountBy, IndexTotal, HasMapping
<1>. QED BY <1>3, <1>4, <1>5, <1>6, <1>7, <1>10

(* What chunks ch list of the UIDs with the records r, by key. *)
ListedIn(r, ch, d, k, v) == r[v] # NoRec /\ KeyOf(d, v, r[v]) = k /\ Holds(ch[k], v)

FoundIn(r, ch) ==
    {<<<<x[1], KeyOf(x[1], x[2], r[x[2]])>>, x[2]>> :
        x \in {y \in Dims \X {v \in UIDs : r[v] # NoRec} : Holds(ch[KeyOf(y[1], y[2], r[y[2]])], y[2])}}

(* What is found, member by member. *)
LEMMA FoundMember ==
    ASSUME NEW r, NEW ch, NEW m
    PROVE  m \in FoundIn(r, ch) <=>
             \E d \in Dims, k \in Keys, v \in UIDs : m = <<<<d, k>>, v>> /\ ListedIn(r, ch, d, k, v)
<1>. DEFINE I == {v \in UIDs : r[v] # NoRec}
<1>1. ASSUME m \in FoundIn(r, ch)
      PROVE  \E d \in Dims, k \in Keys, v \in UIDs : m = <<<<d, k>>, v>> /\ ListedIn(r, ch, d, k, v)
    <2>1. PICK x \in Dims \X I : /\ Holds(ch[KeyOf(x[1], x[2], r[x[2]])], x[2])
                                 /\ m = <<<<x[1], KeyOf(x[1], x[2], r[x[2]])>>, x[2]>>
        BY <1>1 DEF FoundIn
    <2>2. x[1] \in Dims /\ x[2] \in UIDs /\ r[x[2]] # NoRec
        OBVIOUS
    <2>3. KeyOf(x[1], x[2], r[x[2]]) \in Keys
        BY <2>2, KeysTyped
    <2>. QED BY <2>1, <2>2, <2>3 DEF ListedIn
<1>2. ASSUME NEW d \in Dims, NEW k \in Keys, NEW v \in UIDs, m = <<<<d, k>>, v>>, ListedIn(r, ch, d, k, v)
      PROVE  m \in FoundIn(r, ch)
    <2>1. PICK x : x = <<d, v>>
        OBVIOUS
    <2>2. x \in Dims \X I /\ x[1] = d /\ x[2] = v
        BY <1>2, <2>1 DEF ListedIn
    <2>3. Holds(ch[KeyOf(x[1], x[2], r[x[2]])], x[2]) /\ m = <<<<x[1], KeyOf(x[1], x[2], r[x[2]])>>, x[2]>>
        BY <1>2, <2>2 DEF ListedIn
    <2>. QED BY <2>2, <2>3 DEF FoundIn
<1>. QED BY <1>1, <1>2

KeyPairs(u, e) == {<<d, KeyOf(d, u, e)>> : d \in Dims}

(* index_attestation puts the UID under its four keys, and nothing else. *)
LEMMA FoundPushed ==
    ASSUME IndexTypeOK, CountsExact, NEW u \in UIDs, NEW e \in Expirations, rec[u] = NoRec, IndexWrites(u, e)
    PROVE  Found' = Found \cup (KeyPairs(u, e) \X {u})
<1>1. \A p \in Dims \X Keys : total[p] < Cardinality(UIDs)
    BY RoomLeft
<1>2. \A k \in Keys : /\ \A v \in UIDs : v # u => (Holds(chunk'[k], v) <=> Holds(chunk[k], v))
                      /\ (\E d \in Dims : k = KeyOf(d, u, e)) => Holds(chunk'[k], u)
    <2>1. \A k \in Keys : chunk'[k] = ChunksWith(k, u, e)
        BY DEF IndexWrites
    <2>. QED BY <1>1, <2>1, ChunksPushed
<1>3. rec'[u] = e /\ e # NoRec /\ \A v \in UIDs : v # u => rec'[v] = rec[v]
    BY IndexerConstants DEF IndexTypeOK, IndexWrites
<1>4. PICK r : r = rec
    OBVIOUS
<1>4a. PICK s : s = rec'
    OBVIOUS
<1>4b. PICK ch : ch = chunk
    OBVIOUS
<1>4c. PICK dh : dh = chunk'
    OBVIOUS
<1>5. Found = FoundIn(r, ch) /\ Found' = FoundIn(s, dh)
    BY <1>4, <1>4a, <1>4b, <1>4c DEF Found, FoundIn, Indexed, InChunks, Holds
<1>6. ASSUME NEW d \in Dims, NEW k \in Keys, NEW v \in UIDs
      PROVE  ListedIn(s, dh, d, k, v) <=> ListedIn(r, ch, d, k, v) \/ (v = u /\ k = KeyOf(d, u, e))
    <2>1. CASE v # u
        BY <1>2, <1>3, <1>4, <1>4a, <1>4b, <1>4c, <2>1 DEF ListedIn
    <2>2. CASE v = u
        BY <1>2, <1>3, <1>4, <1>4a, <1>4b, <1>4c, <2>2 DEF ListedIn
    <2>. QED BY <2>1, <2>2
<1>6a. \A d \in Dims : KeyOf(d, u, e) \in Keys
    BY KeysTyped
<1>7. ASSUME NEW m PROVE m \in FoundIn(s, dh) <=> m \in FoundIn(r, ch) \/ m \in KeyPairs(u, e) \X {u}
    <2>1. m \in FoundIn(r, ch) <=>
             \E d \in Dims, k \in Keys, v \in UIDs : m = <<<<d, k>>, v>> /\ ListedIn(r, ch, d, k, v)
        BY FoundMember
    <2>2. m \in FoundIn(s, dh) <=>
             \E d \in Dims, k \in Keys, v \in UIDs : m = <<<<d, k>>, v>> /\ ListedIn(s, dh, d, k, v)
        BY FoundMember
    <2>3. m \in KeyPairs(u, e) \X {u} <=>
             \E d \in Dims, k \in Keys, v \in UIDs : m = <<<<d, k>>, v>> /\ v = u /\ k = KeyOf(d, u, e)
        <3>1. m \in KeyPairs(u, e) \X {u} <=> \E d \in Dims : m = <<<<d, KeyOf(d, u, e)>>, u>>
            BY DEF KeyPairs
        <3>. QED BY <1>6a, <3>1
    <2>. QED BY <1>6, <2>1, <2>2, <2>3
<1>. QED BY <1>5, <1>7

------------------------------------------------------------------------------
(* What a step does to the index.                                          *)

Push == \E u \in UIDs, e \in Expirations : rec[u] = NoRec /\ IndexWrites(u, e)

Mark == \E u \in UIDs, s \in {"Revoked", "Replaced"} : status' = [status EXCEPT ![u] = s]

(* notify_indexer_of_issuance indexes the attestation, finds it indexed or *)
(* announces that it is missing.                                           *)
LEMMA IssuanceNotified ==
    ASSUME IndexTypeOK, NEW u \in UIDs, NEW e \in Expirations, NEW vf, NotifyIndexerOfIssuance(u, e, vf)
    PROVE  /\ (rec[u] = NoRec /\ IndexWrites(u, e)) \/ NotPushed
           /\ rec'[u] = NoRec => u \in failed'
           /\ failed \subseteq failed'
<1>1. e # NoRec /\ rec \in [UIDs -> Expirations \cup {NoRec}]
    BY IndexerConstants DEF IndexTypeOK
<1>2. CASE IndexAttestation(u, e) /\ UNCHANGED failed
    <2>1. CASE rec[u] = NoRec /\ IndexWrites(u, e)
        <3>1. rec'[u] = e
            BY <1>1, <2>1 DEF IndexWrites
        <3>. QED BY <1>1, <1>2, <2>1, <3>1
    <2>2. CASE rec[u] # NoRec /\ NotPushed
        <3>1. rec' = rec
            BY <2>2 DEF NotPushed
        <3>. QED BY <1>2, <2>2, <3>1
    <2>. QED BY <1>2, <2>1, <2>2 DEF IndexAttestation
<1>3. CASE failed' = failed \cup {u} /\ NotPushed
    BY <1>3
<1>. QED BY <1>2, <1>3 DEF NotifyIndexerOfIssuance

(* Marking moves one status or none. *)
LEMMA MarkedOrNot ==
    ASSUME NEW u \in UIDs, NEW marks \in SUBSET {"Revoked", "Replaced"}, Marks(u, marks)
    PROVE  Mark \/ status' = status
BY DEF Marks, Mark

(* A step that leaves the index alone neither pushes nor marks. *)
LEMMA IndexKept ==
    ASSUME UNCHANGED indexVars
    PROVE  NotPushed /\ status' = status /\ capacity' = capacity
BY DEF indexVars, NotPushed

(* The shape of every step: at most one UID is pushed and at most one is   *)
(* marked.                                                                 *)
LEMMA StepShape ==
    ASSUME IndexInv, [Next]_indexerVars
    PROVE  (Push \/ NotPushed) /\ (Mark \/ status' = status)
<1>0. IndexTypeOK
    BY DEF IndexInv
<1>1. ASSUME NEW r \in Requests, Attest(r.uid, r.expiration_time, r.valid_from)
      PROVE  (Push \/ NotPushed) /\ (Mark \/ status' = status)
    <2>1. r.uid \in UIDs /\ r.expiration_time \in Expirations
        BY IndexerConstants
    <2>2. status' = status /\ NotifyIndexerOfIssuance(r.uid, r.expiration_time, r.valid_from)
        BY <1>1 DEF Attest
    <2>3. (rec[r.uid] = NoRec /\ IndexWrites(r.uid, r.expiration_time)) \/ NotPushed
        BY <1>0, <2>1, <2>2, IssuanceNotified
    <2>. QED BY <2>1, <2>2, <2>3 DEF Push
<1>2. ASSUME NEW u \in UIDs, Revoke(u)
      PROVE  (Push \/ NotPushed) /\ (Mark \/ status' = status)
    <2>1. Marks(u, {"Revoked"}) /\ NotPushed
        BY <1>2 DEF Revoke
    <2>. QED BY <2>1, MarkedOrNot
<1>3. ASSUME NEW old \in UIDs, NEW r \in Requests, Replace(old, r.uid, r.expiration_time, r.valid_from)
      PROVE  (Push \/ NotPushed) /\ (Mark \/ status' = status)
    <2>1. r.uid \in UIDs /\ r.expiration_time \in Expirations
        BY IndexerConstants
    <2>2. Marks(old, {"Revoked", "Replaced"}) /\ NotifyIndexerOfIssuance(r.uid, r.expiration_time, r.valid_from)
        BY <1>3 DEF Replace
    <2>3. (rec[r.uid] = NoRec /\ IndexWrites(r.uid, r.expiration_time)) \/ NotPushed
        BY <1>0, <2>1, <2>2, IssuanceNotified
    <2>4. Mark \/ status' = status
        BY <2>2, MarkedOrNot
    <2>. QED BY <2>1, <2>3, <2>4 DEF Push
<1>4. CASE UNCHANGED indexVars
    BY <1>4, IndexKept
<1>5. ASSUME NEW u \in UIDs, ReindexAttestation(u)
      PROVE  (Push \/ NotPushed) /\ (Mark \/ status' = status)
    <2>1. stored[u].live /\ IndexAttestation(u, stored[u].expiration_time) /\ status' = status
        BY <1>5 DEF ReindexAttestation
    <2>2. stored[u].expiration_time \in Expirations
        BY <2>1 DEF IndexInv, ExpirationsIssued
    <2>3. (rec[u] = NoRec /\ IndexWrites(u, stored[u].expiration_time)) \/ NotPushed
        BY <2>1 DEF IndexAttestation
    <2>. QED BY <2>1, <2>2, <2>3 DEF Push
<1>6. ASSUME NEW t \in 0..2, SetChunkTier(t)
      PROVE  (Push \/ NotPushed) /\ (Mark \/ status' = status)
    BY <1>6 DEF SetChunkTier, NotPushed
<1>7. ASSUME NEW u \in PublicMarks, NEW s \in {"Revoked", "Replaced"}, SetIndexStatus(u, s)
      PROVE  (Push \/ NotPushed) /\ (Mark \/ status' = status)
    <2>1. u \in UIDs
        BY IndexerAssumption
    <2>. QED BY <1>7, <2>1 DEF SetIndexStatus, Mark
<1>8. CASE UNCHANGED indexerVars
    BY <1>4, <1>8 DEF indexerVars
<1>9. CASE Next
    <2>1. CASE \E u \in UIDs, e \in Expirations : Renew(u, e)
        BY <1>4, <2>1 DEF Renew
    <2>2. CASE \E u \in UIDs : Prune(u)
        BY <1>4, <2>2 DEF Prune
    <2>3. CASE SetIndexerStrict(~strict)
        BY <1>4, <2>3 DEF SetIndexerStrict
    <2>4. CASE CloseLedger
        BY <1>4, <2>4 DEF CloseLedger
    <2>. QED BY <1>1, <1>2, <1>3, <1>5, <1>6, <1>7, <1>9, <2>1, <2>2, <2>3, <2>4
             DEF Next, SasStep, RepairStep, IndexerStep
<1>. QED BY <1>8, <1>9

(* A step of that shape keeps the index typed and its counters exact. *)
LEMMA LayoutInv ==
    ASSUME IndexTypeOK, CountsExact, Push \/ NotPushed, Mark \/ status' = status
    PROVE  /\ rec' \in [UIDs -> Expirations \cup {NoRec}] /\ total' \in [Dims \X Keys -> Nat]
           /\ chunk' \in [Keys -> Vectors] /\ direct' \subseteq (Addrs \cup Schemas) \X UIDs
           /\ mapped' \in [Addrs \cup Schemas -> Nat]
           /\ status' \in [UIDs -> Statuses]
           /\ CountsExact'
           /\ \A v \in UIDs : rec'[v] = NoRec => rec[v] = NoRec
<1>1. status' \in [UIDs -> Statuses]
    BY DEF IndexTypeOK, Mark, Statuses
<1>2. CASE Push
    <2>1. PICK u \in UIDs, e \in Expirations : rec[u] = NoRec /\ IndexWrites(u, e)
        BY <1>2 DEF Push
    <2>2. \A v \in UIDs : rec'[v] = NoRec => rec[v] = NoRec
        BY <2>1 DEF IndexWrites, IndexTypeOK
    <2>. QED BY <1>1, <2>1, <2>2, PushInv
<1>3. CASE NotPushed
    <2>1. UNCHANGED <<rec, total, chunk, direct, mapped>>
        BY <1>3 DEF NotPushed
    <2>2. CountsExact'
        <3>1. \A d \in Dims, k \in Keys : GetCountBy(d, k)' = GetCountBy(d, k) /\ Under(d, k)' = Under(d, k)
            BY <2>1 DEF GetCountBy, IndexTotal, Under, Indexed
        <3>2. \A k, u : HasMapping(k, u)' <=> HasMapping(k, u)
            BY <2>1 DEF HasMapping
        <3>3. Indexed' = Indexed
            BY <2>1 DEF Indexed
        <3>. QED BY <2>1, <3>1, <3>2, <3>3 DEF CountsExact
    <2>. QED BY <1>1, <2>1, <2>2 DEF IndexTypeOK
<1>. QED BY <1>2, <1>3

------------------------------------------------------------------------------
(* What a step does to the store.                                          *)

SasPart == /\ stored \in [UIDs -> Attestation] /\ capacity \in Nat \ {0}
           /\ ExpirationsIssued /\ GapsAnnounced

(* One attestation changes: it is announced or indexed if it is new. *)
LEMMA StoredChange ==
    ASSUME IndexInv, NEW u \in UIDs, NEW a \in Attestation, stored' = [stored EXCEPT ![u] = a],
           a.live => a.expiration_time \in Expirations,
           a.live => stored[u].live \/ (rec'[u] = NoRec => u \in failed'),
           failed \subseteq failed', \A v \in UIDs : rec'[v] = NoRec => rec[v] = NoRec,
           capacity' = capacity
    PROVE  SasPart'
<1>1. stored \in [UIDs -> Attestation] /\ capacity \in Nat \ {0} /\ ExpirationsIssued /\ GapsAnnounced
    BY DEF IndexInv, IndexTypeOK
<1>2. stored'[u] = a /\ \A v \in UIDs : v # u => stored'[v] = stored[v]
    BY <1>1
<1>3. stored' \in [UIDs -> Attestation]
    BY <1>1
<1>4. ExpirationsIssued'
    BY <1>1, <1>2 DEF ExpirationsIssued
<1>5. GapsAnnounced'
    BY <1>1, <1>2 DEF GapsAnnounced
<1>. QED BY <1>1, <1>3, <1>4, <1>5 DEF SasPart

(* A step that removes no record and stores nothing new opens no gap. *)
LEMMA StoredKept ==
    ASSUME IndexInv, stored' = stored, failed' = failed, \A v \in UIDs : rec'[v] = NoRec => rec[v] = NoRec,
           capacity' \in Nat \ {0}
    PROVE  SasPart'
BY DEF IndexInv, IndexTypeOK, SasPart, ExpirationsIssued, GapsAnnounced

(* What an issuance stores has the type of the store. *)
LEMMA IssuedAttestation ==
    ASSUME NEW e \in Expirations, NEW vf \in Nat
    PROVE  [expiration_time |-> e, revoked |-> FALSE, valid_from |-> vf, live |-> TRUE] \in Attestation
BY IndexerConstants DEF Attestation

(* Every step leaves the SAS side typed and every gap announced. *)
LEMMA SasInv ==
    ASSUME IndexInv, [Next]_indexerVars
    PROVE  SasPart'
<1>0. IndexTypeOK /\ stored \in [UIDs -> Attestation] /\ capacity \in Nat \ {0} /\ ExpirationsIssued
    BY DEF IndexInv, IndexTypeOK
<1>a. \A v \in UIDs : rec'[v] = NoRec => rec[v] = NoRec
    BY StepShape, LayoutInv DEF IndexInv
<1>1. ASSUME NEW r \in Requests, Attest(r.uid, r.expiration_time, r.valid_from) PROVE SasPart'
    <2>1. PICK u \in UIDs, e \in Expirations, vf \in Nat : u = r.uid /\ e = r.expiration_time /\ vf = r.valid_from
        BY IndexerConstants
    <2>. DEFINE a == [expiration_time |-> e, revoked |-> FALSE, valid_from |-> vf, live |-> TRUE]
    <2>2. stored' = [stored EXCEPT ![u] = a] /\ NotifyIndexerOfIssuance(u, e, vf) /\ capacity' = capacity
        BY <1>1, <2>1 DEF Attest
    <2>3. (rec'[u] = NoRec => u \in failed') /\ failed \subseteq failed'
        BY <1>0, <2>2, IssuanceNotified
    <2>4. a \in Attestation /\ a.expiration_time \in Expirations
        BY IssuedAttestation
    <2>. HIDE DEF a
    <2>. QED BY <1>a, <2>2, <2>3, <2>4, StoredChange
<1>2. ASSUME NEW u \in UIDs, NEW a \in Attestation, stored' = [stored EXCEPT ![u] = a],
             a.live => stored[u].live, a.live => a.expiration_time \in Expirations,
             failed' = failed, capacity' = capacity
      PROVE  SasPart'
    BY <1>a, <1>2, StoredChange
<1>3. ASSUME NEW u \in UIDs, Revoke(u) PROVE SasPart'
    <2>. DEFINE a == [stored[u] EXCEPT !.revoked = TRUE]
    <2>1. stored[u].live /\ stored' = [stored EXCEPT ![u] = a] /\ failed' = failed /\ capacity' = capacity
        BY <1>3 DEF Revoke
    <2>2. stored[u] \in Attestation /\ stored[u].expiration_time \in Expirations
        BY <1>0, <2>1 DEF ExpirationsIssued
    <2>3. a \in Attestation /\ a.expiration_time = stored[u].expiration_time
        BY <2>2 DEF Attestation
    <2>. HIDE DEF a
    <2>. QED BY <1>2, <2>1, <2>2, <2>3
<1>4. ASSUME NEW old \in UIDs, NEW r \in Requests, Replace(old, r.uid, r.expiration_time, r.valid_from)
      PROVE  SasPart'
    <2>1. PICK u \in UIDs, e \in Expirations, vf \in Nat : u = r.uid /\ e = r.expiration_time /\ vf = r.valid_from
        BY IndexerConstants
    <2>. DEFINE a == [expiration_time |-> e, revoked |-> FALSE, valid_from |-> vf, live |-> TRUE]
                b == [stored[old] EXCEPT !.revoked = TRUE]
    <2>2. /\ stored' = [stored EXCEPT ![old].revoked = TRUE, ![u] = a]
          /\ NotifyIndexerOfIssuance(u, e, vf) /\ capacity' = capacity
          /\ stored[old].live /\ ~stored[u].live
        BY <1>4, <2>1 DEF Replace
    <2>3. (rec'[u] = NoRec => u \in failed') /\ failed \subseteq failed'
        BY <1>0, <2>2, IssuanceNotified
    <2>4. a \in Attestation /\ a.expiration_time \in Expirations
        BY IssuedAttestation
    <2>5. stored[old] \in Attestation
        BY <1>0
    <2>6. b \in Attestation /\ b.expiration_time = stored[old].expiration_time /\ b.live = stored[old].live
        BY <2>5 DEF Attestation
    <2>7. stored' = [[stored EXCEPT ![old] = b] EXCEPT ![u] = a]
        BY <1>0, <2>2
    <2>8. u # old
        BY <2>2
    <2>. HIDE DEF a, b
    <2>9. stored'[u] = a /\ stored'[old] = b /\ \A v \in UIDs : v # u /\ v # old => stored'[v] = stored[v]
        BY <1>0, <2>7, <2>8
    <2>10. stored' \in [UIDs -> Attestation]
        BY <1>0, <2>4, <2>6, <2>7
    <2>11. ExpirationsIssued'
        BY <1>0, <2>4, <2>6, <2>9 DEF ExpirationsIssued
    <2>12. GapsAnnounced'
        <3>1. GapsAnnounced
            BY DEF IndexInv
        <3>. QED BY <1>a, <2>2, <2>3, <2>6, <2>9, <3>1 DEF GapsAnnounced
    <2>. QED BY <1>0, <2>2, <2>10, <2>11, <2>12 DEF SasPart
<1>5. ASSUME NEW u \in UIDs, NEW e \in Expirations, Renew(u, e) PROVE SasPart'
    <2>. DEFINE a == [stored[u] EXCEPT !.expiration_time = e]
    <2>1. stored[u].live /\ stored' = [stored EXCEPT ![u] = a] /\ failed' = failed /\ capacity' = capacity
        BY <1>5, IndexKept DEF Renew
    <2>2. stored[u] \in Attestation /\ e \in Nat
        BY <1>0, IndexerConstants
    <2>3. a \in Attestation /\ a.expiration_time = e
        BY <2>2 DEF Attestation
    <2>. HIDE DEF a
    <2>. QED BY <1>2, <2>1, <2>2, <2>3
<1>6. ASSUME NEW u \in UIDs, Prune(u) PROVE SasPart'
    <2>1. stored' = [stored EXCEPT ![u] = Unstored] /\ failed' = failed /\ capacity' = capacity
        BY <1>6, IndexKept DEF Prune
    <2>2. Unstored \in Attestation /\ Unstored.live = FALSE
        BY DEF Unstored, Attestation
    <2>. QED BY <1>2, <2>1, <2>2
<1>7. CASE stored' = stored /\ failed' = failed /\ capacity' = capacity
    BY <1>0, <1>7, <1>a, StoredKept
<1>8. ASSUME NEW u \in UIDs, ReindexAttestation(u) PROVE SasPart'
    BY <1>7, <1>8 DEF ReindexAttestation, sasVars
<1>9. ASSUME NEW t \in 0..2, SetChunkTier(t) PROVE SasPart'
    <2>1. stored' = stored /\ failed' = failed /\ capacity' = AdaptiveCapacityForTier(t)
        BY <1>9 DEF SetChunkTier, sasVars
    <2>2. capacity' \in Nat \ {0}
        BY <2>1, IndexerConstants DEF AdaptiveCapacityForTier
    <2>. QED BY <1>a, <2>1, <2>2, StoredKept
<1>10. ASSUME NEW u \in PublicMarks, NEW s \in {"Revoked", "Replaced"}, SetIndexStatus(u, s) PROVE SasPart'
    BY <1>7, <1>10 DEF SetIndexStatus, sasVars
<1>11. CASE SetIndexerStrict(~strict)
    BY <1>7, <1>11, IndexKept DEF SetIndexerStrict
<1>12. CASE CloseLedger
    BY <1>7, <1>12, IndexKept DEF CloseLedger, sasVars
<1>13. CASE UNCHANGED indexerVars
    BY <1>7, <1>13, IndexKept DEF indexerVars, sasVars
<1>14. CASE Next
    BY <1>1, <1>3, <1>4, <1>5, <1>6, <1>8, <1>9, <1>10, <1>11, <1>12, <1>14
       DEF Next, SasStep, RepairStep, IndexerStep
<1>. QED BY <1>13, <1>14

(* The empty index satisfies the invariant. *)
LEMMA IndexInitInv == Init => IndexInv
<1>. SUFFICES ASSUME Init PROVE IndexInv
    OBVIOUS
<1>1. Unstored \in Attestation /\ Unstored.live = FALSE
    BY DEF Unstored, Attestation
<1>2. MAX_CHUNK_SIZE \in Nat \ {0}
    BY IndexerConstants
<1>3. [i \in 0..MaxChunk |-> <<>>] \in Vectors
    BY DEF Vectors
<1>4. IndexTypeOK
    BY <1>1, <1>2, <1>3 DEF Init, IndexTypeOK, Statuses
<1>5. ExpirationsIssued /\ GapsAnnounced
    BY <1>1 DEF Init, ExpirationsIssued, GapsAnnounced
<1>6. Indexed = {}
    BY DEF Init, Indexed
<1>7. ASSUME NEW d \in Dims, NEW k \in Keys PROVE CountsOK(d, k)
    <2>1. Under(d, k) = {} /\ total[<<d, k>>] = 0
        BY <1>6 DEF Init, Under
    <2>2. Cardinality(Under(d, k)) = 0
        BY <2>1, FS_EmptySet, Zenon
    <2>. QED BY <2>1, <2>2 DEF CountsOK
<1>8. ASSUME NEW k \in Addrs \cup Schemas PROVE MapsOK(k)
    <2>1. {u \in UIDs : <<k, u>> \in direct} = {} /\ mapped[k] = 0
        BY DEF Init
    <2>2. Cardinality({u \in UIDs : <<k, u>> \in direct}) = 0
        BY <2>1, FS_EmptySet, Zenon
    <2>3. \A u \in UIDs : <<k, u>> \notin direct
        BY DEF Init
    <2>. QED BY <1>6, <2>1, <2>2, <2>3 DEF MapsOK
<1>9. CountsExact
    BY <1>7, <1>8, CountsParts
<1>. QED BY <1>4, <1>5, <1>9 DEF IndexInv

(* Every step keeps the invariant. *)
LEMMA IndexNextInv ==
    ASSUME IndexInv, [Next]_indexerVars
    PROVE  IndexInv'
<1>1. SasPart'
    BY SasInv
<1>2. /\ rec' \in [UIDs -> Expirations \cup {NoRec}] /\ total' \in [Dims \X Keys -> Nat]
      /\ chunk' \in [Keys -> Vectors] /\ direct' \subseteq (Addrs \cup Schemas) \X UIDs
      /\ mapped' \in [Addrs \cup Schemas -> Nat]
      /\ status' \in [UIDs -> Statuses]
      /\ CountsExact'
    BY StepShape, LayoutInv DEF IndexInv
<1>. QED BY <1>1, <1>2 DEF SasPart, IndexInv, IndexTypeOK

(* Every stored attestation the index misses was named by an IndexFailed   *)
(* event: through lost pushes, strict and best-effort binding, renewal,    *)
(* replacement, pruning and re-issuance.                                   *)
THEOREM GapsAlwaysAnnounced == Spec => []GapsAnnounced
<1>1. IndexInv => GapsAnnounced
    BY DEF IndexInv
<1>. QED BY <1>1, IndexInitInv, IndexNextInv, PTL DEF Spec

(* The counters of every dimension and of the direct mappings are exact:   *)
(* paginated readers find the end of a vector by them.                     *)
THEOREM CountsAlwaysExact == Spec => []CountsExact
<1>1. IndexInv => CountsExact
    BY DEF IndexInv
<1>. QED BY <1>1, IndexInitInv, IndexNextInv, PTL DEF Spec

------------------------------------------------------------------------------
(* The contract implements IndexLedger.                                    *)

Hidden == {u \in UIDs : ~Active(u)}

(* The empty index is an empty ledger. *)
LEMMA LedgerInitially == ASSUME Init PROVE L!LedgerInit
<1>1. Indexed = {}
    BY DEF Init, Indexed
<1>2. Found = {}
    BY <1>1 DEF Found
<1>3. {u \in UIDs : ~Active(u)} = {}
    BY DEF Init, Active
<1>. QED BY <1>2, <1>3 DEF Init, L!LedgerInit

(* A push is an addition to the ledger. *)
LEMMA PushAdds ==
    ASSUME IndexInv, NEW u \in UIDs, NEW e \in Expirations, rec[u] = NoRec, IndexWrites(u, e)
    PROVE  LET keys == [p \in UIDs \X Expirations |-> {<<d, KeyOf(d, p[1], p[2])>> : d \in Dims}][<<u, e>>]
           IN  /\ rec' = [rec EXCEPT ![u] = e]
               /\ Found' = Found \cup (keys \X {u})
               /\ total' = [k \in Dims \X Keys |-> IF k \in keys THEN total[k] + 1 ELSE total[k]]
<1>. DEFINE K == [p \in UIDs \X Expirations |-> {<<d, KeyOf(d, p[1], p[2])>> : d \in Dims}]
<1>1. K[<<u, e>>] = KeyPairs(u, e)
    BY DEF KeyPairs
<1>2. rec' = [rec EXCEPT ![u] = e]
    BY DEF IndexWrites
<1>3. Found' = Found \cup (KeyPairs(u, e) \X {u})
    BY FoundPushed DEF IndexInv
<1>4. ASSUME NEW k \in Dims \X Keys PROVE k[2] = KeyOf(k[1], u, e) <=> k \in KeyPairs(u, e)
    <2>1. k = <<k[1], k[2]>> /\ k[1] \in Dims
        OBVIOUS
    <2>. QED BY <2>1 DEF KeyPairs
<1>5. total' = [k \in Dims \X Keys |-> IF k \in KeyPairs(u, e) THEN total[k] + 1 ELSE total[k]]
    <2>1. total' = [k \in Dims \X Keys |-> IF k[2] = KeyOf(k[1], u, e) THEN total[k] + 1 ELSE total[k]]
        BY DEF IndexWrites
    <2>. QED BY <1>4, <2>1
<1>. HIDE DEF K
<1>6. /\ Found' = Found \cup (K[<<u, e>>] \X {u})
      /\ total' = [k \in Dims \X Keys |-> IF k \in K[<<u, e>>] THEN total[k] + 1 ELSE total[k]]
    BY <1>1, <1>3, <1>5
<1>. QED BY <1>2, <1>6 DEF K

(* Every step of the contract is a step of the ledger or a stutter. *)
LEMMA LedgerStep ==
    ASSUME IndexInv, [Next]_indexerVars
    PROVE  [L!LedgerNext]_(L!ledgerVars)
<1>1. (Push \/ NotPushed) /\ (Mark \/ status' = status)
    BY StepShape
<1>2. CASE NotPushed
    <2>1. UNCHANGED <<rec, Found, total>>
        BY <1>2 DEF NotPushed, Found, Indexed, InChunks
    <2>2. CASE status' = status
        <3>1. Hidden' = Hidden
            BY <2>2 DEF Hidden, Active
        <3>. QED BY <2>1, <3>1 DEF Hidden, L!ledgerVars
    <2>3. CASE Mark
        <3>1. PICK u \in UIDs, s \in {"Revoked", "Replaced"} : status' = [status EXCEPT ![u] = s]
            BY <2>3 DEF Mark
        <3>2. Hidden' = Hidden \cup {u}
            BY <3>1 DEF Hidden, Active, IndexInv, IndexTypeOK
        <3>3. L!Hide(u)
            BY <2>1, <3>2 DEF L!Hide, Hidden
        <3>. QED BY <3>3 DEF L!LedgerNext
    <2>. QED BY <1>1, <2>2, <2>3
<1>3. CASE Push
    <2>1. PICK u \in UIDs, e \in Expirations : rec[u] = NoRec /\ IndexWrites(u, e)
        BY <1>3 DEF Push
    <2>2. CASE status' = status
        <3>1. Hidden' = Hidden
            BY <2>2 DEF Hidden, Active
        <3>2. L!Add(u, e)
            BY <2>1, <3>1, PushAdds DEF L!Add, Hidden
        <3>. QED BY <3>2 DEF L!LedgerNext
    <2>3. CASE Mark
        <3>1. PICK old \in UIDs, s \in {"Revoked", "Replaced"} : status' = [status EXCEPT ![old] = s]
            BY <2>3 DEF Mark
        <3>2. Hidden' = Hidden \cup {old}
            BY <3>1 DEF Hidden, Active, IndexInv, IndexTypeOK
        <3>3. L!Supersede(old, u, e)
            BY <2>1, <3>2, PushAdds DEF L!Supersede, Hidden
        <3>. QED BY <3>3 DEF L!LedgerNext
    <2>. QED BY <1>1, <2>2, <2>3
<1>. QED BY <1>1, <1>2, <1>3

(* The chunked layout implements the write-once index, for every number of *)
(* UIDs, every chunk size and every order of pushes, losses, repairs and   *)
(* marks.                                                                  *)
THEOREM IndexImplementsLedger == Spec => ImplementsLedger
BY LedgerInitially, LedgerStep, IndexInitInv, IndexNextInv, PTL
   DEF Spec, ImplementsLedger, L!LedgerSpec

------------------------------------------------------------------------------
(* Positions and chunks.                                                   *)

(* A position is its chunk number times the capacity and its offset. *)
LEMMA DivMod ==
    ASSUME NEW n \in Nat, NEW c \in Nat \ {0}
    PROVE  n \div c \in Nat /\ n % c \in 0..(c - 1) /\ n = c * (n \div c) + (n % c)
<1>1. n \div c \in Nat
    BY DivBound
<1>2. n % c \in 0..(c - 1)
    OBVIOUS
<1>3. n = c * (n \div c) + (n % c)
    BY SMTT(30)
<1>. QED BY <1>1, <1>2, <1>3

(* ... in one way only. *)
LEMMA DivUnique ==
    ASSUME NEW c \in Nat \ {0}, NEW a \in Nat, NEW b \in Nat, NEW r \in 0..(c - 1), NEW s \in Nat,
           c * a + r = c * b + s
    PROVE  /\ s < c => a = b /\ r = s
           /\ b <= a
<1>1. ASSUME NEW x \in Nat, NEW y \in Nat, x < y PROVE c * x + c <= c * y
    <2>1. PICK z \in Nat : y = x + 1 + z
        <3>1. y - x - 1 \in Nat /\ y = x + 1 + (y - x - 1)
            BY <1>1
        <3>. QED BY <3>1
    <2>2. c * y = c * x + c + c * z /\ c * z \in Nat
        BY <2>1
    <2>3. PICK p, q, t \in Int : p = c * x /\ q = c * y /\ t = c * z
        OBVIOUS
    <2>. QED BY <2>2, <2>3
<1>2. PICK p, q \in Int : p = c * a /\ q = c * b
    OBVIOUS
<1>3. /\ a < b => p + c <= q
      /\ b < a => q + c <= p
    BY <1>1, <1>2
<1>. QED BY <1>2, <1>3

(* Within a chunk the offset moves, and at its end the next one begins. *)
LEMMA DivWithin ==
    ASSUME NEW n \in Nat, NEW c \in Nat \ {0}, NEW s \in Nat
    PROVE  /\ (n % c) + s < c => (n + s) \div c = n \div c /\ (n + s) % c = (n % c) + s
           /\ (n % c) + s = c => (n + s) \div c = (n \div c) + 1 /\ (n + s) % c = 0
           /\ n \div c <= (n + s) \div c
<1>. DEFINE a == (n + s) \div c
            r == (n + s) % c
            b == n \div c
            t == n % c
<1>1. /\ a \in Nat /\ r \in 0..(c - 1) /\ n + s = c * a + r
      /\ b \in Nat /\ t \in 0..(c - 1) /\ n = c * b + t
    <2>1. n + s \in Nat
        OBVIOUS
    <2>2. /\ (n + s) \div c \in Nat /\ (n + s) % c \in 0..(c - 1)
          /\ n + s = c * ((n + s) \div c) + ((n + s) % c)
        BY <2>1, DivMod, Zenon
    <2>3. n \div c \in Nat /\ n % c \in 0..(c - 1) /\ n = c * (n \div c) + (n % c)
        BY DivMod, Zenon
    <2>. QED BY <2>2, <2>3, Zenon DEF a, r, b, t
<1>. HIDE DEF a, r, b, t
<1>2. c * a + r = c * b + (t + s)
    <2>1. PICK p, q \in Int : p = c * a /\ q = c * b
        BY <1>1
    <2>. QED BY <1>1, <2>1
<1>3. ASSUME t + s < c PROVE a = b /\ r = t + s
    BY <1>1, <1>2, <1>3, DivUnique
<1>4. ASSUME t + s = c PROVE a = b + 1 /\ r = 0
    <2>1. c * (b + 1) = c * b + c
        BY <1>1
    <2>2. c * a + r = c * (b + 1) + 0
        <3>1. PICK p, q \in Int : p = c * a /\ q = c * b
            BY <1>1
        <3>. QED BY <1>1, <1>2, <1>4, <2>1, <3>1
    <2>. QED BY <1>1, <2>2, DivUnique
<1>5. b <= a
    BY <1>1, <1>2, DivUnique
<1>. QED BY <1>3, <1>4, <1>5 DEF a, r, b, t

(* An earlier position is in an earlier chunk, or before in the same. *)
LEMMA DivOrder ==
    ASSUME NEW n \in Nat, NEW p \in Nat, p < n, NEW c \in Nat \ {0}
    PROVE  /\ p \div c \in Nat /\ n \div c \in Nat /\ p \div c <= n \div c
           /\ p \div c = n \div c => p % c < n % c
<1>. DEFINE a == p \div c
            r == p % c
            b == n \div c
            t == n % c
<1>1. /\ a \in Nat /\ r \in 0..(c - 1) /\ p = c * a + r
      /\ b \in Nat /\ t \in 0..(c - 1) /\ n = c * b + t
    BY DivMod, Zenon
<1>2. a <= b
    <2>1. n - p \in Nat /\ p + (n - p) = n
        OBVIOUS
    <2>2. p \div c <= (p + (n - p)) \div c
        BY <2>1, DivWithin, Zenon
    <2>. QED BY <2>1, <2>2
<1>. HIDE DEF a, r, b, t
<1>3. a = b => r < t
    <2>1. PICK x, y \in Int : x = c * a /\ y = c * b
        BY <1>1
    <2>2. a = b => x = y
        BY <2>1
    <2>. QED BY <1>1, <2>1, <2>2
<1>. QED BY <1>1, <1>2, <1>3, Zenon DEF a, r, b, t

------------------------------------------------------------------------------
(* The chunks of a key that is pushed under one dimension, with one        *)
(* capacity: position p of the history is entry p % c of chunk p \div c.   *)

Laid(ch, h, c) ==
    /\ \A i \in 0..MaxChunk :
         Len(ch[i]) = IF i < Len(h) \div c THEN c ELSE IF i = Len(h) \div c THEN Len(h) % c ELSE 0
    /\ \A p \in 0..(Len(h) - 1) : ch[p \div c][(p % c) + 1] = h[p + 1]

(* A push appends to the history. *)
LEMMA PushedLaid ==
    ASSUME NEW ch \in Vectors, NEW h \in Seq(UIDs), NEW c \in Nat \ {0}, NEW u \in UIDs,
           Laid(ch, h, c), Len(h) <= MaxChunk
    PROVE  Laid(Pushed(ch, Len(h), c, u), Append(h, u), c)
<1>. DEFINE n == Len(h)
            q == n \div c
            o == n % c
            new == [ch EXCEPT ![q] = Append(@, u)]
            h1 == Append(h, u)
<1>0. MaxChunk \in Nat /\ n \in Nat
    BY IndexerAssumption
<1>1. q \in 0..n /\ q \in 0..MaxChunk /\ o \in 0..(c - 1)
    <2>1. n \div c \in 0..n /\ n % c \in 0..(c - 1)
        BY <1>0, DivBound, DivMod, Zenon
    <2>. QED BY <1>0, <2>1
<1>2. Len(ch[q]) = o
    <2>1. \A i \in 0..MaxChunk : Len(ch[i]) = IF i < q THEN c ELSE IF i = q THEN o ELSE 0
        BY DEF Laid
    <2>. HIDE DEF q, o
    <2>. QED BY <1>1, <2>1
<1>3. Pushed(ch, Len(h), c, u) = new
    <2>1. TargetChunk(ch, n, c) = q
        BY <1>1, <1>2 DEF TargetChunk
    <2>. QED BY <2>1 DEF Pushed
<1>4. /\ ch[q] \in Seq(UIDs) /\ new[q] = Append(ch[q], u)
      /\ \A i \in 0..MaxChunk : i # q => new[i] = ch[i]
    BY <1>1 DEF Vectors
<1>5. h1 \in Seq(UIDs) /\ Len(h1) = n + 1 /\ h1[n + 1] = u /\ \A p \in 1..n : h1[p] = h[p]
    OBVIOUS
<1>6. /\ o + 1 < c => (n + 1) \div c = q /\ (n + 1) % c = o + 1
      /\ o + 1 = c => (n + 1) \div c = q + 1 /\ (n + 1) % c = 0
    <2>1. 1 \in Nat
        OBVIOUS
    <2>. QED BY <1>0, <2>1, DivWithin, Zenon
<1>7. \A p \in 0..(n - 1) : /\ p \div c \in 0..MaxChunk /\ p % c \in 0..(c - 1)
                            /\ p \div c = q => p % c < o
    <2>. SUFFICES ASSUME NEW p \in 0..(n - 1)
                  PROVE  /\ p \div c \in 0..MaxChunk /\ p % c \in 0..(c - 1)
                         /\ p \div c = q => p % c < o
        OBVIOUS
    <2>1. p \in Nat /\ p < n
        BY <1>0
    <2>2. /\ p \div c \in Nat /\ q \in Nat /\ p \div c <= q
          /\ p \div c = q => p % c < o
        BY <1>0, <2>1, DivOrder, Zenon
    <2>3. p % c \in 0..(c - 1)
        BY <2>1, DivMod, Zenon
    <2>. HIDE DEF q, o, n
    <2>4. PICK a : a = p \div c
        OBVIOUS
    <2>5. a \in 0..MaxChunk
        BY <1>0, <1>1, <2>2, <2>4
    <2>. QED BY <2>2, <2>3, <2>4, <2>5
<1>8. \A i \in 0..MaxChunk : Len(ch[i]) = IF i < q THEN c ELSE IF i = q THEN o ELSE 0
    BY DEF Laid
<1>9. \A p \in 0..(n - 1) : ch[p \div c][(p % c) + 1] = h[p + 1]
    BY DEF Laid
<1>. HIDE DEF new, h1, q, o, n
<1>10. \A j \in 1..o : new[q][j] = ch[q][j]
    BY <1>1, <1>2, <1>4
<1>11. new[q][o + 1] = u /\ Len(new[q]) = o + 1
    BY <1>2, <1>4
<1>12. ASSUME NEW i \in 0..MaxChunk
       PROVE  Len(new[i]) = IF i < (n + 1) \div c THEN c ELSE IF i = (n + 1) \div c THEN (n + 1) % c ELSE 0
    <2>1. PICK a, r : a = (n + 1) \div c /\ r = (n + 1) % c
        OBVIOUS
    <2>2. Len(new[i]) = IF i < q THEN c ELSE IF i = q THEN o + 1 ELSE 0
        BY <1>4, <1>8, <1>11
    <2>3. CASE o + 1 < c
        <3>1. a = q /\ r = o + 1
            BY <1>6, <2>1, <2>3
        <3>. QED BY <1>1, <2>1, <2>2, <3>1
    <2>4. CASE o + 1 = c
        <3>1. a = q + 1 /\ r = 0
            BY <1>6, <2>1, <2>4
        <3>2. Len(new[i]) = IF i < q + 1 THEN c ELSE IF i = q + 1 THEN 0 ELSE 0
            BY <1>1, <2>2, <2>4
        <3>. QED BY <2>1, <3>1, <3>2
    <2>. QED BY <1>1, <2>3, <2>4
<1>13. ASSUME NEW p \in 0..n PROVE new[p \div c][(p % c) + 1] = h1[p + 1]
    <2>1. CASE p = n
        <3>1. p \div c = q /\ p % c = o
            BY <2>1 DEF q, o
        <3>. QED BY <1>5, <1>11, <2>1, <3>1
    <2>2. CASE p # n
        <3>1. p \in 0..(n - 1) /\ p + 1 \in 1..n
            BY <1>0, <2>2
        <3>2. PICK a, r : a = p \div c /\ r = p % c
            OBVIOUS
        <3>3. a \in 0..MaxChunk /\ r \in 0..(c - 1) /\ (a = q => r < o) /\ ch[a][r + 1] = h[p + 1]
            BY <1>7, <1>9, <3>1, <3>2
        <3>4. new[a][r + 1] = ch[a][r + 1]
            <4>1. CASE a = q
                BY <1>1, <1>10, <3>3, <4>1
            <4>. QED BY <1>4, <3>3, <4>1
        <3>. QED BY <1>5, <3>1, <3>2, <3>3, <3>4
    <2>. QED BY <2>1, <2>2
<1>14. 0..(Len(h1) - 1) = 0..n
    BY <1>0, <1>5
<1>15. Laid(new, h1, c)
    BY <1>5, <1>12, <1>13, <1>14 DEF Laid
<1>. QED BY <1>3, <1>15 DEF h1

------------------------------------------------------------------------------
(* The histories.                                                          *)

Logged == order \in Seq(UIDs) /\ \A i \in 1..Len(order) : rec[order[i]] # NoRec

(* A history is a list of UIDs. *)
LEMMA HistoryType == ASSUME Logged, NEW d, NEW k PROVE History(d, k) \in Seq(UIDs)
<1>1. {i \in DOMAIN order : KeyOf(d, order[i], rec[order[i]]) = k} \in SUBSET (1..Len(order))
    BY DEF Logged
<1>. QED BY <1>1, KeptLists DEF Logged, History

(* A push appends the UID to the histories of its keys. *)
LEMMA HistoryPushed ==
    ASSUME IndexTypeOK, Logged, NEW u \in UIDs, NEW e \in Expirations, rec[u] = NoRec, IndexWrites(u, e),
           NEW d, NEW k
    PROVE  /\ Logged'
           /\ k = KeyOf(d, u, e) => History(d, k)' = Append(History(d, k), u)
           /\ k # KeyOf(d, u, e) => History(d, k)' = History(d, k)
<1>. DEFINE P == {i \in DOMAIN order : KeyOf(d, order[i], rec[order[i]]) = k}
            Q == {i \in DOMAIN order' : KeyOf(d, order'[i], rec'[order'[i]]) = k}
            n == Len(order)
<1>1. rec'[u] = e /\ e # NoRec /\ \A v \in UIDs : v # u => rec'[v] = rec[v]
    BY IndexerConstants DEF IndexTypeOK, IndexWrites
<1>2. /\ order \in Seq(UIDs) /\ n \in Nat /\ order' \in Seq(UIDs) /\ Len(order') = n + 1
      /\ DOMAIN order = 1..n /\ DOMAIN order' = 1..(n + 1)
      /\ order'[n + 1] = u /\ \A i \in 1..n : order'[i] = order[i]
    BY DEF Logged, IndexWrites
<1>3. \A i \in 1..n : order[i] \in UIDs /\ order[i] # u /\ rec'[order[i]] = rec[order[i]] /\ rec[order[i]] # NoRec
    BY <1>1, <1>2 DEF Logged
<1>4. Logged'
    BY <1>1, <1>2, <1>3 DEF Logged
<1>5. P \in SUBSET (1..n) /\ P \in SUBSET (1..Len(order')) /\ \A i \in P : i < n + 1 /\ order[i] = order'[i]
    BY <1>2
<1>6. Kept(order', P) = Kept(order, P)
    <2>. HIDE DEF P
    <2>. QED BY <1>2, <1>5, KeptSame
<1>7. \A i \in 1..(n + 1) : i \in Q <=> i \in P \/ (i = n + 1 /\ k = KeyOf(d, u, e))
    <2>1. \A i \in 1..n : i \in Q <=> i \in P
        BY <1>2, <1>3
    <2>2. n + 1 \in Q <=> k = KeyOf(d, u, e)
        BY <1>1, <1>2
    <2>3. \A i \in 1..(n + 1) : i \in 1..n \/ i = n + 1
        BY <1>2
    <2>. HIDE DEF Q
    <2>4. n + 1 \notin P
        BY <1>2
    <2>. HIDE DEF P
    <2>. QED BY <2>1, <2>2, <2>3, <2>4
<1>8. Q \subseteq 1..(n + 1)
    BY <1>2
<1>9. History(d, k) = Kept(order, P) /\ History(d, k)' = Kept(order', Q)
    BY DEF History
<1>. HIDE DEF P, Q
<1>10. CASE k = KeyOf(d, u, e)
    <2>1. Q = P \cup {n + 1}
        <3>1. n + 1 \in 1..(n + 1) /\ P \subseteq 1..(n + 1)
            BY <1>2, <1>5
        <3>2. \A i : i \in Q <=> i \in P \cup {n + 1}
            BY <1>7, <1>8, <1>10, <3>1
        <3>. QED BY <3>2, Zenon
    <2>2. Kept(order', P \cup {n + 1}) = Append(Kept(order', P), order'[n + 1])
        <3>1. PICK s \in Seq(UIDs) : s = order'
            BY <1>2
        <3>2. P \in SUBSET (1..Len(s)) /\ n + 1 \in 1..Len(s) /\ \A x \in P : x < n + 1
            BY <1>2, <1>5, <3>1
        <3>3. Kept(s, P \cup {n + 1}) = Append(Kept(s, P), s[n + 1])
            BY <3>2, KeptLast
        <3>. QED BY <3>1, <3>3
    <2>. QED BY <1>2, <1>4, <1>6, <1>9, <1>10, <2>1, <2>2
<1>11. CASE k # KeyOf(d, u, e)
    <2>1. Q = P
        BY <1>2, <1>5, <1>7, <1>8, <1>11
    <2>. QED BY <1>4, <1>6, <1>9, <1>11, <2>1
<1>. QED BY <1>10, <1>11

(* Nothing is listed under k in another dimension. *)
Alone(d, k) == \A x \in Dims : x # d => History(x, k) = <<>>

(* The capacity that every push under dimension d has used. *)
Uses(d, c) == IF d = "expiration" THEN c = MAX_CHUNK_SIZE ELSE Fixed(c)

ChunksLaid(d, k) == Alone(d, k) => \A c \in Nat \ {0} : Uses(d, c) => Laid(chunk[k], History(d, k), c)

ReadInv ==
    /\ Logged
    /\ \A d \in Dims, k \in Keys : Len(History(d, k)) = total[<<d, k>>]
    /\ \A d \in Dims, k \in Keys : ChunksLaid(d, k)

(* What a push does to the chunks of a key of one dimension or of none. *)
LEMMA ChunksAlone ==
    ASSUME NEW u \in UIDs, NEW e, NEW d \in Dims, NEW k,
           \A x \in Dims : x # d => k # KeyOf(x, u, e)
    PROVE  /\ k # KeyOf(d, u, e) => ChunksWith(k, u, e) = chunk[k]
           /\ k = KeyOf(d, u, e) =>
                ChunksWith(k, u, e) = Pushed(chunk[k], total[<<d, k>>],
                                             IF d = "expiration" THEN MAX_CHUNK_SIZE ELSE capacity, u)
<1>1. /\ KeyOf("recipient", u, e) = u.recipient /\ KeyOf("schema", u, e) = u.schema
      /\ KeyOf("attester", u, e) = u.attester
    BY DEF KeyOf
<1>2. PICK x : x = KeyOf("expiration", u, e)
    OBVIOUS
<1>3. /\ "recipient" # d => k # u.recipient
      /\ "schema" # d => k # u.schema
      /\ "attester" # d => k # u.attester
      /\ "expiration" # d => k # x
    BY <1>1, <1>2 DEF Dims
<1>4. CASE k # KeyOf(d, u, e)
    <2>1. k # u.recipient /\ k # u.schema /\ k # u.attester /\ k # x
        BY <1>1, <1>2, <1>3, <1>4
    <2>. QED BY <1>2, <1>4, <2>1 DEF ChunksWith
<1>5. CASE k = KeyOf(d, u, e)
    <2>1. CASE d = "recipient"
        BY <1>1, <1>2, <1>3, <1>5, <2>1 DEF ChunksWith
    <2>2. CASE d = "schema"
        BY <1>1, <1>2, <1>3, <1>5, <2>2 DEF ChunksWith
    <2>3. CASE d = "attester"
        BY <1>1, <1>2, <1>3, <1>5, <2>3 DEF ChunksWith
    <2>4. CASE d = "expiration"
        BY <1>1, <1>2, <1>3, <1>5, <2>4 DEF ChunksWith
    <2>. QED BY <2>1, <2>2, <2>3, <2>4 DEF Dims
<1>. QED BY <1>4, <1>5

(* A push keeps the layout. *)
LEMMA LaidPushed ==
    ASSUME IndexInv, ReadInv, NEW u \in UIDs, NEW e \in Expirations, rec[u] = NoRec, IndexWrites(u, e),
           NEW d \in Dims, NEW k \in Keys
    PROVE  Len(History(d, k)') = total'[<<d, k>>] /\ ChunksLaid(d, k)'
<1>. DEFINE h == History(d, k)
            n == total[<<d, k>>]
<1>0. IndexTypeOK /\ CountsExact /\ Logged
    BY DEF IndexInv, ReadInv
<1>1. \A x \in Dims : /\ k = KeyOf(x, u, e) => History(x, k)' = Append(History(x, k), u)
                      /\ k # KeyOf(x, u, e) => History(x, k)' = History(x, k)
                      /\ History(x, k) \in Seq(UIDs)
    BY <1>0, HistoryPushed, HistoryType
<1>2. total'[<<d, k>>] = IF k = KeyOf(d, u, e) THEN n + 1 ELSE n
    BY DEF IndexWrites
<1>3. h \in Seq(UIDs) /\ Len(h) = n /\ n \in Nat
    BY <1>1 DEF ReadInv
<1>4. Len(History(d, k)') = total'[<<d, k>>]
    <2>. HIDE DEF n
    <2>1. CASE k = KeyOf(d, u, e)
        <3>1. History(d, k)' = Append(h, u) /\ total'[<<d, k>>] = n + 1
            BY <1>1, <1>2, <2>1
        <3>. HIDE DEF h
        <3>. QED BY <1>3, <3>1
    <2>2. CASE k # KeyOf(d, u, e)
        <3>1. History(d, k)' = h /\ total'[<<d, k>>] = n
            BY <1>1, <1>2, <2>2
        <3>. QED BY <1>3, <3>1
    <2>. QED BY <2>1, <2>2
<1>5. ASSUME Alone(d, k)', NEW c \in Nat \ {0}, Uses(d, c)'
      PROVE  Laid(chunk'[k], History(d, k)', c)
    <2>1. \A x \in Dims : x # d => History(x, k)' = <<>>
        BY <1>5 DEF Alone
    <2>2. ASSUME NEW x \in Dims, x # d PROVE k # KeyOf(x, u, e) /\ History(x, k) = <<>>
        <3>1. History(x, k)' = <<>> /\ History(x, k) \in Seq(UIDs)
            BY <1>1, <2>1, <2>2
        <3>2. Append(History(x, k), u) # <<>>
            BY <3>1, AppendProperties
        <3>. QED BY <1>1, <3>1, <3>2
    <2>3. Uses(d, c) /\ (d # "expiration" => capacity = c)
        BY <1>5 DEF Uses, Fixed, IndexWrites
    <2>4. Laid(chunk[k], h, c)
        <3>1. Alone(d, k) /\ ChunksLaid(d, k)
            BY <2>2 DEF Alone, ReadInv
        <3>. QED BY <2>3, <3>1 DEF ChunksLaid
    <2>5. chunk'[k] = ChunksWith(k, u, e)
        BY DEF IndexWrites
    <2>6. CASE k # KeyOf(d, u, e)
        <3>1. chunk'[k] = chunk[k]
            <4>1. ChunksWith(k, u, e) = chunk[k]
                BY <2>2, <2>6, ChunksAlone, Zenon
            <4>. QED BY <2>5, <4>1
        <3>2. History(d, k)' = h
            BY <1>1, <2>6
        <3>. QED BY <2>4, <3>1, <3>2
    <2>7. CASE k = KeyOf(d, u, e)
        <3>1. chunk'[k] = Pushed(chunk[k], n, c, u)
            <4>1. ChunksWith(k, u, e) =
                    Pushed(chunk[k], n, IF d = "expiration" THEN MAX_CHUNK_SIZE ELSE capacity, u)
                BY <2>2, <2>7, ChunksAlone
            <4>2. c = IF d = "expiration" THEN MAX_CHUNK_SIZE ELSE capacity
                BY <2>3 DEF Uses
            <4>. QED BY <2>5, <4>1, <4>2
        <3>2. History(d, k)' = Append(h, u)
            BY <1>1, <2>7
        <3>3. n <= MaxChunk
            <4>1. n < Cardinality(UIDs)
                BY <1>0, RoomLeft
            <4>2. Cardinality(UIDs) \in Nat /\ MaxChunk \in Nat /\ MaxChunk > Cardinality(UIDs)
                BY IndexerAssumption, FS_CardinalityType
            <4>. HIDE DEF n
            <4>. QED BY <1>3, <4>1, <4>2
        <3>4. chunk[k] \in Vectors
            BY <1>0 DEF IndexTypeOK
        <3>5. Laid(Pushed(chunk[k], Len(h), c, u), Append(h, u), c)
            <4>. HIDE DEF n, h
            <4>. QED BY <1>3, <2>4, <3>3, <3>4, PushedLaid
        <3>. HIDE DEF n, h
        <3>. QED BY <1>3, <3>1, <3>2, <3>5
    <2>. QED BY <2>6, <2>7
<1>6. ChunksLaid(d, k)'
    BY <1>5 DEF ChunksLaid
<1>. QED BY <1>4, <1>6

(* The layout is kept by every step. *)
LEMMA ReadNextInv ==
    ASSUME IndexInv, ReadInv, [Next]_indexerVars
    PROVE  ReadInv'
<1>1. Push \/ NotPushed
    BY StepShape
<1>2. CASE Push
    <2>1. PICK u \in UIDs, e \in Expirations : rec[u] = NoRec /\ IndexWrites(u, e)
        BY <1>2 DEF Push
    <2>2. Logged'
        BY <2>1, HistoryPushed DEF IndexInv, ReadInv
    <2>3. \A d \in Dims, k \in Keys : Len(History(d, k)') = total'[<<d, k>>] /\ ChunksLaid(d, k)'
        BY <2>1, LaidPushed
    <2>. QED BY <2>2, <2>3 DEF ReadInv
<1>3. CASE NotPushed
    BY <1>3 DEF NotPushed, ReadInv, Logged, ChunksLaid, Alone, Uses, Fixed, History
<1>. QED BY <1>1, <1>2, <1>3

(* Empty chunks hold the empty history. *)
LEMMA ReadInitInv == Init => ReadInv
<1>. SUFFICES ASSUME Init PROVE ReadInv
    OBVIOUS
<1>1. order = <<>> /\ DOMAIN order = {} /\ Len(order) = 0
    BY DEF Init
<1>2. Logged
    BY <1>1 DEF Logged
<1>3. ASSUME NEW d, NEW k PROVE History(d, k) = <<>>
    <2>1. {i \in DOMAIN order : KeyOf(d, order[i], rec[order[i]]) = k} = {}
        BY <1>1
    <2>. QED BY <2>1, KeptNone DEF History
<1>4. ASSUME NEW d \in Dims, NEW k \in Keys PROVE Len(History(d, k)) = total[<<d, k>>]
    BY <1>3 DEF Init
<1>5. ASSUME NEW k \in Keys, NEW c \in Nat \ {0} PROVE Laid(chunk[k], <<>>, c)
    <2>1. \A i \in 0..MaxChunk : chunk[k][i] = <<>>
        BY DEF Init
    <2>2. 0 \div c = 0 /\ 0 % c = 0 /\ Len(<<>>) = 0
        OBVIOUS
    <2>. QED BY <2>1, <2>2 DEF Laid
<1>6. \A d \in Dims, k \in Keys : ChunksLaid(d, k)
    BY <1>3, <1>5 DEF ChunksLaid
<1>. QED BY <1>2, <1>4, <1>6 DEF ReadInv

------------------------------------------------------------------------------
(* The windows.                                                            *)

(* w is the walk of collect_page over the chunks of k up to end. *)
Walks(w, k, c, end) ==
    w = [i \in Nat |->
          LET ch == ReadChunk(k, i \div c)
              offset == i % c
              left == Len(ch) - offset
              take == Upto(left, end - i)
          IN  IF i >= end \/ ch = <<>> THEN <<>>
              ELSE IF offset >= Len(ch) THEN w[((i \div c) + 1) * c]
              ELSE SubSeq(ch, offset + 1, offset + take) \o w[i + take]]

(* CollectWindow is the walk from its first position. *)
LEMMA WindowWalks ==
    ASSUME NEW k, NEW c, NEW from, NEW end
    PROVE  CollectWindow(k, c, from, end) = (CHOOSE w : Walks(w, k, c, end))[from]
BY DEF CollectWindow, Walks

(* Before the end of the history a walk takes a part of it and goes on;    *)
(* at the end it stops.                                                    *)
Goes(w, h, end) ==
    /\ \A i \in Nat : i >= end => w[i] = <<>>
    /\ \A i \in Nat : i < end =>
         \E take \in 1..(end - i) : w[i] = SubSeq(h, i + 1, i + take) \o w[i + take]

(* The entry that a position before the end of the history reads. *)
LEMMA LaidRead ==
    ASSUME NEW k \in Keys, chunk[k] \in Vectors, NEW h \in Seq(UIDs), Len(h) <= MaxChunk,
           NEW c \in Nat \ {0}, Laid(chunk[k], h, c), NEW i \in 0..(Len(h) - 1)
    PROVE  LET ch == ReadChunk(k, i \div c)
           IN  /\ ch \in Seq(UIDs) /\ i % c \in Nat /\ i % c < Len(ch) /\ Len(ch) <= c
               /\ \A s \in 0..(Len(h) - 1 - i) : (i % c) + s < Len(ch) => ch[(i % c) + s + 1] = h[i + s + 1]
<1>. DEFINE q == i \div c
            o == i % c
            n == Len(h)
            ch == chunk[k][q]
<1>0. n \in Nat /\ MaxChunk \in Nat /\ i \in Nat /\ i < n
    BY IndexerAssumption
<1>1. q \in 0..i /\ o \in 0..(c - 1)
    BY <1>0, DivBound, DivMod, Zenon
<1>2. q \in 0..MaxChunk
    <2>. HIDE DEF q
    <2>. QED BY <1>0, <1>1
<1>3. ReadChunk(k, i \div c) = ch
    BY <1>2 DEF ReadChunk
<1>4. ch \in Seq(UIDs)
    BY <1>2 DEF Vectors
<1>5. Len(ch) = IF q < n \div c THEN c ELSE IF q = n \div c THEN n % c ELSE 0
    BY <1>2 DEF Laid
<1>6. q <= n \div c /\ (q = n \div c => o < n % c) /\ n \div c \in Nat /\ n % c \in 0..(c - 1)
    BY <1>0, DivOrder, DivMod, Zenon
<1>7. o < Len(ch) /\ Len(ch) <= c
    <2>1. PICK a, b : a = n \div c /\ b = n % c
        OBVIOUS
    <2>. HIDE DEF q, o, ch
    <2>. QED BY <1>1, <1>5, <1>6, <2>1
<1>8. ASSUME NEW s \in 0..(n - 1 - i), o + s < Len(ch) PROVE ch[o + s + 1] = h[i + s + 1]
    <2>1. s \in Nat /\ o + s < c /\ i + s \in 0..(n - 1)
        <3>. HIDE DEF n, o, ch
        <3>. QED BY <1>0, <1>1, <1>4, <1>7, <1>8
    <2>2. (i + s) \div c = q /\ (i + s) % c = o + s
        BY <1>0, <2>1, DivWithin, Zenon
    <2>3. chunk[k][(i + s) \div c][((i + s) % c) + 1] = h[i + s + 1]
        BY <2>1 DEF Laid
    <2>. QED BY <2>2, <2>3
<1>9. o \in Nat
    BY <1>1
<1>10. PICK x : x = ch
    OBVIOUS
<1>11. /\ x \in Seq(UIDs) /\ o \in Nat /\ o < Len(x) /\ Len(x) <= c
       /\ \A s \in 0..(n - 1 - i) : o + s < Len(x) => x[o + s + 1] = h[i + s + 1]
    <2>. HIDE DEF o, n, ch
    <2>. QED BY <1>4, <1>7, <1>8, <1>9, <1>10
<1>12. ReadChunk(k, i \div c) = x
    BY <1>3, <1>10
<1>. QED BY <1>11, <1>12

(* A walk over laid chunks, or over nothing. *)
LEMMA WalkGoes ==
    ASSUME NEW k \in Keys, chunk[k] \in Vectors, NEW h \in Seq(UIDs), Len(h) <= MaxChunk,
           NEW c \in Nat \ {0}, NEW end \in 0..Len(h), end # 0 => Laid(chunk[k], h, c), NEW w
    PROVE  /\ Walks(w, k, c, end) => Goes(w, h, end)
           /\ w = [i \in Nat |-> SubSeq(h, i + 1, end)] => Walks(w, k, c, end)
<1>. DEFINE ch(i) == ReadChunk(k, i \div c)
            o(i) == i % c
            take(i) == Upto(Len(ch(i)) - o(i), end - i)
            body(i) == IF i >= end \/ ch(i) = <<>> THEN <<>>
                       ELSE IF o(i) >= Len(ch(i)) THEN w[((i \div c) + 1) * c]
                       ELSE SubSeq(ch(i), o(i) + 1, o(i) + take(i)) \o w[i + take(i)]
<1>0. Len(h) \in Nat /\ end \in Nat /\ end <= Len(h)
    OBVIOUS
<1>1. Walks(w, k, c, end) <=> w = [i \in Nat |-> body(i)]
    BY DEF Walks
<1>2. ASSUME NEW i \in Nat, i >= end PROVE body(i) = <<>>
    BY <1>2
<1>3. ASSUME NEW i \in Nat, i < end
      PROVE  /\ take(i) \in 1..(end - i)
             /\ body(i) = SubSeq(h, i + 1, i + take(i)) \o w[i + take(i)]
    <2>0. i \in 0..(Len(h) - 1) /\ end # 0 /\ Laid(chunk[k], h, c)
        BY <1>0, <1>3
    <2>1. /\ ch(i) \in Seq(UIDs) /\ o(i) \in Nat /\ o(i) < Len(ch(i))
          /\ \A s \in 0..(Len(h) - 1 - i) : o(i) + s < Len(ch(i)) => ch(i)[o(i) + s + 1] = h[i + s + 1]
        BY <2>0, LaidRead
    <2>2. PICK x, p, t : x = ch(i) /\ p = o(i) /\ t = take(i)
        OBVIOUS
    <2>3. /\ x \in Seq(UIDs) /\ p \in Nat /\ p < Len(x) /\ t = Upto(Len(x) - p, end - i)
          /\ \A s \in 0..(Len(h) - 1 - i) : p + s < Len(x) => x[p + s + 1] = h[i + s + 1]
        BY <2>1, <2>2
    <2>4. body(i) = SubSeq(x, p + 1, p + t) \o w[i + t]
        <3>1. ~(i >= end) /\ x # <<>> /\ ~(p >= Len(x))
            BY <1>0, <1>3, <2>3
        <3>. QED BY <2>2, <3>1
    <2>5. t \in 1..(end - i) /\ p + t <= Len(x)
        BY <1>0, <1>3, <2>3 DEF Upto
    <2>6. SubSeq(x, p + 1, p + t) = SubSeq(h, i + 1, i + t)
        <3>3. /\ SubSeq(x, p + 1, p + t) \in Seq(UIDs) /\ Len(SubSeq(x, p + 1, p + t)) = t
              /\ \A j \in 1..t : SubSeq(x, p + 1, p + t)[j] = x[p + j]
            BY <2>3, <2>5, CutOf
        <3>4. /\ SubSeq(h, i + 1, i + t) \in Seq(UIDs) /\ Len(SubSeq(h, i + 1, i + t)) = t
              /\ \A j \in 1..t : SubSeq(h, i + 1, i + t)[j] = h[i + j]
            <4>1. t \in Nat /\ i + t <= Len(h)
                BY <1>0, <1>3, <2>5
            <4>. QED BY <4>1, CutOf
        <3>5. \A j \in 1..t : x[p + j] = h[i + j]
            <4>. SUFFICES ASSUME NEW j \in 1..t PROVE x[p + j] = h[i + j]
                OBVIOUS
            <4>1. j - 1 \in 0..(Len(h) - 1 - i) /\ p + (j - 1) < Len(x)
                BY <1>0, <2>3, <2>5
            <4>2. x[p + (j - 1) + 1] = h[i + (j - 1) + 1]
                BY <2>3, <4>1
            <4>3. p + (j - 1) + 1 = p + j /\ i + (j - 1) + 1 = i + j
                BY <2>3
            <4>. QED BY <4>2, <4>3
        <3>. QED BY <3>3, <3>4, <3>5, SeqEqual
    <2>. QED BY <2>2, <2>4, <2>5, <2>6
<1>4. ASSUME Walks(w, k, c, end) PROVE Goes(w, h, end)
    <2>. HIDE DEF body, take
    <2>1. \A i \in Nat : w[i] = body(i)
        BY <1>1, <1>4
    <2>. QED BY <1>2, <1>3, <2>1 DEF Goes
<1>5. ASSUME w = [i \in Nat |-> SubSeq(h, i + 1, end)] PROVE Walks(w, k, c, end)
    <2>1. ASSUME NEW i \in Nat PROVE w[i] = body(i)
        <3>0. w[i] = SubSeq(h, i + 1, end)
            BY <1>5
        <3>1. CASE i >= end
            <4>1. SubSeq(h, i + 1, end) = <<>>
                BY <1>0, <3>1, SubSeqEmpty
            <4>. QED BY <1>2, <3>0, <3>1, <4>1
        <3>2. CASE i < end
            <4>. HIDE DEF body
            <4>1. PICK t \in 1..(end - i) : body(i) = SubSeq(h, i + 1, i + t) \o w[i + t]
                <5>. HIDE DEF take
                <5>. QED BY <1>3, <3>2
            <4>2. w[i + t] = SubSeq(h, i + t + 1, end)
                <5>1. PICK j \in Nat : j = i + t
                    BY <1>0
                <5>. QED BY <1>5, <5>1
            <4>3. i + 1 \in 1..(Len(h) + 1) /\ i + t \in ((i + 1) - 1)..Len(h) /\ end \in (i + t)..Len(h)
                BY <1>0, <3>2
            <4>4. SubSeq(h, i + 1, i + t) \o SubSeq(h, i + t + 1, end) = SubSeq(h, i + 1, end)
                BY <4>3, ConcatAdjacentSubSeq
            <4>. QED BY <3>0, <4>1, <4>2, <4>4
        <3>. QED BY <1>0, <3>1, <3>2
    <2>2. w = [i \in Nat |-> w[i]]
        BY <1>5
    <2>. HIDE DEF body
    <2>. QED BY <1>1, <2>1, <2>2
<1>. QED BY <1>4, <1>5

(* A walk that goes on reads the rest of the history. *)
LEMMA GoesReads ==
    ASSUME NEW h \in Seq(UIDs), NEW end \in 0..Len(h), NEW w, Goes(w, h, end), NEW from \in Nat
    PROVE  w[from] = SubSeq(h, from + 1, end)
<1>. DEFINE N == {m \in Nat : \A i \in Nat : end - i <= m => w[i] = SubSeq(h, i + 1, end)}
<1>0. Len(h) \in Nat /\ end \in Nat /\ end <= Len(h)
    OBVIOUS
<1>1. ASSUME NEW i \in Nat, i >= end PROVE w[i] = SubSeq(h, i + 1, end)
    <2>1. SubSeq(h, i + 1, end) = <<>>
        BY <1>0, <1>1, SubSeqEmpty
    <2>. QED BY <1>1, <2>1 DEF Goes
<1>2. 0 \in N
    BY <1>0, <1>1
<1>3. ASSUME NEW m \in N PROVE m + 1 \in N
    <2>. SUFFICES ASSUME NEW i \in Nat, end - i <= m + 1 PROVE w[i] = SubSeq(h, i + 1, end)
        OBVIOUS
    <2>1. CASE i >= end
        BY <1>1, <2>1
    <2>2. CASE i < end
        <3>1. PICK t \in 1..(end - i) : w[i] = SubSeq(h, i + 1, i + t) \o w[i + t]
            BY <2>2 DEF Goes
        <3>2. i + t \in Nat /\ end - (i + t) <= m
            BY <1>0
        <3>3. w[i + t] = SubSeq(h, i + t + 1, end)
            BY <3>2
        <3>4. i + 1 \in 1..(Len(h) + 1) /\ i + t \in ((i + 1) - 1)..Len(h) /\ end \in (i + t)..Len(h)
            BY <1>0, <2>2
        <3>5. SubSeq(h, i + 1, i + t) \o SubSeq(h, i + t + 1, end) = SubSeq(h, i + 1, end)
            BY <3>4, ConcatAdjacentSubSeq
        <3>. QED BY <3>1, <3>3, <3>5
    <2>. QED BY <1>0, <2>1, <2>2
<1>4. N = Nat
    <2>. HIDE DEF N
    <2>1. N \in SUBSET Nat
        BY DEF N
    <2>. QED BY <1>2, <1>3, <2>1, NatSetInduction
<1>5. CASE from < end
    <2>1. end - from \in N
        BY <1>0, <1>4, <1>5
    <2>2. end - from <= end - from
        BY <1>0
    <2>. QED BY <2>1, <2>2
<1>. QED BY <1>0, <1>1, <1>5

(* A window of the chunks is a window of the history. *)
LEMMA WindowExact ==
    ASSUME NEW k \in Keys, chunk[k] \in Vectors, NEW h \in Seq(UIDs), Len(h) <= MaxChunk,
           NEW c \in Nat \ {0}, NEW end \in 0..Len(h), end # 0 => Laid(chunk[k], h, c), NEW from \in Nat
    PROVE  CollectWindow(k, c, from, end) = SubSeq(h, from + 1, end)
<1>. DEFINE w == CHOOSE x : Walks(x, k, c, end)
<1>1. \E x : Walks(x, k, c, end)
    <2>1. PICK x : x = [i \in Nat |-> SubSeq(h, i + 1, end)]
        OBVIOUS
    <2>. QED BY <2>1, WalkGoes
<1>2. Walks(w, k, c, end)
    BY <1>1
<1>3. CollectWindow(k, c, from, end) = w[from]
    BY WindowWalks
<1>. HIDE DEF w
<1>4. Goes(w, h, end)
    BY <1>2, WalkGoes
<1>. QED BY <1>3, <1>4, GoesReads

(* Without a filter everything is kept. *)
LEMMA FilteredAll == ASSUME NEW s \in Seq(UIDs) PROVE Filtered(s, TRUE) = s
<1>1. Len(s) \in Nat /\ {i \in DOMAIN s : TRUE \/ Active(s[i])} = 1..Len(s)
    OBVIOUS
<1>2. Filtered(s, TRUE) = Kept(s, 1..Len(s))
    BY <1>1 DEF Filtered
<1>3. Len(s) \in 0..Len(s) /\ 1..Len(s) \in SUBSET (1..Len(s))
    BY <1>1
<1>4. Len(Kept(s, 1..Len(s))) = Len(s) /\ \A j \in 1..Len(s) : Kept(s, 1..Len(s))[j] = s[j]
    BY <1>3, KeptFirst
<1>5. Kept(s, 1..Len(s)) \in Seq(UIDs)
    BY <1>3, KeptLists
<1>6. PICK z : z = Kept(s, 1..Len(s))
    OBVIOUS
<1>7. z = s
    BY <1>4, <1>5, <1>6, SeqEqual
<1>. QED BY <1>2, <1>6, <1>7

(* A filter keeps UIDs. *)
LEMMA FilteredType == ASSUME NEW s \in Seq(UIDs), NEW all PROVE Filtered(s, all) \in Seq(UIDs)
<1>1. {i \in DOMAIN s : all \/ Active(s[i])} \in SUBSET (1..Len(s))
    OBVIOUS
<1>. QED BY <1>1, KeptLists DEF Filtered

(* Nothing is left of nothing. *)
LEMMA FilteredNone == ASSUME NEW all PROVE Filtered(<<>>, all) = <<>>
<1>1. {i \in DOMAIN <<>> : all \/ Active(<<>>[i])} = {}
    OBVIOUS
<1>. QED BY <1>1, KeptNone DEF Filtered

------------------------------------------------------------------------------
(* The readers.                                                            *)

(* What the readers of a key start from. *)
LEMMA HistoryCounted ==
    ASSUME IndexInv, ReadInv, NEW d \in Dims, NEW k \in Keys
    PROVE  /\ History(d, k) \in Seq(UIDs) /\ Len(History(d, k)) = IndexTotal(d, k)
           /\ IndexTotal(d, k) \in Nat /\ IndexTotal(d, k) <= MaxChunk /\ chunk[k] \in Vectors
           /\ History(d, k) = <<>> <=> Under(d, k) = {}
<1>1. History(d, k) \in Seq(UIDs)
    BY HistoryType DEF ReadInv
<1>2. Len(History(d, k)) = IndexTotal(d, k) /\ IndexTotal(d, k) = Cardinality(Under(d, k))
    BY DEF IndexInv, ReadInv, IndexTotal, CountsExact, GetCountBy
<1>3. Under(d, k) \subseteq UIDs /\ IsFiniteSet(UIDs)
    BY IndexerConstants DEF Under, Indexed
<1>4. /\ Cardinality(UIDs) \in Nat /\ IsFiniteSet(Under(d, k)) /\ Cardinality(Under(d, k)) \in Nat
      /\ Cardinality(Under(d, k)) <= Cardinality(UIDs)
    BY <1>3, FS_Subset, FS_CardinalityType
<1>5. Cardinality(Under(d, k)) = 0 <=> Under(d, k) = {}
    BY <1>4, FS_EmptySet
<1>6. MaxChunk \in Nat /\ MaxChunk > Cardinality(UIDs)
    BY IndexerAssumption
<1>7. chunk[k] \in Vectors
    BY DEF IndexInv, IndexTypeOK
<1>8. History(d, k) = <<>> <=> Len(History(d, k)) = 0
    BY <1>1
<1>9. PICK n, m : n = IndexTotal(d, k) /\ m = Cardinality(UIDs)
    OBVIOUS
<1>10. n \in Nat /\ n <= MaxChunk
    BY <1>2, <1>4, <1>6, <1>9
<1>. QED BY <1>1, <1>2, <1>5, <1>7, <1>8, <1>9, <1>10

(* A key that is used in a dimension belongs to it; an address with one    *)
(* role is used in no other.                                               *)
LEMMA AloneHere ==
    ASSUME IndexInv, ReadInv, NEW d \in Dims, NEW k \in Keys, History(d, k) # <<>>,
           d # "expiration" => SingleRole(k)
    PROVE  Alone(d, k)
<1>1. ASSUME NEW x \in Dims, Under(x, k) # {}
      PROVE  IF x = "schema" THEN k \in Schemas
             ELSE IF x = "expiration" THEN k \in ExpirationStatus ELSE k \in Addrs
    <2>1. PICK u \in UIDs : KeyOf(x, u, rec[u]) = k
        BY <1>1 DEF Under, Indexed
    <2>2. u.recipient \in Addrs /\ u.attester \in Addrs /\ u.schema \in Schemas
        BY IndexerAssumption
    <2>. QED BY <2>1, <2>2 DEF KeyOf, Dims, ExpirationStatus
<1>2. Addrs \cap Schemas = {} /\ (Addrs \cup Schemas) \cap ExpirationStatus = {}
    BY IndexerAssumption
<1>3. Under(d, k) # {}
    BY HistoryCounted
<1>4. ASSUME NEW x \in Dims, x # d, History(x, k) # <<>> PROVE FALSE
    <2>1. Under(x, k) # {}
        BY <1>4, HistoryCounted
    <2>2. {x, d} = {"recipient", "attester"}
        BY <1>1, <1>2, <1>3, <1>4, <2>1 DEF Dims
    <2>3. SingleRole(k)
        BY <2>2
    <2>. QED BY <1>3, <2>1, <2>2, <2>3 DEF SingleRole
<1>. QED BY <1>4 DEF Alone

(* Windows with the capacity that was used. *)
LEMMA HistoryWindow ==
    ASSUME IndexInv, ReadInv, NEW d \in Dims, NEW k \in Keys, d # "expiration" => SingleRole(k),
           NEW c \in Nat \ {0}, Uses(d, c), NEW end \in 0..IndexTotal(d, k), NEW from \in Nat
    PROVE  CollectWindow(k, c, from, end) = SubSeq(History(d, k), from + 1, end)
<1>. DEFINE h == History(d, k)
<1>1. h \in Seq(UIDs) /\ Len(h) <= MaxChunk /\ end \in 0..Len(h) /\ chunk[k] \in Vectors
    BY HistoryCounted
<1>2. end # 0 => Laid(chunk[k], h, c)
    <2>. SUFFICES ASSUME end # 0 PROVE Laid(chunk[k], h, c)
        OBVIOUS
    <2>1. h # <<>>
        <3>. HIDE DEF h
        <3>. QED BY <1>1
    <2>2. Alone(d, k) /\ ChunksLaid(d, k)
        BY <2>1, AloneHere DEF ReadInv
    <2>. QED BY <2>2 DEF ChunksLaid
<1>. HIDE DEF h
<1>3. CollectWindow(k, c, from, end) = SubSeq(h, from + 1, end)
    BY <1>1, <1>2, WindowExact
<1>. QED BY <1>3 DEF h

(* The first limit entries of the scan from cursor. *)
LEMMA ScanIs ==
    ASSUME IndexInv, ReadInv, NEW d \in Dims, NEW k \in Keys, d # "expiration" => SingleRole(k),
           NEW c \in Nat \ {0}, Uses(d, c), NEW all \in BOOLEAN,
           NEW cursor \in 0..Len(History(d, k)), NEW limit \in Nat
    PROVE  LET h == History(d, k)
               found == Filtered(SubSeq(h, cursor + 1, Len(h)), all)
           IN  ScanPage(d, k, c, cursor, limit, all) = SubSeq(found, 1, Upto(limit, Len(found)))
<1>. DEFINE h == History(d, k)
            n == Len(h)
            part == SubSeq(h, cursor + 1, n)
            found == Filtered(part, all)
<1>1. h \in Seq(UIDs) /\ n = IndexTotal(d, k) /\ n \in Nat
    BY HistoryCounted
<1>2. CollectWindow(k, c, cursor, n) = part
    <2>1. n \in 0..IndexTotal(d, k) /\ cursor \in Nat
        <3>. HIDE DEF h, n
        <3>. QED BY <1>1 DEF n, h
    <2>. QED BY <1>1, <2>1, HistoryWindow
<1>3. part \in Seq(UIDs)
    <2>1. PICK t \in Nat : t = n - cursor
        BY <1>1
    <2>2. cursor + t = n /\ cursor \in Nat /\ cursor + t <= Len(h)
        BY <1>1, <2>1
    <2>. HIDE DEF h, n
    <2>3. SubSeq(h, cursor + 1, cursor + t) \in Seq(UIDs)
        BY <1>1, <2>2, CutOf
    <2>. QED BY <2>2, <2>3
<1>4. cursor >= n => part = <<>>
    <2>. HIDE DEF h, n
    <2>1. cursor \in Nat
        BY <1>1 DEF h, n
    <2>. QED BY <1>1, <2>1, SubSeqEmpty
<1>5. found \in Seq(UIDs)
    <2>. HIDE DEF part
    <2>. QED BY <1>3, FilteredType
<1>6. cursor >= n => found = <<>>
    <2>. HIDE DEF part, n
    <2>. QED BY <1>4, FilteredNone
<1>7. SubSeq(found, 1, 0) = <<>>
    <2>. HIDE DEF found
    <2>. QED BY SubSeqEmpty
<1>8. ScanPage(d, k, c, cursor, limit, all) =
        IF limit = 0 \/ cursor >= n THEN <<>> ELSE SubSeq(found, 1, Upto(limit, Len(found)))
    BY <1>1, <1>2 DEF ScanPage
<1>9. limit = 0 => Upto(limit, Len(found)) = 0
    <2>. HIDE DEF found
    <2>1. Len(found) \in Nat
        BY <1>5
    <2>. QED BY <2>1 DEF Upto
<1>10. found = <<>> => Upto(limit, Len(found)) = 0
    <2>. HIDE DEF found
    <2>. QED BY DEF Upto
<1>11. ScanPage(d, k, c, cursor, limit, all) = SubSeq(found, 1, Upto(limit, Len(found)))
    <2>. HIDE DEF found, n
    <2>. QED BY <1>6, <1>7, <1>8, <1>9, <1>10
<1>. QED BY <1>11

(* Complete reads and pages of one capacity and one role. *)
LEMMA ForwardHolds ==
    ASSUME IndexInv, ReadInv, NEW d \in Dims \ {"expiration"}, NEW k \in Keys
    PROVE  ForwardExact(d, k, History(d, k))
<1>. DEFINE h == History(d, k)
            n == Len(h)
            page(cursor, limit) == SubSeq(h, cursor + 1, Upto(cursor + limit, n))
<1>. SUFFICES ASSUME SingleRole(k), Fixed(capacity)
              PROVE  /\ GetAttestationsBy(d, k) = h
                     /\ d = "attester" => GetByIssuer(k) = h
                     /\ GetFiltered(d, k, FALSE) = Filtered(h, FALSE)
                     /\ \A cursor \in 0..n, limit \in 0..n :
                          /\ GetAttsPaginated(d, k, cursor, limit) = page(cursor, limit)
                          /\ d = "recipient" =>
                               GetRecipientPageFiltered(k, cursor, limit, TRUE) = page(cursor, limit)
                          /\ d = "attester" =>
                               GetIssuerPageFiltered(k, cursor, limit, TRUE) = page(cursor, limit)
    BY DEF ForwardExact
<1>1. h \in Seq(UIDs) /\ n = IndexTotal(d, k) /\ n \in Nat
    BY HistoryCounted
<1>2. capacity \in Nat \ {0} /\ Uses(d, capacity) /\ d \in Dims
    BY DEF IndexInv, IndexTypeOK, Uses
<1>3. ASSUME NEW end \in 0..n, NEW from \in Nat
      PROVE  CollectWindow(k, capacity, from, end) = SubSeq(h, from + 1, end)
    <2>1. end \in 0..IndexTotal(d, k)
        BY <1>1
    <2>. QED BY <1>2, <2>1, HistoryWindow
<1>4. CollectWindow(k, capacity, 0, n) = h
    <2>1. 0 \in Nat /\ n \in 0..n /\ 0 + 1 = 1
        BY <1>1
    <2>2. CollectWindow(k, capacity, 0, n) = SubSeq(h, 0 + 1, n)
        BY <1>3, <2>1
    <2>3. SubSeq(h, 1, n) = h
        <3>. HIDE DEF h
        <3>. QED BY <1>1, SubSeqFull
    <2>. QED BY <2>1, <2>2, <2>3
<1>5. GetAttestationsBy(d, k) = h /\ GetFiltered(d, k, FALSE) = Filtered(h, FALSE)
    <2>1. \A all : CollectFiltered(d, k, all) = Filtered(h, all)
        BY <1>1, <1>4 DEF CollectFiltered
    <2>2. Filtered(h, TRUE) = h
        <3>. HIDE DEF h
        <3>. QED BY <1>1, FilteredAll
    <2>. QED BY <2>1, <2>2 DEF GetAttestationsBy, GetFiltered
<1>6. d = "attester" => GetByIssuer(k) = h
    BY <1>5 DEF GetByIssuer
<1>7. ASSUME NEW cursor \in 0..n, NEW limit \in 0..n
      PROVE  GetAttsPaginated(d, k, cursor, limit) = page(cursor, limit)
    <2>0. cursor \in Nat /\ limit \in Nat
        BY <1>1
    <2>. HIDE DEF h
    <2>1. Upto(cursor + limit, n) \in 0..n
        BY <1>1, <2>0 DEF Upto
    <2>2. limit = 0 \/ cursor >= n => page(cursor, limit) = <<>>
        <3>. SUFFICES ASSUME limit = 0 \/ cursor >= n PROVE page(cursor, limit) = <<>>
            OBVIOUS
        <3>1. PICK e : e = Upto(cursor + limit, n)
            OBVIOUS
        <3>2. e \in Int /\ cursor + 1 \in Int /\ e < cursor + 1
            BY <1>1, <2>0, <3>1 DEF Upto
        <3>. QED BY <3>1, <3>2, SubSeqEmpty
    <2>3. CollectWindow(k, capacity, cursor, Upto(cursor + limit, n)) = page(cursor, limit)
        BY <1>3, <2>0, <2>1 DEF h
    <2>. HIDE DEF page
    <2>. QED BY <1>1, <2>2, <2>3 DEF GetAttsPaginated, CollectPage
<1>8. ASSUME NEW cursor \in 0..n, NEW limit \in 0..n
      PROVE  ScanPage(d, k, capacity, cursor, limit, TRUE) = page(cursor, limit)
    <2>0. cursor \in Nat /\ limit \in Nat /\ cursor <= n /\ n - cursor \in Nat
        BY <1>1
    <2>. DEFINE part == SubSeq(h, cursor + 1, n)
                found == Filtered(part, TRUE)
    <2>1. ScanPage(d, k, capacity, cursor, limit, TRUE) = SubSeq(found, 1, Upto(limit, Len(found)))
        BY <1>2, <2>0, ScanIs
    <2>. HIDE DEF h
    <2>2. PICK t \in Nat : t = n - cursor /\ cursor + t = n
        BY <1>1, <2>0
    <2>3. SubSeq(h, cursor + 1, cursor + t) \in Seq(UIDs) /\ Len(SubSeq(h, cursor + 1, cursor + t)) = t
        BY <1>1, <2>0, <2>2, CutOf
    <2>4. part \in Seq(UIDs) /\ Len(part) = t /\ part = SubSeq(h, cursor + 1, cursor + t)
        BY <2>2, <2>3
    <2>5. found = part
        <3>. HIDE DEF part
        <3>. QED BY <2>4, FilteredAll
    <2>. HIDE DEF found, part
    <2>6. Upto(limit, t) \in 0..t /\ cursor + Upto(limit, t) = Upto(cursor + limit, n)
        BY <1>1, <2>0, <2>2 DEF Upto
    <2>7. SubSeq(SubSeq(h, cursor + 1, cursor + t), 1, Upto(limit, t)) = SubSeq(h, cursor + 1, cursor + Upto(limit, t))
        <3>1. PICK r \in 0..t : r = Upto(limit, t)
            BY <2>6
        <3>2. cursor + t <= Len(h)
            BY <1>1, <2>2
        <3>3. SubSeq(SubSeq(h, cursor + 1, cursor + t), 1, r) = SubSeq(h, cursor + 1, cursor + r)
            BY <1>1, <2>0, <2>2, <3>2, CutOfCut
        <3>. QED BY <3>1, <3>3
    <2>. QED BY <2>1, <2>4, <2>5, <2>6, <2>7
<1>. HIDE DEF page
<1>9. /\ d = "recipient" => \A cursor, limit : GetRecipientPageFiltered(k, cursor, limit, TRUE) =
                                                ScanPage(d, k, capacity, cursor, limit, TRUE)
      /\ d = "attester" => \A cursor, limit : GetIssuerPageFiltered(k, cursor, limit, TRUE) =
                                                ScanPage(d, k, capacity, cursor, limit, TRUE)
    BY DEF GetRecipientPageFiltered, GetIssuerPageFiltered
<1>. QED BY <1>5, <1>6, <1>7, <1>8, <1>9

(* The scan of the expiration dimension. *)
LEMMA ScanHolds ==
    ASSUME IndexInv, ReadInv, NEW k \in ExpirationStatus
    PROVE  ScanExact(k, History("expiration", k))
<1>1. "expiration" \in Dims /\ k \in Keys /\ MAX_CHUNK_SIZE \in Nat \ {0} /\ Uses("expiration", MAX_CHUNK_SIZE)
    BY IndexerConstants DEF Dims, Keys, Uses
<1>. DEFINE h == History("expiration", k)
<1>2. Len(h) \in Nat
    BY <1>1, HistoryCounted
<1>. SUFFICES ASSUME NEW cursor \in 0..Len(h), NEW limit \in 0..Len(h), NEW all \in BOOLEAN
              PROVE  LET found == Filtered(SubSeq(h, cursor + 1, Len(h)), all)
                     IN  GetExpirationPageFiltered(k, cursor, limit, all) =
                           SubSeq(found, 1, Upto(limit, Len(found)))
    BY DEF ScanExact
<1>3. limit \in Nat
    BY <1>2
<1>. QED BY <1>1, <1>3, ScanIs DEF GetExpirationPageFiltered

------------------------------------------------------------------------------
(* The newest first.                                                       *)

NoPage == [uids |-> <<>>, next_cursor |-> <<>>]

Pages == [uids : Seq(UIDs), next_cursor : Seq(Nat)]

(* The pages of at most room entries from position i, when f are those     *)
(* from position i - 1.                                                    *)
PagesFrom(k, all, i, f) ==
    [room \in Nat |->
       LET ch == ReadChunk(k, i \div MAX_CHUNK_SIZE)
           offset == i % MAX_CHUNK_SIZE
           u == ch[offset + 1]
           kept == all \/ Active(u)
           older == IF i = 0 THEN NoPage ELSE f[IF kept THEN room - 1 ELSE room]
       IN  IF room = 0 THEN [NoPage EXCEPT !.next_cursor = <<i>>]
           ELSE IF offset >= Len(ch) THEN NoPage
           ELSE [older EXCEPT !.uids = (IF kept THEN <<u>> ELSE <<>>) \o @]]

Backs(g, k, all) == g = [i \in Nat |-> PagesFrom(k, all, i, g[i - 1])]

(* collect_reverse_page is such a walk. *)
LEMMA PageBacks ==
    ASSUME NEW d, NEW k, NEW cursor, NEW limit, NEW all
    PROVE  CollectReversePage(d, k, cursor, limit, all) =
             IF limit = 0 \/ cursor >= IndexTotal(d, k) THEN NoPage
             ELSE (CHOOSE g : Backs(g, k, all))[cursor][limit]
BY DEF CollectReversePage, NoPage, Backs, PagesFrom

(* A page is extended at its front. *)
LEMMA PageExtended ==
    ASSUME NEW r \in Pages, NEW s \in Seq(UIDs)
    PROVE  /\ [r EXCEPT !.uids = s \o @] = [uids |-> s \o r.uids, next_cursor |-> r.next_cursor]
           /\ [r EXCEPT !.uids = s \o @] \in Pages
<1>1. r.uids \in Seq(UIDs) /\ r.next_cursor \in Seq(Nat)
    BY DEF Pages
<1>2. s \o r.uids \in Seq(UIDs)
    BY <1>1, ConcatProperties
<1>3. [r EXCEPT !.uids = s \o @] = [uids |-> s \o r.uids, next_cursor |-> r.next_cursor]
    <2>1. PICK y : y = s \o r.uids
        OBVIOUS
    <2>2. [r EXCEPT !.uids = s \o @] = [r EXCEPT !.uids = y]
        BY <2>1, Zenon
    <2>3. [r EXCEPT !.uids = y] = [uids |-> y, next_cursor |-> r.next_cursor]
        BY DEF Pages
    <2>. QED BY <2>1, <2>2, <2>3, Zenon
<1>. QED BY <1>1, <1>2, <1>3 DEF Pages

(* What the pages from a position are, by the entry there. *)
PagesHere(p, k, all, i, f) ==
    LET ch == ReadChunk(k, i \div MAX_CHUNK_SIZE)
        u == ch[(i % MAX_CHUNK_SIZE) + 1]
        older(room) == IF i = 0 THEN NoPage ELSE f[room]
    IN  /\ p[0] = [uids |-> <<>>, next_cursor |-> <<i>>]
        /\ \A room \in Nat \ {0} :
             /\ i % MAX_CHUNK_SIZE >= Len(ch) => p[room] = NoPage
             /\ ~(i % MAX_CHUNK_SIZE >= Len(ch)) =>
                  /\ all \/ Active(u) =>
                       p[room] = [uids |-> <<u>> \o older(room - 1).uids,
                                  next_cursor |-> older(room - 1).next_cursor]
                  /\ ~(all \/ Active(u)) =>
                       /\ p[room].uids = older(room).uids
                       /\ p[room].next_cursor = older(room).next_cursor

LEMMA PagesAre ==
    ASSUME NEW k \in Keys, chunk[k] \in Vectors, NEW all \in BOOLEAN, NEW i \in Nat,
           NEW f, i = 0 \/ f \in [Nat -> Pages]
    PROVE  /\ PagesFrom(k, all, i, f) \in [Nat -> Pages]
           /\ PagesHere(PagesFrom(k, all, i, f), k, all, i, f)
<1>. DEFINE ch == ReadChunk(k, i \div MAX_CHUNK_SIZE)
            o == i % MAX_CHUNK_SIZE
            u == ch[o + 1]
            kept == all \/ Active(u)
            older(room) == IF i = 0 THEN NoPage ELSE f[room]
            front == IF kept THEN <<u>> ELSE <<>>
            back(room) == older(IF kept THEN room - 1 ELSE room)
            p == PagesFrom(k, all, i, f)
<1>0. MAX_CHUNK_SIZE \in Nat \ {0} /\ o \in Nat
    BY IndexerConstants
<1>1. ch \in Seq(UIDs)
    <2>1. PICK q : q = i \div MAX_CHUNK_SIZE
        OBVIOUS
    <2>2. q \in 0..MaxChunk => chunk[k][q] \in Seq(UIDs)
        BY DEF Vectors
    <2>. QED BY <2>1, <2>2 DEF ReadChunk
<1>2. \A room \in Nat : p[room] =
        IF room = 0 THEN [NoPage EXCEPT !.next_cursor = <<i>>]
        ELSE IF o >= Len(ch) THEN NoPage
        ELSE [back(room) EXCEPT !.uids = front \o @]
    BY DEF PagesFrom
<1>3. p = [room \in Nat |-> p[room]]
    BY DEF PagesFrom
<1>4. NoPage \in Pages /\ \A room \in Nat : older(room) \in Pages
    <2>1. NoPage \in Pages
        BY DEF NoPage, Pages
    <2>. QED BY <2>1
<1>5. [NoPage EXCEPT !.next_cursor = <<i>>] = [uids |-> <<>>, next_cursor |-> <<i>>]
    BY DEF NoPage
<1>6. [uids |-> <<>>, next_cursor |-> <<i>>] \in Pages
    BY DEF Pages
<1>. HIDE DEF ch, o, older, p
<1>7. ASSUME NEW room \in Nat \ {0}, ~(o >= Len(ch))
      PROVE  /\ back(room) \in Pages
             /\ front \in Seq(UIDs)
             /\ p[room] = [uids |-> front \o back(room).uids, next_cursor |-> back(room).next_cursor]
             /\ p[room] \in Pages
    <2>1. o + 1 \in 1..Len(ch) /\ room \in Nat /\ room - 1 \in Nat
        BY <1>0, <1>1, <1>7
    <2>2. u \in UIDs
        BY <1>1, <2>1
    <2>3. front \in Seq(UIDs)
        BY <2>2
    <2>4. back(room) \in Pages
        BY <1>4, <2>1
    <2>5. p[room] = [back(room) EXCEPT !.uids = front \o @]
        BY <1>2, <1>7
    <2>6. /\ [back(room) EXCEPT !.uids = front \o @]
              = [uids |-> front \o back(room).uids, next_cursor |-> back(room).next_cursor]
          /\ [back(room) EXCEPT !.uids = front \o @] \in Pages
        <3>1. PICK r \in Pages, s \in Seq(UIDs) : r = back(room) /\ s = front
            BY <2>3, <2>4
        <3>. HIDE DEF front, back
        <3>2. /\ [r EXCEPT !.uids = s \o @] = [uids |-> s \o r.uids, next_cursor |-> r.next_cursor]
              /\ [r EXCEPT !.uids = s \o @] \in Pages
            BY PageExtended, Zenon
        <3>. QED BY <3>1, <3>2, Zenon
    <2>. HIDE DEF front, back
    <2>. QED BY <2>3, <2>4, <2>5, <2>6, Zenon
<1>8. p \in [Nat -> Pages]
    <2>1. ASSUME NEW room \in Nat PROVE p[room] \in Pages
        <3>1. CASE room = 0
            BY <1>2, <1>5, <1>6, <3>1
        <3>2. CASE room # 0 /\ o >= Len(ch)
            BY <1>2, <1>4, <3>2
        <3>3. CASE room # 0 /\ ~(o >= Len(ch))
            BY <1>7, <3>3
        <3>. QED BY <3>1, <3>2, <3>3
    <2>. QED BY <1>3, <2>1
<1>9. p[0] = [uids |-> <<>>, next_cursor |-> <<i>>]
    BY <1>2, <1>5
<1>10. ASSUME NEW room \in Nat \ {0}
       PROVE  /\ o >= Len(ch) => p[room] = NoPage
              /\ ~(o >= Len(ch)) =>
                   /\ kept => p[room] = [uids |-> <<u>> \o older(room - 1).uids,
                                         next_cursor |-> older(room - 1).next_cursor]
                   /\ ~kept => /\ p[room].uids = older(room).uids
                               /\ p[room].next_cursor = older(room).next_cursor
    <2>1. ASSUME o >= Len(ch) PROVE p[room] = NoPage
        BY <1>2, <2>1
    <2>2. ASSUME ~(o >= Len(ch)), kept
          PROVE  p[room] = [uids |-> <<u>> \o older(room - 1).uids, next_cursor |-> older(room - 1).next_cursor]
        <3>1. front = <<u>> /\ back(room) = older(room - 1)
            BY <2>2
        <3>2. p[room] = [uids |-> front \o back(room).uids, next_cursor |-> back(room).next_cursor]
            BY <1>7, <2>2
        <3>. HIDE DEF front, back
        <3>. QED BY <3>1, <3>2
    <2>3. ASSUME ~(o >= Len(ch)), ~kept
          PROVE  p[room].uids = older(room).uids /\ p[room].next_cursor = older(room).next_cursor
        <3>1. front = <<>> /\ back(room) = older(room)
            BY <2>3
        <3>2. p[room] = [uids |-> front \o back(room).uids, next_cursor |-> back(room).next_cursor] /\ back(room) \in Pages
            BY <1>7, <2>3
        <3>. HIDE DEF front, back
        <3>3. back(room).uids \in Seq(UIDs)
            BY <3>2 DEF Pages
        <3>4. front \o back(room).uids = back(room).uids
            BY <3>1, <3>3, ConcatEmptySeq
        <3>. QED BY <3>1, <3>2, <3>4
    <2>. QED BY <2>1, <2>2, <2>3
<1>11. p = PagesFrom(k, all, i, f) /\ o = i % MAX_CHUNK_SIZE /\ ch = ReadChunk(k, i \div MAX_CHUNK_SIZE)
    BY DEF p, o, ch
<1>12. \A room : older(room) = IF i = 0 THEN NoPage ELSE f[room]
    BY DEF older
<1>. QED BY <1>8, <1>9, <1>10, <1>11, <1>12 DEF p, o, ch, older, PagesHere

(* The walk exists. *)
LEMMA BacksExist ==
    ASSUME NEW k \in Keys, chunk[k] \in Vectors, NEW all \in BOOLEAN
    PROVE  \E g \in [Nat -> [Nat -> Pages]] : Backs(g, k, all)
<1>. DEFINE V == [Nat -> Pages]
            base == PagesFrom(k, all, 0, 0)
            step == [i \in Nat |-> [f \in V |-> PagesFrom(k, all, i + 1, f)]]
<1>1. \A f : PagesFrom(k, all, 0, f) = base /\ base \in V
    <2>1. \A f : PagesFrom(k, all, 0, f) = base
        BY DEF PagesFrom
    <2>2. base \in V
        BY PagesAre
    <2>. QED BY <2>1, <2>2
<1>2. ASSUME NEW i \in Nat, NEW f \in V PROVE PagesFrom(k, all, i + 1, f) \in V
    <2>1. PICK j \in Nat : j = i + 1
        OBVIOUS
    <2>2. PagesFrom(k, all, j, f) \in [Nat -> Pages]
        BY PagesAre, Zenon
    <2>. QED BY <2>1, <2>2
<1>3. step \in [Nat -> [V -> V]]
    <2>. HIDE DEF V
    <2>. QED BY <1>2
<1>4. \A i \in Nat : \A f \in V : step[i][f] = PagesFrom(k, all, i + 1, f)
    <2>. HIDE DEF V
    <2>. QED OBVIOUS
<1>. HIDE DEF V, base, step
<1>5. PICK g \in [Nat -> V] : g[0] = base /\ \A n \in Nat : g[n + 1] = step[n][g[n]]
    <2>1. base \in V
        BY <1>1
    <2>2. \E f : Recursion(f, V, base, step)
        BY <1>3, <2>1, NatRecursion
    <2>. QED BY <2>2 DEF Recursion
<1>6. ASSUME NEW i \in Nat PROVE g[i] = PagesFrom(k, all, i, g[i - 1])
    <2>1. CASE i = 0
        <3>1. PagesFrom(k, all, 0, g[i - 1]) = base
            BY <1>1
        <3>. QED BY <1>5, <2>1, <3>1
    <2>2. CASE i # 0
        <3>1. PICK n \in Nat : n = i - 1 /\ n + 1 = i
            BY <2>2
        <3>2. g[n] \in V
            BY <1>5
        <3>3. g[n + 1] = PagesFrom(k, all, n + 1, g[n])
            BY <1>4, <1>5, <3>2
        <3>. QED BY <3>1, <3>3
    <2>. QED BY <2>1, <2>2
<1>7. g = [i \in Nat |-> g[i]]
    BY <1>5
<1>8. Backs(g, k, all)
    BY <1>6, <1>7 DEF Backs
<1>. QED BY <1>5, <1>8 DEF V


(* The walk is typed. *)
LEMMA BacksTyped ==
    ASSUME NEW k \in Keys, chunk[k] \in Vectors, NEW all \in BOOLEAN, NEW g, Backs(g, k, all)
    PROVE  \A i \in Nat : g[i] \in [Nat -> Pages] /\ g[i] = PagesFrom(k, all, i, g[i - 1])
<1>1. ASSUME NEW i \in Nat PROVE g[i] = PagesFrom(k, all, i, g[i - 1])
    BY DEF Backs
<1>. DEFINE N == {i \in Nat : g[i] \in [Nat -> Pages]}
<1>2. 0 \in N
    <2>1. PICK f : f = g[0 - 1]
        OBVIOUS
    <2>2. PagesFrom(k, all, 0, f) \in [Nat -> Pages]
        BY PagesAre
    <2>3. g[0] = PagesFrom(k, all, 0, f)
        BY <1>1, <2>1
    <2>. QED BY <2>2, <2>3
<1>3. ASSUME NEW i \in N PROVE i + 1 \in N
    <2>1. PICK j \in Nat : j = i + 1 /\ j - 1 = i
        OBVIOUS
    <2>2. PICK f \in [Nat -> Pages] : f = g[i]
        OBVIOUS
    <2>3. PagesFrom(k, all, j, f) \in [Nat -> Pages]
        BY PagesAre, Zenon
    <2>4. g[j] = PagesFrom(k, all, j, f)
        BY <1>1, <2>1, <2>2
    <2>. QED BY <2>1, <2>3, <2>4
<1>4. N = Nat
    <2>. HIDE DEF N
    <2>1. N \in SUBSET Nat
        BY DEF N
    <2>. QED BY <1>2, <1>3, <2>1, NatSetInduction
<1>. QED BY <1>1, <1>4

(* The last entries of w, at most room of them, the last one first. *)
Lately(s, w, room) ==
    /\ s \in Seq(UIDs)
    /\ Len(s) = Upto(room, Len(w))
    /\ \A j \in 1..Len(s) : s[j] = w[Len(w) + 1 - j]

LEMMA LatelyNone ==
    /\ \A w \in Seq(UIDs) : Lately(<<>>, w, 0)
    /\ \A room \in Nat : Lately(<<>>, <<>>, room)
BY DEF Lately, Upto

LEMMA LatelyMore ==
    ASSUME NEW w \in Seq(UIDs), NEW u \in UIDs, NEW room \in Nat \ {0}, NEW s, Lately(s, w, room - 1)
    PROVE  Lately(<<u>> \o s, Append(w, u), room)
<1>1. PICK n \in Nat, m \in Nat : n = Len(w) /\ m = Len(s) /\ m = Upto(room - 1, n)
    BY DEF Lately
<1>2. s \in Seq(UIDs) /\ \A j \in 1..m : s[j] = w[n + 1 - j]
    BY <1>1 DEF Lately
<1>3. PICK x \in Seq(UIDs) : x = Append(w, u) /\ Len(x) = n + 1 /\ x[n + 1] = u /\ \A j \in 1..n : x[j] = w[j]
    <2>1. /\ Append(w, u) \in Seq(UIDs) /\ Len(Append(w, u)) = n + 1
          /\ Append(w, u)[n + 1] = u /\ \A j \in 1..n : Append(w, u)[j] = w[j]
        BY <1>1
    <2>. QED BY <2>1
<1>4. PICK y \in Seq(UIDs) : y = <<u>> \o s /\ Len(y) = m + 1 /\ y[1] = u /\ \A j \in 1..m : y[j + 1] = s[j]
    <2>0. <<u>> \in Seq(UIDs) /\ Len(<<u>>) = 1 /\ <<u>>[1] = u
        OBVIOUS
    <2>1. PICK z \in Seq(UIDs) : z = <<u>> /\ Len(z) = 1 /\ z[1] = u
        BY <2>0
    <2>2. /\ z \o s \in Seq(UIDs) /\ Len(z \o s) = Len(z) + Len(s)
          /\ \A j \in 1..(Len(z) + Len(s)) : (z \o s)[j] = IF j <= Len(z) THEN z[j] ELSE s[j - Len(z)]
        BY <1>2, <2>1, ConcatProperties
    <2>3. PICK y : y = z \o s
        OBVIOUS
    <2>4. \A j \in 1..(m + 1) : y[j] = IF j <= 1 THEN z[j] ELSE s[j - 1]
        BY <1>1, <2>1, <2>2, <2>3
    <2>5. 1 \in 1..(m + 1) /\ \A j \in 1..m : j + 1 \in 1..(m + 1) /\ ~(j + 1 <= 1) /\ (j + 1) - 1 = j
        OBVIOUS
    <2>6. y[1] = u /\ \A j \in 1..m : y[j + 1] = s[j]
        BY <2>1, <2>4, <2>5
    <2>7. y \in Seq(UIDs) /\ Len(y) = m + 1
        BY <1>1, <2>1, <2>2, <2>3
    <2>. QED BY <2>1, <2>3, <2>6, <2>7
<1>5. m + 1 = Upto(room, n + 1) /\ m <= n
    BY <1>1 DEF Upto
<1>6. ASSUME NEW j \in 1..(m + 1) PROVE y[j] = x[n + 2 - j]
    <2>1. CASE j = 1
        BY <1>3, <1>4, <2>1
    <2>2. CASE j # 1
        <3>1. PICK a \in 1..m : a = j - 1 /\ j = a + 1 /\ n + 2 - j = n + 1 - a /\ n + 1 - a \in 1..n
            BY <1>5, <2>2
        <3>2. y[a + 1] = s[a] /\ s[a] = w[n + 1 - a] /\ x[n + 1 - a] = w[n + 1 - a]
            BY <1>2, <1>3, <1>4, <3>1
        <3>. QED BY <3>1, <3>2
    <2>. QED BY <2>1, <2>2
<1>7. \A j \in 1..(m + 1) : y[j] = x[(n + 1) + 1 - j]
    BY <1>6
<1>. QED BY <1>3, <1>4, <1>5, <1>7 DEF Lately

(* What the filter leaves of the first i entries. *)
Seen(h, all, i) == Kept(h, {j \in 1..i : all \/ Active(h[j])})

LEMMA SeenMore ==
    ASSUME NEW h \in Seq(UIDs), NEW all \in BOOLEAN
    PROVE  /\ \A i \in 0..Len(h) : Seen(h, all, i) \in Seq(UIDs)
           /\ Seen(h, all, 0) = <<>>
           /\ Seen(h, all, Len(h)) = Filtered(h, all)
           /\ \A i \in 0..(Len(h) - 1) :
                Seen(h, all, i + 1) =
                  IF all \/ Active(h[i + 1]) THEN Append(Seen(h, all, i), h[i + 1]) ELSE Seen(h, all, i)
<1>. DEFINE P(i) == {j \in 1..i : all \/ Active(h[j])}
<1>0. Len(h) \in Nat
    OBVIOUS
<1>1. \A i \in 0..Len(h) : P(i) \in SUBSET (1..Len(h))
    BY <1>0
<1>2. ASSUME NEW i \in 0..Len(h) PROVE Kept(h, P(i)) \in Seq(UIDs)
    BY <1>1, KeptLists
<1>3. Kept(h, P(0)) = <<>>
    <2>1. P(0) = {}
        OBVIOUS
    <2>. QED BY <2>1, KeptNone
<1>4. Kept(h, P(Len(h))) = Filtered(h, all)
    <2>1. P(Len(h)) = {j \in DOMAIN h : all \/ Active(h[j])}
        OBVIOUS
    <2>. QED BY <2>1 DEF Filtered
<1>5. ASSUME NEW i \in 0..(Len(h) - 1)
      PROVE  Kept(h, P(i + 1)) = IF all \/ Active(h[i + 1]) THEN Append(Kept(h, P(i)), h[i + 1]) ELSE Kept(h, P(i))
    <2>0. i \in 0..Len(h) /\ i + 1 \in 1..Len(h) /\ \A j \in 1..i : j < i + 1
        BY <1>0
    <2>0a. 1..(i + 1) = (1..i) \cup {i + 1}
        BY <1>0
    <2>1. CASE all \/ Active(h[i + 1])
        <3>1. P(i + 1) = P(i) \cup {i + 1}
            BY <2>0a, <2>1, Zenon
        <3>2. P(i) \in SUBSET (1..Len(h)) /\ \A x \in P(i) : x < i + 1
            BY <1>1, <2>0
        <3>3. Kept(h, P(i) \cup {i + 1}) = Append(Kept(h, P(i)), h[i + 1])
            <4>. HIDE DEF P
            <4>. QED BY <2>0, <3>2, KeptLast
        <3>. HIDE DEF P
        <3>. QED BY <2>1, <3>1, <3>3
    <2>2. CASE ~(all \/ Active(h[i + 1]))
        <3>1. P(i + 1) = P(i)
            BY <2>0a, <2>2, Zenon
        <3>. HIDE DEF P
        <3>. QED BY <2>2, <3>1
    <2>. QED BY <2>1, <2>2
<1>6. \A i : Seen(h, all, i) = Kept(h, P(i))
    BY DEF Seen
<1>. HIDE DEF P
<1>. QED BY <1>2, <1>3, <1>4, <1>5, <1>6


(* One position of a backward walk: it reads the entry there, and the      *)
(* pages from the position before it go on.                                *)
Reads(p, h, all, i, room) ==
    /\ Lately(p.uids, Seen(h, all, i), room)
    /\ all => p.next_cursor = IF room < i THEN <<i - 1 - room>> ELSE <<>>

LEMMA BackStep ==
    ASSUME NEW k \in Keys, chunk[k] \in Vectors, NEW all \in BOOLEAN,
           NEW h \in Seq(UIDs), Len(h) <= MaxChunk, Laid(chunk[k], h, MAX_CHUNK_SIZE),
           NEW i \in 0..(Len(h) - 1), NEW f, i = 0 \/ f \in [Nat -> Pages],
           i # 0 => \A room \in Nat : Reads(f[room], h, all, i, room)
    PROVE  \A room \in Nat : Reads(PagesFrom(k, all, i, f)[room], h, all, i + 1, room)
<1>. DEFINE ch == ReadChunk(k, i \div MAX_CHUNK_SIZE)
            u == ch[(i % MAX_CHUNK_SIZE) + 1]
            older(room) == IF i = 0 THEN NoPage ELSE f[room]
            p == PagesFrom(k, all, i, f)
            w == Seen(h, all, i)
            w1 == Seen(h, all, i + 1)
<1>0. i \in Nat /\ Len(h) \in Nat /\ i \in 0..Len(h) /\ i + 1 \in 0..Len(h) /\ MAX_CHUNK_SIZE \in Nat \ {0}
    BY IndexerConstants
<1>1. ~(i % MAX_CHUNK_SIZE >= Len(ch)) /\ u = h[i + 1] /\ u \in UIDs
    <2>1. /\ ch \in Seq(UIDs) /\ i % MAX_CHUNK_SIZE \in Nat /\ i % MAX_CHUNK_SIZE < Len(ch)
          /\ \A s \in 0..(Len(h) - 1 - i) :
               (i % MAX_CHUNK_SIZE) + s < Len(ch) => ch[(i % MAX_CHUNK_SIZE) + s + 1] = h[i + s + 1]
        BY <1>0, LaidRead
    <2>2. PICK o, c : o = i % MAX_CHUNK_SIZE /\ c = ch
        OBVIOUS
    <2>3. /\ c \in Seq(UIDs) /\ o \in Nat /\ o < Len(c)
          /\ \A s \in 0..(Len(h) - 1 - i) : o + s < Len(c) => c[o + s + 1] = h[i + s + 1]
        BY <2>1, <2>2, Zenon
    <2>4. 0 \in 0..(Len(h) - 1 - i) /\ o + 0 < Len(c) /\ o + 0 + 1 = o + 1 /\ i + 0 + 1 = i + 1 /\ i + 1 \in 1..Len(h)
        BY <1>0, <2>3
    <2>4a. c[o + 0 + 1] = h[i + 0 + 1]
        BY <2>3, <2>4, Zenon
    <2>4b. ~(o >= Len(c)) /\ h[i + 1] \in UIDs
        BY <2>3, <2>4
    <2>5. ~(o >= Len(c)) /\ c[o + 1] = h[i + 1] /\ h[i + 1] \in UIDs
        BY <2>4, <2>4a, <2>4b, Zenon
    <2>. QED BY <2>2, <2>5
<1>2. /\ p[0] = [uids |-> <<>>, next_cursor |-> <<i>>]
      /\ \A room \in Nat \ {0} :
           /\ all \/ Active(u) => p[room] = [uids |-> <<u>> \o older(room - 1).uids,
                                             next_cursor |-> older(room - 1).next_cursor]
           /\ ~(all \/ Active(u)) => /\ p[room].uids = older(room).uids
                                     /\ p[room].next_cursor = older(room).next_cursor
    <2>1. /\ p[0] = [uids |-> <<>>, next_cursor |-> <<i>>]
          /\ \A room \in Nat \ {0} :
               /\ i % MAX_CHUNK_SIZE >= Len(ch) => p[room] = NoPage
               /\ ~(i % MAX_CHUNK_SIZE >= Len(ch)) =>
                    /\ all \/ Active(u) => p[room] = [uids |-> <<u>> \o older(room - 1).uids,
                                                      next_cursor |-> older(room - 1).next_cursor]
                    /\ ~(all \/ Active(u)) => /\ p[room].uids = older(room).uids
                                              /\ p[room].next_cursor = older(room).next_cursor
        <3>1. PagesHere(PagesFrom(k, all, i, f), k, all, i, f)
            BY <1>0, PagesAre, Zenon
        <3>. QED BY <3>1, Zenon DEF PagesHere
    <2>. HIDE DEF ch, u, older, p
    <2>. QED BY <1>1, <2>1, Zenon
<1>3. /\ w \in Seq(UIDs) /\ w1 \in Seq(UIDs)
      /\ w1 = IF all \/ Active(u) THEN Append(w, u) ELSE w
      /\ i = 0 => w = <<>>
    BY <1>0, <1>1, SeenMore
<1>4. ASSUME NEW room \in Nat
      PROVE  /\ Lately(older(room).uids, w, room)
             /\ all => older(room).next_cursor = IF room < i THEN <<i - 1 - room>> ELSE <<>>
    <2>1. CASE i = 0
        <3>1. older(room).uids = <<>> /\ older(room).next_cursor = <<>> /\ ~(room < i)
            BY <2>1 DEF NoPage
        <3>. QED BY <1>3, <2>1, <3>1, LatelyNone
    <2>2. CASE i # 0
        BY <2>2 DEF Reads
    <2>. QED BY <2>1, <2>2
<1>. HIDE DEF ch, u, older, p, w, w1
<1>5. ASSUME NEW room \in Nat
      PROVE  /\ Lately(p[room].uids, w1, room)
             /\ all => p[room].next_cursor = IF room < i + 1 THEN <<(i + 1) - 1 - room>> ELSE <<>>
    <2>1. CASE room = 0
        <3>1. p[room].uids = <<>> /\ p[room].next_cursor = <<i>>
            BY <1>2, <2>1
        <3>2. room < i + 1 /\ (i + 1) - 1 - room = i
            BY <1>0, <2>1
        <3>. QED BY <1>3, <2>1, <3>1, <3>2, LatelyNone
    <2>2. CASE room # 0 /\ (all \/ Active(u))
        <3>1. room - 1 \in Nat /\ room \in Nat \ {0}
            BY <2>2
        <3>2. p[room].uids = <<u>> \o older(room - 1).uids /\ p[room].next_cursor = older(room - 1).next_cursor
            <4>1. PICK a, b : a = <<u>> \o older(room - 1).uids /\ b = older(room - 1).next_cursor
                OBVIOUS
            <4>2. p[room] = [uids |-> a, next_cursor |-> b]
                BY <1>2, <2>2, <3>1, <4>1, Zenon
            <4>3. p[room].uids = a /\ p[room].next_cursor = b
                BY <4>2
            <4>. QED BY <4>1, <4>3, Zenon
        <3>3. Lately(older(room - 1).uids, w, room - 1)
            BY <1>4, <3>1
        <3>4. Lately(<<u>> \o older(room - 1).uids, Append(w, u), room)
            BY <1>1, <1>3, <3>1, <3>3, LatelyMore
        <3>5. all => p[room].next_cursor = IF room - 1 < i THEN <<i - 1 - (room - 1)>> ELSE <<>>
            BY <1>4, <3>1, <3>2
        <3>6. (room - 1 < i <=> room < i + 1) /\ i - 1 - (room - 1) = (i + 1) - 1 - room
            BY <1>0
        <3>. QED BY <1>3, <2>2, <3>2, <3>4, <3>5, <3>6
    <2>3. CASE room # 0 /\ ~(all \/ Active(u))
        <3>1. p[room].uids = older(room).uids
            BY <1>2, <2>3
        <3>. QED BY <1>3, <1>4, <2>3, <3>1
    <2>. QED BY <2>1, <2>2, <2>3
<1>. QED BY <1>5 DEF Reads, p, w1

(* The walk from every position of the history. *)
LEMMA BackReads ==
    ASSUME NEW k \in Keys, chunk[k] \in Vectors, NEW all \in BOOLEAN,
           NEW h \in Seq(UIDs), Len(h) <= MaxChunk, Laid(chunk[k], h, MAX_CHUNK_SIZE),
           NEW g, Backs(g, k, all)
    PROVE  \A i \in 0..(Len(h) - 1) : \A room \in Nat : Reads(g[i][room], h, all, i + 1, room)
<1>. DEFINE N == {i \in Nat : i < Len(h) => \A room \in Nat : Reads(g[i][room], h, all, i + 1, room)}
<1>0. Len(h) \in Nat
    OBVIOUS
<1>1. \A i \in Nat : g[i] \in [Nat -> Pages] /\ g[i] = PagesFrom(k, all, i, g[i - 1])
    BY BacksTyped
<1>2. 0 \in N
    <2>. SUFFICES ASSUME 0 < Len(h) PROVE \A room \in Nat : Reads(g[0][room], h, all, 0 + 1, room)
        OBVIOUS
    <2>1. 0 \in 0..(Len(h) - 1)
        BY <1>0
    <2>2. PICK f : f = g[0 - 1]
        OBVIOUS
    <2>3. \A room \in Nat : Reads(PagesFrom(k, all, 0, f)[room], h, all, 0 + 1, room)
        BY <2>1, BackStep
    <2>4. g[0] = PagesFrom(k, all, 0, f)
        BY <1>1, <2>2
    <2>. QED BY <2>3, <2>4
<1>3. ASSUME NEW i \in N PROVE i + 1 \in N
    <2>. SUFFICES ASSUME i + 1 < Len(h) PROVE \A room \in Nat : Reads(g[i + 1][room], h, all, (i + 1) + 1, room)
        OBVIOUS
    <2>1. PICK j \in 0..(Len(h) - 1) : j = i + 1 /\ j - 1 = i /\ j # 0
        BY <1>0
    <2>2. PICK f \in [Nat -> Pages] : f = g[i]
        BY <1>1
    <2>3. \A room \in Nat : Reads(f[room], h, all, j, room)
        BY <1>0, <2>1, <2>2
    <2>4. \A room \in Nat : Reads(PagesFrom(k, all, j, f)[room], h, all, j + 1, room)
        BY <2>3, BackStep
    <2>5. g[j] = PagesFrom(k, all, j, f)
        BY <1>1, <2>1, <2>2
    <2>. QED BY <2>1, <2>4, <2>5
<1>4. N = Nat
    <2>. HIDE DEF N
    <2>1. N \in SUBSET Nat
        BY DEF N
    <2>. QED BY <1>2, <1>3, <2>1, NatSetInduction
<1>5. \A i \in 0..(Len(h) - 1) : i \in Nat /\ i < Len(h)
    BY <1>0
<1>. QED BY <1>4, <1>5


(* A newest-first page. *)
LEMMA PageReads ==
    ASSUME NEW d, NEW k \in Keys, chunk[k] \in Vectors, NEW all \in BOOLEAN,
           NEW h \in Seq(UIDs), Len(h) <= MaxChunk, Len(h) = IndexTotal(d, k), Laid(chunk[k], h, MAX_CHUNK_SIZE),
           NEW cursor \in 0..(Len(h) - 1), NEW limit \in Nat \ {0}
    PROVE  Reads(CollectReversePage(d, k, cursor, limit, all), h, all, cursor + 1, limit)
<1>1. PICK g : Backs(g, k, all) /\ g = CHOOSE x : Backs(x, k, all)
    BY BacksExist
<1>2. cursor \in Nat /\ ~(cursor >= IndexTotal(d, k)) /\ limit # 0 /\ limit \in Nat
    OBVIOUS
<1>3. CollectReversePage(d, k, cursor, limit, all) = g[cursor][limit]
    BY <1>1, <1>2, PageBacks, Zenon
<1>4. Reads(g[cursor][limit], h, all, cursor + 1, limit)
    BY <1>1, <1>2, BackReads
<1>. QED BY <1>3, <1>4, Zenon

(* A list backwards. *)
LEMMA BackwardsType ==
    ASSUME NEW w \in Seq(UIDs)
    PROVE  /\ Backwards(w) \in Seq(UIDs) /\ Len(Backwards(w)) = Len(w)
           /\ \A j \in 1..Len(w) : Backwards(w)[j] = w[Len(w) + 1 - j]
<1>. DEFINE n == Len(w)
            b == Backwards(w)
<1>1. \A j \in 1..n : n + 1 - j \in 1..n
    OBVIOUS
<1>2. b = [j \in 1..n |-> w[n + 1 - j]] /\ \A j \in 1..n : w[n + 1 - j] \in UIDs
    BY <1>1 DEF Backwards
<1>. HIDE DEF b
<1>3. b \in [1..n -> UIDs] /\ \A j \in 1..n : b[j] = w[n + 1 - j]
    BY <1>2
<1>4. b \in Seq(UIDs) /\ Len(b) = n
    <2>1. n \in Nat
        OBVIOUS
    <2>. HIDE DEF n
    <2>. QED BY <1>3, <2>1, SeqDef, LenProperties
<1>. QED BY <1>3, <1>4 DEF b

(* The last entries are the first ones backwards. *)
LEMMA LatelyIs ==
    ASSUME NEW w \in Seq(UIDs), NEW limit \in Nat, NEW s, Lately(s, w, limit)
    PROVE  s = SubSeq(Backwards(w), 1, Upto(limit, Len(w)))
<1>. DEFINE n == Len(w)
            m == Upto(limit, n)
            b == Backwards(w)
<1>1. n \in Nat /\ m \in 0..n
    BY DEF Upto
<1>2. b \in Seq(UIDs) /\ Len(b) = n /\ \A j \in 1..n : b[j] = w[n + 1 - j]
    BY BackwardsType
<1>3. s \in Seq(UIDs) /\ Len(s) = m /\ \A j \in 1..m : s[j] = w[n + 1 - j]
    BY DEF Lately
<1>. HIDE DEF n, m, b
<1>4. PICK r \in Nat : r = m /\ r <= n
    BY <1>1
<1>5. 0 \in Nat /\ 0 + r <= Len(b) /\ 0 + 1 = 1 /\ 0 + r = r /\ \A j \in 1..r : 0 + j = j /\ j \in 1..n
    BY <1>1, <1>2, <1>4
<1>6. /\ SubSeq(b, 0 + 1, 0 + r) \in Seq(UIDs) /\ Len(SubSeq(b, 0 + 1, 0 + r)) = r
      /\ \A j \in 1..r : SubSeq(b, 0 + 1, 0 + r)[j] = b[0 + j]
    BY <1>2, <1>5, CutOf
<1>7. PICK y : y = SubSeq(b, 1, r)
    OBVIOUS
<1>8. y \in Seq(UIDs) /\ Len(y) = r /\ \A j \in 1..r : y[j] = w[n + 1 - j]
    BY <1>2, <1>5, <1>6, <1>7
<1>9. s = y
    BY <1>3, <1>4, <1>8, SeqEqual
<1>. QED BY <1>4, <1>7, <1>9 DEF n, m, b

(* The recent views. *)
LEMMA NewestIs ==
    ASSUME NEW d, NEW k \in Keys, chunk[k] \in Vectors, NEW all \in BOOLEAN,
           NEW h \in Seq(UIDs), Len(h) <= MaxChunk, Len(h) = IndexTotal(d, k),
           h # <<>> => Laid(chunk[k], h, MAX_CHUNK_SIZE), NEW limit \in Nat \ {0}
    PROVE  LET w == Filtered(h, all)
           IN  Newest(d, k, limit, all) = SubSeq(Backwards(w), 1, Upto(limit, Len(w)))
<1>1. Filtered(h, all) \in Seq(UIDs) /\ limit \in Nat
    BY FilteredType
<1>2. Lately(Newest(d, k, limit, all), Filtered(h, all), limit)
    <2>1. CASE h = <<>>
        <3>1. Filtered(h, all) = <<>>
            BY <2>1, FilteredNone
        <3>2. Newest(d, k, limit, all) = <<>>
            BY <2>1 DEF Newest
        <3>. QED BY <1>1, <3>1, <3>2, LatelyNone
    <2>2. CASE h # <<>>
        <3>1. PICK c \in 0..(Len(h) - 1) : c = Len(h) - 1 /\ c + 1 = Len(h)
            BY <2>2
        <3>2. Len(h) # 0 /\ IndexTotal(d, k) # 0 /\ c = IndexTotal(d, k) - 1
            BY <2>2, <3>1
        <3>3. Reads(CollectReversePage(d, k, c, limit, all), h, all, c + 1, limit)
            BY <2>2, PageReads
        <3>4. Lately(CollectReversePage(d, k, c, limit, all).uids, Seen(h, all, Len(h)), limit)
            BY <3>1, <3>3, Zenon DEF Reads
        <3>5. Seen(h, all, Len(h)) = Filtered(h, all)
            BY SeenMore
        <3>6. Newest(d, k, limit, all) = CollectReversePage(d, k, c, limit, all).uids
            BY <3>2, Zenon DEF Newest
        <3>. QED BY <3>4, <3>5, <3>6, Zenon
    <2>. QED BY <2>1, <2>2
<1>. QED BY <1>1, <1>2, LatelyIs

(* The entries down from position c. *)
Down(h, c) == [j \in 1..(c + 1) |-> h[c + 2 - j]]

LEMMA DownType ==
    ASSUME NEW h \in Seq(UIDs), NEW c \in 0..(Len(h) - 1)
    PROVE  Down(h, c) \in Seq(UIDs) /\ Len(Down(h, c)) = c + 1 /\ \A j \in 1..(c + 1) : Down(h, c)[j] = h[c + 2 - j]
<1>1. PICK m \in Nat : m = c + 1 /\ m <= Len(h)
    OBVIOUS
<1>2. \A j \in 1..m : c + 2 - j \in 1..Len(h)
    BY <1>1
<1>3. PICK z : z = Down(h, c)
    OBVIOUS
<1>4. z = [j \in 1..m |-> h[c + 2 - j]] /\ \A j \in 1..m : h[c + 2 - j] \in UIDs
    BY <1>1, <1>2, <1>3 DEF Down
<1>5. z \in [1..m -> UIDs] /\ \A j \in 1..m : z[j] = h[c + 2 - j]
    BY <1>4
<1>6. z \in Seq(UIDs) /\ Len(z) = m
    BY <1>1, <1>5, SeqDef, LenProperties
<1>. QED BY <1>1, <1>3, <1>5, <1>6

(* A page and the entries below it. *)
LEMMA DownStep ==
    ASSUME NEW h \in Seq(UIDs), NEW c \in 0..(Len(h) - 1), NEW limit \in Nat \ {0},
           NEW p, Reads(p, h, TRUE, c + 1, limit)
    PROVE  /\ limit < c + 1 => /\ p.next_cursor = <<c - limit>>
                               /\ c - limit \in 0..(Len(h) - 1) /\ c - limit < c
                               /\ p.uids \o Down(h, c - limit) = Down(h, c)
           /\ ~(limit < c + 1) => p.next_cursor = <<>> /\ p.uids = Down(h, c) /\ p.uids \in Seq(UIDs)
<1>. DEFINE w == Seen(h, TRUE, c + 1)
<1>0. c \in Nat /\ c + 1 \in 0..Len(h) /\ Len(h) \in Nat /\ limit \in Nat
    OBVIOUS
<1>1. w \in Seq(UIDs) /\ Len(w) = c + 1 /\ \A j \in 1..(c + 1) : w[j] = h[j]
    <2>1. PICK m \in 0..Len(h) : m = c + 1
        BY <1>0
    <2>2. {j \in 1..m : TRUE \/ Active(h[j])} = 1..m
        OBVIOUS
    <2>3. Seen(h, TRUE, m) = Kept(h, 1..m)
        BY <2>2 DEF Seen
    <2>4. Len(Kept(h, 1..m)) = m /\ \A j \in 1..m : Kept(h, 1..m)[j] = h[j]
        BY KeptFirst
    <2>5. Seen(h, TRUE, m) \in Seq(UIDs)
        BY SeenMore
    <2>. QED BY <2>1, <2>3, <2>4, <2>5
<1>2. PICK s, q : s = p.uids /\ q = p.next_cursor
    OBVIOUS
<1>3. Lately(s, w, limit) /\ q = IF limit < c + 1 THEN <<(c + 1) - 1 - limit>> ELSE <<>>
    BY <1>2 DEF Reads
<1>. HIDE DEF w
<1>4. s \in Seq(UIDs) /\ Len(s) = Upto(limit, c + 1) /\ \A j \in 1..Len(s) : s[j] = w[(c + 1) + 1 - j]
    BY <1>1, <1>3 DEF Lately
<1>5. \A j \in 1..Len(s) : s[j] = h[c + 2 - j]
    <2>1. Len(s) \in Nat /\ Len(s) <= c + 1
        BY <1>0, <1>4 DEF Upto
    <2>2. ASSUME NEW j \in 1..Len(s) PROVE (c + 1) + 1 - j \in 1..(c + 1) /\ (c + 1) + 1 - j = c + 2 - j
        BY <1>0, <2>1
    <2>. QED BY <1>1, <1>4, <2>2
<1>6. PICK z \in Seq(UIDs) : z = Down(h, c) /\ Len(z) = c + 1 /\ \A j \in 1..(c + 1) : z[j] = h[c + 2 - j]
    <2>1. Down(h, c) \in Seq(UIDs) /\ Len(Down(h, c)) = c + 1 /\ \A j \in 1..(c + 1) : Down(h, c)[j] = h[c + 2 - j]
        BY DownType
    <2>. QED BY <2>1
<1>7. CASE limit < c + 1
    <2>1. PICK e \in 0..(Len(h) - 1) : e = c - limit /\ e < c /\ e + limit = c /\ (c + 1) - 1 - limit = e
        BY <1>0, <1>7
    <2>2. PICK y \in Seq(UIDs) : y = Down(h, e) /\ Len(y) = e + 1 /\ \A j \in 1..(e + 1) : y[j] = h[e + 2 - j]
        <3>1. Down(h, e) \in Seq(UIDs) /\ Len(Down(h, e)) = e + 1 /\ \A j \in 1..(e + 1) : Down(h, e)[j] = h[e + 2 - j]
            BY DownType
        <3>. QED BY <3>1
    <2>3. Len(s) = limit
        BY <1>4, <1>7 DEF Upto
    <2>4. PICK x : x = s \o y
        OBVIOUS
    <2>5. /\ x \in Seq(UIDs) /\ Len(x) = Len(s) + Len(y)
          /\ \A j \in 1..(Len(s) + Len(y)) : x[j] = IF j <= Len(s) THEN s[j] ELSE y[j - Len(s)]
        BY <1>4, <2>4, ConcatProperties
    <2>6. Len(x) = c + 1 /\ \A j \in 1..(c + 1) : x[j] = IF j <= limit THEN s[j] ELSE y[j - limit]
        BY <1>0, <2>1, <2>2, <2>3, <2>5
    <2>7. ASSUME NEW j \in 1..(c + 1) PROVE x[j] = z[j]
        <3>1. CASE j <= limit
            <4>1. j \in 1..Len(s)
                BY <1>0, <2>3, <3>1
            <4>. QED BY <1>5, <1>6, <2>6, <3>1, <4>1
        <3>2. CASE ~(j <= limit)
            <4>1. PICK a \in 1..(e + 1) : a = j - limit /\ e + 2 - a = c + 2 - j
                BY <1>0, <2>1, <3>2
            <4>2. y[a] = h[e + 2 - a]
                BY <2>2
            <4>. QED BY <1>6, <2>6, <3>2, <4>1, <4>2
        <3>. QED BY <3>1, <3>2
    <2>8. x = z
        BY <1>6, <2>5, <2>6, <2>7, SeqEqual
    <2>9. q = <<e>>
        BY <1>3, <1>7, <2>1
    <2>. QED BY <1>2, <1>6, <1>7, <2>1, <2>2, <2>4, <2>8, <2>9, Zenon
<1>8. CASE ~(limit < c + 1)
    <2>1. Len(s) = c + 1
        BY <1>4, <1>8 DEF Upto
    <2>2. s = z
        BY <1>4, <1>5, <1>6, <2>1, SeqEqual
    <2>. QED BY <1>2, <1>3, <1>4, <1>6, <1>8, <2>2, Zenon
<1>. QED BY <1>7, <1>8


(* Following next_cursor. *)
WalksBack(w, d, k, limit) ==
    w = [c \in Nat |->
          LET p == GetAttsReverse(d, k, c, limit)
          IN  p.uids \o (IF p.next_cursor = <<>> THEN <<>> ELSE w[p.next_cursor[1]])]

LEMMA ReverseWalks ==
    ASSUME NEW d, NEW k, NEW limit
    PROVE  ReverseWalk(d, k, limit) =
             IF IndexTotal(d, k) = 0 THEN <<>>
             ELSE (CHOOSE w : WalksBack(w, d, k, limit))[IndexTotal(d, k) - 1]
BY DEF ReverseWalk, WalksBack

(* The pages, put together, are the history backwards. *)
LEMMA WalkIs ==
    ASSUME NEW d, NEW k \in Keys, chunk[k] \in Vectors,
           NEW h \in Seq(UIDs), Len(h) <= MaxChunk, Len(h) = IndexTotal(d, k),
           h # <<>> => Laid(chunk[k], h, MAX_CHUNK_SIZE), NEW limit \in Nat \ {0}
    PROVE  ReverseWalk(d, k, limit) = Backwards(h)
<1>. DEFINE n == Len(h)
            page(c) == GetAttsReverse(d, k, c, limit)
            next(w, c) == page(c).uids \o (IF page(c).next_cursor = <<>> THEN <<>> ELSE w[page(c).next_cursor[1]])
<1>0. n \in Nat /\ (h = <<>> <=> n = 0)
    OBVIOUS
<1>1. ASSUME NEW c \in 0..(n - 1)
      PROVE  /\ limit < c + 1 => /\ page(c).next_cursor = <<c - limit>>
                                 /\ c - limit \in 0..(n - 1) /\ c - limit < c
                                 /\ page(c).uids \o Down(h, c - limit) = Down(h, c)
             /\ ~(limit < c + 1) => page(c).next_cursor = <<>> /\ page(c).uids = Down(h, c) /\ page(c).uids \in Seq(UIDs)
    <2>1. h # <<>>
        BY <1>0, <1>1
    <2>2. Reads(CollectReversePage(d, k, c, limit, TRUE), h, TRUE, c + 1, limit)
        BY <2>1, PageReads
    <2>3. Reads(page(c), h, TRUE, c + 1, limit)
        BY <2>2 DEF GetAttsReverse
    <2>. HIDE DEF page
    <2>. QED BY <2>3, DownStep
<1>2. ASSUME NEW c \in Nat, c >= n PROVE page(c) = NoPage
    <2>1. CollectReversePage(d, k, c, limit, TRUE) = NoPage
        BY <1>2, PageBacks
    <2>. QED BY <2>1 DEF GetAttsReverse
<1>. HIDE DEF page
<1>3. ASSUME NEW w, NEW c \in 0..(n - 1),
             limit < c + 1 => w[c - limit] = Down(h, c - limit)
      PROVE  next(w, c) = Down(h, c)
    <2>1. CASE limit < c + 1
        <3>1. page(c).next_cursor = <<c - limit>> /\ page(c).uids \o Down(h, c - limit) = Down(h, c)
            BY <1>1, <2>1
        <3>2. PICK e : e = c - limit
            OBVIOUS
        <3>3. page(c).next_cursor # <<>> /\ page(c).next_cursor[1] = e
            BY <3>1, <3>2
        <3>. QED BY <1>3, <2>1, <3>1, <3>2, <3>3, Zenon
    <2>2. CASE ~(limit < c + 1)
        <3>1. page(c).next_cursor = <<>> /\ page(c).uids = Down(h, c) /\ page(c).uids \in Seq(UIDs)
            BY <1>1, <2>2
        <3>2. PICK s \in Seq(UIDs) : s = page(c).uids
            BY <3>1
        <3>3. s \o <<>> = s
            BY ConcatEmptySeq
        <3>. QED BY <3>1, <3>2, <3>3, Zenon
    <2>. QED BY <2>1, <2>2
<1>4. \A w : WalksBack(w, d, k, limit) <=> w = [c \in Nat |-> next(w, c)]
    BY DEF WalksBack, page
<1>5. \E w : WalksBack(w, d, k, limit)
    <2>. DEFINE w == [c \in Nat |-> IF c < n THEN Down(h, c) ELSE <<>>]
    <2>1. ASSUME NEW c \in Nat PROVE w[c] = next(w, c)
        <3>1. CASE c < n
            <4>1. c \in 0..(n - 1) /\ w[c] = Down(h, c)
                BY <1>0, <3>1
            <4>2. limit < c + 1 => w[c - limit] = Down(h, c - limit)
                <5>. SUFFICES ASSUME limit < c + 1 PROVE w[c - limit] = Down(h, c - limit)
                    OBVIOUS
                <5>1. PICK e \in 0..(n - 1) : e = c - limit
                    BY <1>1, <4>1
                <5>2. e \in Nat /\ e < n
                    BY <1>0
                <5>. QED BY <5>1, <5>2
            <4>. HIDE DEF w, next
            <4>. QED BY <1>3, <4>1, <4>2
        <3>2. CASE ~(c < n)
            <4>1. page(c) = NoPage
                BY <1>0, <1>2, <3>2
            <4>2. page(c).uids = <<>> /\ page(c).next_cursor = <<>>
                BY <4>1 DEF NoPage
            <4>3. <<>> \o <<>> = <<>>
                <5>1. <<>> \in Seq(UIDs)
                    OBVIOUS
                <5>. QED BY <5>1, ConcatEmptySeq
            <4>4. next(w, c) = <<>>
                <5>. HIDE DEF w
                <5>. QED BY <4>2, <4>3, Zenon
            <4>. HIDE DEF next
            <4>. QED BY <3>2, <4>4
        <3>. QED BY <3>1, <3>2
    <2>2. w = [c \in Nat |-> w[c]]
        OBVIOUS
    <2>. HIDE DEF w, next
    <2>3. w = [c \in Nat |-> next(w, c)]
        BY <2>1, <2>2
    <2>. QED BY <1>4, <2>3
<1>6. ASSUME NEW w, WalksBack(w, d, k, limit) PROVE \A c \in 0..(n - 1) : w[c] = Down(h, c)
    <2>0. \A c \in Nat : w[c] = next(w, c)
        <3>1. w = [c \in Nat |-> next(w, c)]
            BY <1>4, <1>6
        <3>. HIDE DEF next
        <3>. QED BY <3>1
    <2>. DEFINE N == {m \in Nat : \A c \in 0..(n - 1) : c < m => w[c] = Down(h, c)}
    <2>1. 0 \in N
        BY <1>0
    <2>2. ASSUME NEW m \in N PROVE m + 1 \in N
        <3>. SUFFICES ASSUME NEW c \in 0..(n - 1), c < m + 1 PROVE w[c] = Down(h, c)
            OBVIOUS
        <3>1. c \in Nat /\ m \in Nat
            BY <1>0
        <3>2. limit < c + 1 => w[c - limit] = Down(h, c - limit)
            <4>. SUFFICES ASSUME limit < c + 1 PROVE w[c - limit] = Down(h, c - limit)
                OBVIOUS
            <4>1. PICK e \in 0..(n - 1) : e = c - limit /\ e < c
                BY <1>1
            <4>2. e < m
                BY <1>0, <3>1, <4>1
            <4>. QED BY <4>1, <4>2
        <3>3. next(w, c) = Down(h, c)
            <4>. HIDE DEF next
            <4>. QED BY <1>3, <3>2
        <3>. HIDE DEF next
        <3>. QED BY <2>0, <3>1, <3>3
    <2>3. N = Nat
        <3>. HIDE DEF N
        <3>1. N \in SUBSET Nat
            BY DEF N
        <3>. QED BY <2>1, <2>2, <3>1, NatSetInduction
    <2>4. n \in N /\ \A c \in 0..(n - 1) : c < n
        BY <1>0, <2>3
    <2>. QED BY <2>4
<1>7. CASE n = 0
    <2>1. ReverseWalk(d, k, limit) = <<>>
        BY <1>7, ReverseWalks
    <2>2. Backwards(h) = <<>>
        <3>1. Backwards(h) = [i \in 1..0 |-> h[n + 1 - i]] /\ 1..0 = {}
            BY <1>7 DEF Backwards
        <3>. QED BY <3>1
    <2>. QED BY <2>1, <2>2
<1>8. CASE n # 0
    <2>1. PICK w : WalksBack(w, d, k, limit) /\ w = CHOOSE x : WalksBack(x, d, k, limit)
        BY <1>5
    <2>2. PICK c \in 0..(n - 1) : c = n - 1 /\ c + 1 = n /\ c + 2 = n + 1
        BY <1>0, <1>8
    <2>3. ReverseWalk(d, k, limit) = w[c]
        BY <1>8, <2>1, <2>2, ReverseWalks, Zenon
    <2>4. w[c] = Down(h, c)
        BY <1>6, <2>1
    <2>5. Down(h, c) = Backwards(h)
        <3>1. PICK x, y : x = Down(h, c) /\ y = Backwards(h)
            OBVIOUS
        <3>2. x \in Seq(UIDs) /\ Len(x) = c + 1 /\ \A j \in 1..(c + 1) : x[j] = h[c + 2 - j]
            BY <3>1, DownType
        <3>3. y \in Seq(UIDs) /\ Len(y) = n /\ \A j \in 1..n : y[j] = h[n + 1 - j]
            BY <3>1, BackwardsType
        <3>4. Len(x) = Len(y) /\ \A j \in 1..Len(x) : x[j] = y[j]
            <4>1. Len(x) = n /\ Len(y) = n
                BY <2>2, <3>2, <3>3
            <4>2. ASSUME NEW j \in 1..n PROVE x[j] = y[j]
                <5>1. j \in 1..(c + 1) /\ c + 2 - j = n + 1 - j
                    BY <1>0, <2>2
                <5>2. x[j] = h[c + 2 - j] /\ y[j] = h[n + 1 - j]
                    BY <3>2, <3>3, <5>1
                <5>. QED BY <5>1, <5>2
            <4>. QED BY <4>1, <4>2
        <3>. QED BY <3>1, <3>2, <3>3, <3>4, SeqEqual
    <2>. QED BY <2>3, <2>4, <2>5
<1>. QED BY <1>7, <1>8

(* Newest-first reads over full-size chunks. *)
LEMMA ReverseHolds ==
    ASSUME IndexInv, ReadInv, NEW d \in Dims \ {"expiration"}, NEW k \in Keys
    PROVE  ReverseExact(d, k, History(d, k))
<1>1. PICK h : h = History(d, k)
    OBVIOUS
<1>2. h \in Seq(UIDs) /\ Len(h) = IndexTotal(d, k) /\ Len(h) <= MaxChunk /\ chunk[k] \in Vectors /\ d \in Dims
    BY <1>1, HistoryCounted
<1>3. SUFFICES ASSUME SingleRole(k), Fixed(MAX_CHUNK_SIZE), NEW limit \in 1..(Len(h) + 1)
               PROVE  /\ ReverseWalk(d, k, limit) = Backwards(h)
                      /\ GetAttsRecent(d, k, limit) = SubSeq(Backwards(h), 1, Upto(limit, Len(h)))
                      /\ LET active == Backwards(Filtered(h, FALSE))
                         IN  GetRecentFiltered(d, k, limit, FALSE) = SubSeq(active, 1, Upto(limit, Len(active)))
    BY <1>1 DEF ReverseExact
<1>4. limit \in Nat \ {0}
    BY <1>2
<1>5. h # <<>> => Laid(chunk[k], h, MAX_CHUNK_SIZE)
    <2>. SUFFICES ASSUME h # <<>> PROVE Laid(chunk[k], h, MAX_CHUNK_SIZE)
        OBVIOUS
    <2>1. Alone(d, k) /\ ChunksLaid(d, k)
        BY <1>1, <1>2, <1>3, AloneHere DEF ReadInv
    <2>2. Uses(d, MAX_CHUNK_SIZE) /\ MAX_CHUNK_SIZE \in Nat \ {0}
        BY <1>3, IndexerConstants DEF Uses
    <2>. QED BY <1>1, <2>1, <2>2 DEF ChunksLaid
<1>6. ReverseWalk(d, k, limit) = Backwards(h)
    BY <1>2, <1>4, <1>5, WalkIs
<1>7. ASSUME NEW all \in BOOLEAN, NEW w, w = Filtered(h, all)
      PROVE  Newest(d, k, limit, all) = SubSeq(Backwards(w), 1, Upto(limit, Len(w)))
    BY <1>2, <1>4, <1>5, <1>7, NewestIs
<1>8. GetAttsRecent(d, k, limit) = SubSeq(Backwards(h), 1, Upto(limit, Len(h)))
    <2>1. Filtered(h, TRUE) = h
        BY <1>2, FilteredAll
    <2>. QED BY <1>7, <2>1 DEF GetAttsRecent
<1>9. PICK w \in Seq(UIDs) : w = Filtered(h, FALSE)
    BY <1>2, FilteredType
<1>10. Len(Backwards(w)) = Len(w)
    BY BackwardsType
<1>11. GetRecentFiltered(d, k, limit, FALSE) = SubSeq(Backwards(w), 1, Upto(limit, Len(w)))
    BY <1>7, <1>9 DEF GetRecentFiltered
<1>. QED BY <1>6, <1>8, <1>9, <1>10, <1>11

(* Readers agree with the order of insertion for every number of UIDs and  *)
(* every chunk size: complete reads, pages, scans and newest-first reads   *)
(* return the history of their key, no entry skipped or repeated, as long  *)
(* as the address has one role and the reads use the chunk size that the   *)
(* writes used.                                                            *)
THEOREM ReadersAlwaysExact == Spec => []ReadersExact
<1>1. IndexInv /\ ReadInv => ReadersExact
    BY ForwardHolds, ReverseHolds, ScanHolds DEF ReadersExact, IndexInv
<1>2. Init => IndexInv /\ ReadInv
    BY IndexInitInv, ReadInitInv
<1>3. IndexInv /\ ReadInv /\ [Next]_indexerVars => IndexInv' /\ ReadInv'
    BY IndexNextInv, ReadNextInv
<1>. QED BY <1>1, <1>2, <1>3, PTL DEF Spec
==============================================================================
