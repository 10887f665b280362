------------------------------- MODULE Indexer -------------------------------
(***************************************************************************)
(* The indexer contract (contracts/indexer/src/lib.rs) and the way the SAS *)
(* contract feeds it (contracts/sas/src/lib.rs): SAS pushes an attestation *)
(* when it issues it, tells of revocations and replacements, and replays   *)
(* what the index missed.  Every call into the indexer is a try_invoke     *)
(* that may fail because the indexer is unavailable.                       *)
(*                                                                         *)
(* Which attestations SAS accepts is SASCore's subject; here SAS issues,   *)
(* revokes, renews, replaces and prunes whatever its store allows.         *)
(*                                                                         *)
(* One action is one committed invocation.  bulk_reindex pushes its items  *)
(* one after the other; an item that fails changes nothing and does not    *)
(* stop the others, so a call is a run of ReindexAttestation steps.        *)
(***************************************************************************)
EXTENDS Naturals, Sequences, FiniteSets, Ordered

CONSTANTS
    Addrs,           \* recipients and attesters
    Schemas,         \* schemas
    UIDs,            \* claims [recipient, schema, attester, data]
    NoRec,           \* no INDEXED record
    Expirations,     \* expiration_time values (0: perpetual)
    Requests,        \* attestations SAS is asked to issue
    Irrevocable,     \* UIDs issued with revocable = FALSE
    PublicMarks,     \* UIDs whose status is also set by direct calls
    MIN_CHUNK_SIZE,  \* capacities of tier 0, tier 1 and the tiers above
    MID_CHUNK_SIZE,
    MAX_CHUNK_SIZE,
    MaxChunk,        \* bound: highest chunk number
    MaxTime          \* bound: last ledger

ExpirationStatus == {"Perpetual", "Expiring"}

ASSUME IndexerAssumption ==
    /\ Addrs \cap Schemas = {} /\ (Addrs \cup Schemas) \cap ExpirationStatus = {}
    /\ IsFiniteSet(UIDs)
    /\ \A u \in UIDs : u.recipient \in Addrs /\ u.attester \in Addrs /\ u.schema \in Schemas
    /\ Expirations \subseteq Nat /\ NoRec \notin Expirations
    /\ Requests \subseteq [uid : UIDs, expiration_time : Expirations, valid_from : Nat]
    /\ PublicMarks \subseteq UIDs
    /\ Irrevocable \subseteq UIDs
    /\ MIN_CHUNK_SIZE \in Nat \ {0}
    /\ MID_CHUNK_SIZE \in MIN_CHUNK_SIZE..MAX_CHUNK_SIZE
    /\ MAX_CHUNK_SIZE \in Nat
    /\ MaxChunk \in Nat /\ MaxChunk > Cardinality(UIDs)
    /\ MaxTime \in Nat \ {0}

Dims == {"recipient", "schema", "attester", "expiration"}
Keys == Addrs \cup Schemas \cup ExpirationStatus

(* The four lookup keys of a UID indexed with expiration e. *)
KeyOf(d, u, e) ==
    CASE d = "recipient" -> u.recipient
      [] d = "schema" -> u.schema
      [] d = "attester" -> u.attester
      [] d = "expiration" -> IF e = 0 THEN "Perpetual" ELSE "Expiring"

VARIABLES
    now,        \* ledger sequence
    stored,     \* SAS: the stored attestations
    strict,     \* SAS: INDEXER_STRICT
    failed,     \* the UIDs named by an IndexFailed event
    rec,        \* (INDEXED_KEY, uid): the expiration a UID was indexed with
    total,      \* RCOUNT, SCOUNT, ACOUNT, ECOUNT, per dimension and key
    chunk,      \* the chunk vectors; an empty one is a missing entry
    direct,     \* RATT and SATT: direct mappings
    mapped,     \* RATTC and SATTC: their number, per recipient and schema
    status,     \* (STATUS_KEY, uid); Active stands for no entry
    vfrom,      \* (VALID_FROM_KEY, uid)
    capacity,   \* CHUNK_CAPACITY
    order,      \* history variable: the UIDs in the order they were indexed
    capacities  \* history variable: capacities used by writes so far

sasVars == <<stored, strict, failed>>
indexVars == <<rec, total, chunk, direct, mapped, status, vfrom, capacity,
               order, capacities>>
indexerVars == <<now, sasVars, indexVars>>

Unstored == [expiration_time |-> 0, revoked |-> FALSE, valid_from |-> 0, live |-> FALSE]

------------------------------------------------------------------------------
(* Chunks.                                                                 *)

AdaptiveCapacityForTier(t) ==
    CASE t = 0 -> MIN_CHUNK_SIZE
      [] t = 1 -> MID_CHUNK_SIZE
      [] OTHER -> MAX_CHUNK_SIZE

(* index_address_uid, index_uid_uid, index_expiration_status: the chunk a  *)
(* push goes to.  Recipients and attesters share chunks: the storage key   *)
(* is the address and the chunk number.                                    *)
(* Mutant: a chunk counts as full one entry too early. *)
TargetChunk_Early(ch, n, c) ==
    LET i == n \div c IN IF Len(ch[i]) >= c - 1 THEN i + 1 ELSE i

TargetChunk(ch, n, c) ==
    LET i == n \div c IN IF Len(ch[i]) >= c THEN i + 1 ELSE i

Pushed(ch, n, c, u) ==
    LET i == TargetChunk(ch, n, c) IN [ch EXCEPT ![i] = Append(@, u)]

(* The chunks of key k after u was pushed in the order of the code:        *)
(* recipient, schema, attester, expiration status.                         *)
ChunksWith(k, u, e) ==
    LET asRecipient == IF k = u.recipient
                         THEN Pushed(chunk[k], total[<<"recipient", k>>], capacity, u)
                         ELSE chunk[k]
    IN  CASE k = u.attester -> Pushed(asRecipient, total[<<"attester", k>>], capacity, u)
          [] k = u.schema -> Pushed(chunk[k], total[<<"schema", k>>], capacity, u)
          [] k = KeyOf("expiration", u, e) ->
                Pushed(chunk[k], total[<<"expiration", k>>], MAX_CHUNK_SIZE, u)
          [] OTHER -> asRecipient

Accepts(u, e) == rec[u] \in {NoRec, e}

(* The writes of index_attestation. *)
IndexWrites(u, e) ==
    /\ rec' = [rec EXCEPT ![u] = e]
    /\ total' = [p \in Dims \X Keys |->
                   IF p[2] = KeyOf(p[1], u, e) THEN total[p] + 1 ELSE total[p]]
    /\ chunk' = [k \in Keys |-> ChunksWith(k, u, e)]
    /\ direct' = direct \cup {<<u.recipient, u>>, <<u.schema, u>>}
    /\ mapped' = [k \in Addrs \cup Schemas |->
                    IF k \in {u.recipient, u.schema} /\ <<k, u>> \notin direct
                      THEN mapped[k] + 1 ELSE mapped[k]]
    /\ order' = Append(order, u)
    /\ capacities' = capacities \cup {capacity}

SetValidFrom(u, vf) == vfrom' = [vfrom EXCEPT ![u] = vf]

NotPushed == UNCHANGED <<rec, total, chunk, direct, mapped, order, capacities>>

(* index_attestation: an identical retry changes nothing. *)
IndexAttestation(u, e) ==
    IF rec[u] = NoRec THEN IndexWrites(u, e) ELSE NotPushed

(* Mutant: a failed push is not announced. *)
NotifyIndexerOfIssuance_Silent(u, e, vf) ==
    /\ IF Accepts(u, e) THEN IndexAttestation(u, e) \/ NotPushed ELSE NotPushed
    /\ UNCHANGED <<failed, vfrom>>

(* notify_indexer_of_issuance: when the push fails, issuance goes on and   *)
(* IndexFailed is published, unless the binding is strict.                 *)
NotifyIndexerOfIssuance(u, e, vf) ==
    \/ /\ Accepts(u, e)
       /\ IndexAttestation(u, e)
       /\ IF vf > 0 THEN SetValidFrom(u, vf) ELSE UNCHANGED vfrom
       /\ UNCHANGED failed
    \/ /\ ~strict
       /\ failed' = failed \cup {u}
       /\ NotPushed
       /\ UNCHANGED vfrom

(* handle_revoke, and after it handle_replace, called best effort. *)
Marks(u, marks) == status' \in {status} \cup {[status EXCEPT ![u] = s] : s \in marks}

------------------------------------------------------------------------------
(* SAS.                                                                    *)

NotExpired(e) == e = 0 \/ e > now

Attest(u, e, vf) ==
    /\ ~stored[u].live
    /\ NotExpired(e)
    /\ stored' = [stored EXCEPT ![u] = [expiration_time |-> e, revoked |-> FALSE,
                                        valid_from |-> vf, live |-> TRUE]]
    /\ NotifyIndexerOfIssuance(u, e, vf)
    /\ UNCHANGED <<now, strict, status, capacity>>

Revoke(u) ==
    /\ u \notin Irrevocable
    /\ stored[u].live /\ ~stored[u].revoked
    /\ stored' = [stored EXCEPT ![u].revoked = TRUE]
    /\ Marks(u, {"Revoked"})
    /\ NotPushed
    /\ UNCHANGED <<now, strict, failed, vfrom, capacity>>

(* replace_internal: revokes the old attestation, issues the new one and   *)
(* links them.                                                             *)
Replace(old, new, e, vf) ==
    /\ old \notin Irrevocable
    /\ stored[old].live /\ ~stored[old].revoked
    /\ ~stored[new].live
    /\ NotExpired(stored[old].expiration_time) /\ NotExpired(e)
    /\ new.recipient = old.recipient /\ new.attester = old.attester
    /\ stored' = [stored EXCEPT ![old].revoked = TRUE,
                                ![new] = [expiration_time |-> e, revoked |-> FALSE,
                                          valid_from |-> vf, live |-> TRUE]]
    /\ NotifyIndexerOfIssuance(new, e, vf)
    /\ Marks(old, {"Revoked", "Replaced"})
    /\ UNCHANGED <<now, strict, capacity>>

(* The indexer has no handle_renew: the best-effort call of                *)
(* renew_attestation fails and is ignored.                                 *)
Renew(u, e) ==
    /\ u \notin Irrevocable
    /\ stored[u].live /\ ~stored[u].revoked
    /\ NotExpired(stored[u].expiration_time) /\ NotExpired(e)
    /\ stored[u].expiration_time # 0
    /\ e = 0 \/ e >= stored[u].expiration_time
    /\ stored' = [stored EXCEPT ![u].expiration_time = e]
    /\ UNCHANGED <<now, strict, failed, indexVars>>

(* prune_expired does not tell the indexer. *)
Prune(u) ==
    /\ stored[u].live
    /\ ~NotExpired(stored[u].expiration_time)
    /\ stored' = [stored EXCEPT ![u] = Unstored]
    /\ UNCHANGED <<now, strict, failed, indexVars>>

(* Mutants: revoked attestations are not repaired; a repair resets the status. *)
ReindexAttestation_Active(u) ==
    /\ stored[u].live /\ ~stored[u].revoked
    /\ Accepts(u, stored[u].expiration_time)
    /\ IndexAttestation(u, stored[u].expiration_time)
    /\ UNCHANGED <<now, sasVars, status, vfrom, capacity>>

ReindexAttestation_Reset(u) ==
    /\ stored[u].live
    /\ Accepts(u, stored[u].expiration_time)
    /\ IndexAttestation(u, stored[u].expiration_time)
    /\ status' = [status EXCEPT ![u] = "Active"]
    /\ UNCHANGED <<now, sasVars, vfrom, capacity>>

ReindexAttestation(u) ==
    /\ stored[u].live
    /\ Accepts(u, stored[u].expiration_time)
    /\ IndexAttestation(u, stored[u].expiration_time)
    /\ UNCHANGED <<now, sasVars, status, vfrom, capacity>>

SetIndexerStrict(b) ==
    /\ strict' = b
    /\ UNCHANGED <<now, stored, failed, indexVars>>

------------------------------------------------------------------------------
(* The indexer's own entry points.                                         *)

SetChunkTier(t) ==
    /\ capacity' = AdaptiveCapacityForTier(t)
    /\ UNCHANGED <<now, sasVars, rec, total, chunk, direct, mapped, status, vfrom,
                   order, capacities>>

(* handle_revoke and handle_replace ask for no authorization. *)
SetIndexStatus(u, s) ==
    /\ status' = [status EXCEPT ![u] = s]
    /\ NotPushed
    /\ UNCHANGED <<now, sasVars, vfrom, capacity>>

------------------------------------------------------------------------------
(* Environment.                                                            *)

CloseLedger ==
    /\ now < MaxTime
    /\ now' = now + 1
    /\ UNCHANGED <<sasVars, indexVars>>

Init ==
    /\ now = 1
    /\ stored = [u \in UIDs |-> Unstored]
    /\ strict = FALSE
    /\ failed = {}
    /\ rec = [u \in UIDs |-> NoRec]
    /\ total = [p \in Dims \X Keys |-> 0]
    /\ chunk = [k \in Keys |-> [i \in 0..MaxChunk |-> <<>>]]
    /\ direct = {}
    /\ mapped = [k \in Addrs \cup Schemas |-> 0]
    /\ status = [u \in UIDs |-> "Active"]
    /\ vfrom = [u \in UIDs |-> 0]
    /\ capacity = MAX_CHUNK_SIZE
    /\ order = <<>>
    /\ capacities = {}

SasStep ==
    \/ \E r \in Requests : Attest(r.uid, r.expiration_time, r.valid_from)
    \/ \E u \in UIDs : Revoke(u)
    \/ \E old \in UIDs, r \in Requests :
          Replace(old, r.uid, r.expiration_time, r.valid_from)
    \/ \E u \in UIDs, e \in Expirations : Renew(u, e)
    \/ \E u \in UIDs : Prune(u)
    \/ SetIndexerStrict(~strict)

RepairStep == \E u \in UIDs : ReindexAttestation(u)

IndexerStep ==
    \/ \E t \in 0..2 : SetChunkTier(t)
    \/ \E u \in PublicMarks, s \in {"Revoked", "Replaced"} : SetIndexStatus(u, s)

Next == SasStep \/ RepairStep \/ IndexerStep \/ CloseLedger

Spec == Init /\ [][Next]_indexerVars

(* Operators resubmit reindex_attestation for what the index misses, as    *)
(* docs/reconciliation.md asks them to, and the indexer is not unavailable *)
(* for ever.                                                               *)
FairSpec == Spec /\ \A u \in UIDs : WF_indexerVars(ReindexAttestation(u))

------------------------------------------------------------------------------
(* Reads.                                                                  *)

Upto(n, m) == IF n < m THEN n ELSE m

Active(u) == status[u] = "Active"

IndexTotal(d, k) == total[<<d, k>>]

(* read_chunk: an entry that is missing reads as an empty chunk. *)
ReadChunk(k, i) == IF i \in 0..MaxChunk THEN chunk[k][i] ELSE <<>>

Filtered(s, include_revoked) == Kept(s, {i \in DOMAIN s : include_revoked \/ Active(s[i])})

(* collect_filtered and collect_page: the positions from..(end - 1) of the *)
(* history under k, walked chunk by chunk with capacity c.                 *)
CollectWindow(k, c, from, end) ==
    LET Walk[i \in Nat] ==
          LET ch == ReadChunk(k, i \div c)
              offset == i % c
              left == Len(ch) - offset
              take == Upto(left, end - i)
          IN  IF i >= end \/ ch = <<>> THEN <<>>
              ELSE IF offset >= Len(ch) THEN Walk[((i \div c) + 1) * c]
              ELSE SubSeq(ch, offset + 1, offset + take) \o Walk[i + take]
    IN  Walk[from]

CollectPage(d, k, cursor, limit) ==
    LET n == IndexTotal(d, k)
        end == Upto(cursor + limit, n)
    IN  IF limit = 0 \/ cursor >= n THEN <<>>
        ELSE CollectWindow(k, capacity, cursor, end)

CollectFiltered(d, k, include_revoked) ==
    Filtered(CollectWindow(k, capacity, 0, IndexTotal(d, k)), include_revoked)

(* collect_reverse_page: newest first from a position, in chunks of        *)
(* MAX_CHUNK_SIZE; next_cursor is <<i>> when the page is full and more may *)
(* follow, <<>> at the end.                                                *)
CollectReversePage(d, k, cursor, limit, include_revoked) ==
    LET n == IndexTotal(d, k)
        Nil == [uids |-> <<>>, next_cursor |-> <<>>]
        Back[i \in Nat] == [room \in Nat |->
          LET ch == ReadChunk(k, i \div MAX_CHUNK_SIZE)
              offset == i % MAX_CHUNK_SIZE
              u == ch[offset + 1]
              kept == include_revoked \/ Active(u)
              older == IF i = 0 THEN Nil ELSE Back[i - 1][IF kept THEN room - 1 ELSE room]
          IN  IF room = 0 THEN [Nil EXCEPT !.next_cursor = <<i>>]
              ELSE IF offset >= Len(ch) THEN Nil
              ELSE [older EXCEPT !.uids = (IF kept THEN <<u>> ELSE <<>>) \o @]]
    IN  IF limit = 0 \/ cursor >= n THEN Nil ELSE Back[cursor][limit]

(* From a raw position in chunks of capacity c, up to limit entries. *)
ScanPage(d, k, c, cursor, limit, include_revoked) ==
    LET n == IndexTotal(d, k)
        found == Filtered(CollectWindow(k, c, cursor, n), include_revoked)
    IN  IF limit = 0 \/ cursor >= n THEN <<>>
        ELSE SubSeq(found, 1, Upto(limit, Len(found)))

(* is_attestation_indexed; the counters; the direct mappings. *)
Indexed == {u \in UIDs : rec[u] # NoRec}

GetCountBy(d, k) == IndexTotal(d, k)

HasMapping(k, u) == <<k, u>> \in direct

(* The entry points, one per kind of read, for every dimension that has    *)
(* it; an issuer is an attester.  The per-ledger query limit they check    *)
(* first only decides whether a call is answered at all.                   *)
GetAttestationsBy(d, k) == CollectFiltered(d, k, TRUE)

GetFiltered(d, k, include_revoked) == CollectFiltered(d, k, include_revoked)

GetAttsPaginated(d, k, cursor, limit) == CollectPage(d, k, cursor, limit)

GetAttsReverse(d, k, cursor, limit) == CollectReversePage(d, k, cursor, limit, TRUE)

Newest(d, k, limit, include_revoked) ==
    IF IndexTotal(d, k) = 0 THEN <<>>
    ELSE CollectReversePage(d, k, IndexTotal(d, k) - 1, limit, include_revoked).uids

GetAttsRecent(d, k, limit) == Newest(d, k, limit, TRUE)

GetRecentFiltered(d, k, limit, include_revoked) == Newest(d, k, limit, include_revoked)

GetByIssuer(k) == GetAttestationsBy("attester", k)

GetIssuerPageFiltered(k, cursor, limit, include_revoked) ==
    ScanPage("attester", k, capacity, cursor, limit, include_revoked)

GetRecipientPageFiltered(k, cursor, limit, include_revoked) ==
    ScanPage("recipient", k, capacity, cursor, limit, include_revoked)

GetExpirationPageFiltered(k, cursor, limit, include_revoked) ==
    ScanPage("expiration", k, MAX_CHUNK_SIZE, cursor, limit, include_revoked)

------------------------------------------------------------------------------
(* Properties.                                                             *)

(* The UIDs indexed under a key of a dimension, by their records. *)
Under(d, k) == {u \in Indexed : KeyOf(d, u, rec[u]) = k}

(* The counters the paginated readers rely on count exactly the indexed    *)
(* UIDs of their key, through failed pushes, retries, conflicting replays, *)
(* bulk repairs and changes of the chunk size; and so do the direct        *)
(* mappings.                                                               *)
CountsExact ==
    /\ \A d \in Dims, k \in Keys : GetCountBy(d, k) = Cardinality(Under(d, k))
    /\ \A k \in Addrs \cup Schemas :
          /\ mapped[k] = Cardinality({u \in UIDs : HasMapping(k, u)})
          /\ \A u \in UIDs : HasMapping(k, u) <=> u \in Indexed /\ k \in {u.recipient, u.schema}

(* What was inserted under a key, in the order of insertion. *)
History(d, k) == Kept(order, {i \in DOMAIN order : KeyOf(d, order[i], rec[order[i]]) = k})

(* The address is a recipient or an attester in the index, not both. *)
SingleRole(k) == Under("recipient", k) = {} \/ Under("attester", k) = {}

Fixed(c) == capacities \subseteq {c}

(* The complete read and the pages of recipients, schemas and attesters    *)
(* are windows of the insertion order, as long as the chunk size has not   *)
(* changed since the first write and the address has one role.             *)
ForwardExact(d, k, h) ==
    SingleRole(k) /\ Fixed(capacity) =>
      /\ GetAttestationsBy(d, k) = h
      /\ d = "attester" => GetByIssuer(k) = h
      /\ GetFiltered(d, k, FALSE) = Filtered(h, FALSE)
      /\ \A cursor \in 0..Len(h), limit \in 0..Len(h) :
           LET page == SubSeq(h, cursor + 1, Upto(cursor + limit, Len(h)))
           IN  /\ GetAttsPaginated(d, k, cursor, limit) = page
               /\ d = "recipient" => GetRecipientPageFiltered(k, cursor, limit, TRUE) = page
               /\ d = "attester" => GetIssuerPageFiltered(k, cursor, limit, TRUE) = page

(* The pages a reader gets by following next_cursor from the newest entry. *)
ReverseWalk(d, k, limit) ==
    LET Walk[c \in Nat] ==
          LET p == GetAttsReverse(d, k, c, limit)
          IN  p.uids \o (IF p.next_cursor = <<>> THEN <<>> ELSE Walk[p.next_cursor[1]])
    IN  IF IndexTotal(d, k) = 0 THEN <<>> ELSE Walk[IndexTotal(d, k) - 1]

Backwards(h) == [i \in 1..Len(h) |-> h[Len(h) + 1 - i]]

(* Over full-size chunks the newest-first pages, put together, are the     *)
(* history backwards, and the recent views are its beginning.              *)
ReverseExact(d, k, h) ==
    SingleRole(k) /\ Fixed(MAX_CHUNK_SIZE) =>
      \A limit \in 1..(Len(h) + 1) :
        /\ ReverseWalk(d, k, limit) = Backwards(h)
        /\ GetAttsRecent(d, k, limit) = SubSeq(Backwards(h), 1, Upto(limit, Len(h)))
        /\ LET active == Backwards(Filtered(h, FALSE))
           IN  GetRecentFiltered(d, k, limit, FALSE) = SubSeq(active, 1, Upto(limit, Len(active)))

(* The expiration dimension is written and scanned in chunks of one size,  *)
(* so its scan is exact whatever the tier, filtered or not.                *)
ScanExact(k, h) ==
    \A cursor \in 0..Len(h), limit \in 0..Len(h), all \in BOOLEAN :
      LET found == Filtered(SubSeq(h, cursor + 1, Len(h)), all)
      IN  GetExpirationPageFiltered(k, cursor, limit, all) =
            SubSeq(found, 1, Upto(limit, Len(found)))

(* Readers agree with the order of insertion: no page skips or repeats an  *)
(* entry (collect_filtered, collect_page, collect_reverse_page and the     *)
(* *_page_filtered scans), under the conditions named above, and the       *)
(* counters they rely on are exact.                                        *)
ReadersExact ==
    /\ CountsExact
    /\ \A d \in Dims \ {"expiration"}, k \in Keys :
         ForwardExact(d, k, History(d, k)) /\ ReverseExact(d, k, History(d, k))
    /\ \A k \in ExpirationStatus : ScanExact(k, History("expiration", k))

(* No attestation is missing from the index without an IndexFailed event   *)
(* that tells operators to replay it; none is missed while the binding is  *)
(* strict.                                                                 *)
GapsAnnounced == \A u \in UIDs : stored[u].live /\ rec[u] = NoRec => u \in failed

(* What the index missed is repaired: an attestation that stays stored is  *)
(* indexed in the end, as notify_indexer_of_issuance and                   *)
(* reindex_attestation intend.                                             *)
GapsRepaired ==
    \A u \in UIDs : stored[u].live ~> (rec[u] # NoRec \/ ~stored[u].live)

(* The members of a lookup key are the indexed UIDs its chunks list. *)
InChunks(k, u) ==
    \E i \in 0..MaxChunk : \E j \in DOMAIN chunk[k][i] : chunk[k][i][j] = u

Found ==
    {<<<<x[1], KeyOf(x[1], x[2], rec[x[2]])>>, x[2]>> :
        x \in {y \in Dims \X Indexed : InChunks(KeyOf(y[1], y[2], rec[y[2]]), y[2])}}

L == INSTANCE IndexLedger
     WITH Items <- UIDs, LookupKeys <- Dims \X Keys, Entries <- Expirations,
          NoEntry <- NoRec,
          KeysOf <- [p \in UIDs \X Expirations |-> {<<d, KeyOf(d, p[1], p[2])>> : d \in Dims}],
          entry <- rec,
          members <- Found,
          count <- total,
          hidden <- {u \in UIDs : ~Active(u)}

(* The contract implements an index that writes an entry once: whatever    *)
(* pushes are lost, retried or replayed with other data, an entry keeps    *)
(* its metadata, every member of a key is found in the key's chunks once   *)
(* it is indexed and for ever, and a hidden UID stays hidden.              *)
ImplementsLedger == L!LedgerSpec
==============================================================================
