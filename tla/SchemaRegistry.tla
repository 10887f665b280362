--------------------------- MODULE SchemaRegistry ---------------------------
(***************************************************************************)
(* The schema registry contract (contracts/schema-registry/src/lib.rs):    *)
(* registration in its variants, lineage and categories, delegates and     *)
(* attester lists, the single-owner, two-step and multi-signature ways of  *)
(* changing a schema's owner, deprecation, quarantine and the settings of  *)
(* a schema.                                                               *)
(*                                                                         *)
(* A schema is identified by its content (text, resolver, revocability),   *)
(* so a member of Schemas stands for the UID too; whether one text appends *)
(* fields to another is given by Extends.  Storage rent is left out.  One  *)
(* action is one committed invocation; `who` is the address that signs it  *)
(* where the code compares it with stored roles.                           *)
(***************************************************************************)
EXTENDS Naturals, Sequences, FiniteSets, Ordered

CONSTANTS
    Addrs,        \* addresses
    Schemas,      \* schema contents
    Revocable,    \* the contents registered with revocable = TRUE
    Extends,      \* pairs <<successor, predecessor>> of append-only texts
    Categories,   \* category names
    Values,       \* contents of the settings (groups, roots, URIs)
    Ttls,         \* max_ttl values (0: none)
    Royalties,    \* royalty values in basis points
    Expiries,     \* expiry timestamps of delegates (0: never)
    Thresholds,   \* thresholds of owner sets
    None,         \* absent
    MAX_OWNER_SET, MAX_SCHEMA_LINEAGE_DEPTH, MAX_SCHEMA_HISTORY_DEPTH,
    MAX_SCAN_BUDGET, MAX_SCHEMA_BATCH_SIZE, MAX_KNOWN_VERSION,
    Groups,       \* bound: operation groups used together, on which schemas
    MaxTime,      \* bound: last ledger timestamp
    MaxSets       \* bound: reconfigurations of an owner set

ASSUME RegistryAssumption ==
    /\ IsFiniteSet(Addrs) /\ IsFiniteSet(Schemas)
    /\ None \notin Addrs /\ None \notin Schemas
    /\ None \notin Categories /\ None \notin Values
    /\ Revocable \subseteq Schemas
    /\ Extends \subseteq Schemas \X Schemas
    /\ \A p \in Extends : <<p[2], p[1]>> \notin Extends
    /\ Ttls \subseteq Nat /\ Expiries \subseteq Nat
    /\ Royalties \subseteq Nat /\ Thresholds \subseteq Nat
    /\ MAX_OWNER_SET \in Nat \ {0} /\ MAX_SCHEMA_BATCH_SIZE \in Nat \ {0}
    /\ MAX_SCHEMA_LINEAGE_DEPTH \in Nat /\ MAX_SCHEMA_HISTORY_DEPTH \in Nat \ {0}
    /\ MAX_SCAN_BUDGET \in Nat \ {0} /\ MAX_KNOWN_VERSION \in Nat \ {0}
    /\ MaxTime \in Nat \ {0} /\ MaxSets \in Nat
    /\ \A g \in Groups : g.schemas \subseteq Schemas

Policies == {"Permissive", "RevocableOnly", "IrrevocableOnly"}
Kinds == {"frost", "merkle", "metadata"}
MAX_CREATOR_ROYALTY_BPS == 5000

(* What the storage holds of a schema, of its owner set and of a transfer  *)
(* under way.                                                              *)
SchemaRecord ==
    [creator : Addrs, max_ttl : Nat, policy : Policies, royalty : Nat,
     parent : Schemas \cup {None}, predecessor : Schemas \cup {None},
     category : Categories \cup {None}, flagged : BOOLEAN,
     settings : [Kinds -> Values \cup {None}]]

OwnerSet == [owners : SUBSET Addrs, threshold : Nat, version : Nat]

PendingOwnershipTransfer == [version : Nat, new_owner : Addrs, approvals : SUBSET Addrs]

ASSUME AbsenceAssumption ==
    None \notin SchemaRecord /\ None \notin OwnerSet /\ None \notin PendingOwnershipTransfer

VARIABLES
    now,          \* ledger timestamp
    registryAdmin,    \* REGISTRY_ADMIN
    registryVersion,  \* REGISTRY_VERSION
    registrationFee,  \* SCHEMA_FEE is set
    registryTreasury, \* TREASURY
    schema,       \* the records with their owners, or None
    order,        \* index -> UID, with SCHEMA_COUNT
    catalog,      \* CATEGORY_INDEX with CATEGORY_COUNT
    deprecated,   \* DEPRECATED
    quarantined,  \* SCHEMA_QUARANTINE
    auth,         \* AUTHORIZED_DELEGATES
    expiry,       \* DELEGATE_EXPIRY
    list,         \* SCHEMA_DELEGATES
    acl,          \* SCHEMA_ACL
    aclCount,     \* SCHEMA_ACL_COUNT
    pendingOwner, \* PENDING_SCHEMA_OWNER
    ownerSet,     \* SCHEMA_OWNERS
    transfer,     \* PENDING_OWNERSHIP
    groups        \* the groups this behaviour uses, and its schemas

registryVars == <<registryAdmin, registryVersion, registrationFee, registryTreasury>>
recordVars == <<schema, order, catalog>>
statusVars == <<deprecated, quarantined>>
roleVars == <<auth, expiry, list, acl, aclCount>>
ownerVars == <<pendingOwner, ownerSet, transfer>>
schemaRegistryVars == <<now, registryVars, recordVars, statusVars, roleVars, ownerVars, groups>>

Uses(g) == g \in groups.ops /\ UNCHANGED groups
Used == groups.schemas

------------------------------------------------------------------------------
(* Who may act.                                                            *)

Registered(s) == schema[s] # None

(* get_schema and require_transferable_schema. *)
Live(s) == Registered(s) /\ s \notin deprecated

Creator(s) == schema[s].creator

IsOwnerAddress(s, who) ==
    \/ ownerSet[s] # None /\ who \in ownerSet[s].owners
    \/ Registered(s) /\ who = Creator(s)
    \/ who = registryAdmin

(* effective_owner_set: the approvals an ownership transfer needs, and the *)
(* version they are collected under.                                        *)
Threshold(s) == IF ownerSet[s] = None THEN 1 ELSE ownerSet[s].threshold
SetVersion(s) == IF ownerSet[s] = None THEN 0 ELSE ownerSet[s].version

(* is_delegate and is_authorized. *)
Expired(e) == e # 0 /\ now >= e

IsDelegate(s, a) ==
    a \in auth[s] /\ (expiry[s][a] # None => ~Expired(expiry[s][a]))

IsAuthorized(s, a) == Live(s) /\ (a = Creator(s) \/ IsDelegate(s, a))

(* is_attester_authorized and is_schema_restricted. *)
IsAttesterAuthorized(s, a) == s \notin deprecated /\ a \in acl[s]
IsSchemaRestricted(s) == aclCount[s] > 0

------------------------------------------------------------------------------
(* Lineage.                                                                *)

(* The first n links from s along a link function (parents, predecessors), *)
(* s included, nearest first.                                              *)
Chain(link, s, n) ==
    LET Walk[i \in 0..n] ==
          IF i = 0 THEN <<s>>
          ELSE LET c == Walk[i - 1]
                   top == link[c[Len(c)]]
               IN  IF Len(c) < i \/ top = None THEN c ELSE Append(c, top)
    IN  Walk[n]

Parents == [s \in Schemas |-> IF Registered(s) THEN schema[s].parent ELSE None]
Predecessors == [s \in Schemas |-> IF Registered(s) THEN schema[s].predecessor ELSE None]

(* lineage_root: the number of parent links above s. *)
LineageDepth(s) == Len(Chain(Parents, s, MAX_SCHEMA_LINEAGE_DEPTH + 1)) - 1

(* validate_parent_schema. *)
ValidParent(owner, p) ==
    p # None =>
      Registered(p) /\ IsOwnerAddress(p, owner) /\ LineageDepth(p) < MAX_SCHEMA_LINEAGE_DEPTH

------------------------------------------------------------------------------
(* Registration.                                                           *)

DefaultPolicy(s) == IF s \in Revocable THEN "Permissive" ELSE "IrrevocableOnly"

NewRecord(owner, s) ==
    [creator |-> owner, max_ttl |-> 0, policy |-> DefaultPolicy(s), royalty |-> 0,
     parent |-> None, predecessor |-> None, category |-> None, flagged |-> FALSE,
     settings |-> [k \in Kinds |-> None]]

(* Mutant: a deprecated schema may be registered again. *)
Registrable_Again(s) == ~Live(s)

(* register_internal refuses a UID it has a record for, deprecated or not. *)
Registrable(s) == ~Registered(s)

(* The writes of register_internal. *)
RegisterInternal(s, r) ==
    /\ Registrable(s)
    /\ schema' = [schema EXCEPT ![s] = r]
    /\ order' = Append(order, s)
    /\ UNCHANGED <<now, registryVars, statusVars, roleVars, ownerVars>>

(* register, register_with_ttl, register_with_max_ttl and                  *)
(* register_with_parent.                                                   *)
Register(owner, s, ttl, parent) ==
    /\ ValidParent(owner, parent)
    /\ RegisterInternal(s, [NewRecord(owner, s) EXCEPT !.max_ttl = ttl, !.parent = parent])
    /\ UNCHANGED catalog

(* register_schema with a metadata URI, and register_with_metadata. *)
RegisterSchema(owner, s, uri) ==
    /\ RegisterInternal(s, [NewRecord(owner, s) EXCEPT !.settings["metadata"] = uri])
    /\ UNCHANGED catalog

RegisterWithMetadata(owner, s, uri) == RegisterSchema(owner, s, uri)

RegisterWithPolicy(owner, s, policy) ==
    /\ (s \in Revocable) = (policy # "IrrevocableOnly")
    /\ RegisterInternal(s, [NewRecord(owner, s) EXCEPT !.policy = policy])
    /\ UNCHANGED catalog

RegisterWithRoyalty(owner, s, bps) ==
    /\ bps <= MAX_CREATOR_ROYALTY_BPS
    /\ RegisterInternal(s, [NewRecord(owner, s) EXCEPT !.royalty = bps])
    /\ UNCHANGED catalog

(* The predecessor's owner signs too. *)
RegisterWithPredecessor(owner, s, p) ==
    /\ Registered(p)
    /\ <<s, p>> \in Extends
    /\ Len(Chain(Predecessors, p, MAX_SCHEMA_HISTORY_DEPTH)) < MAX_SCHEMA_HISTORY_DEPTH
    /\ RegisterInternal(s, [NewRecord(owner, s) EXCEPT !.predecessor = p])
    /\ UNCHANGED catalog

(* index_category: the UID goes at the end of the category's index, and    *)
(* its counter is the index's length.                                      *)
IndexCategory(c, s) == catalog' = [catalog EXCEPT ![c] = Append(@, s)]

RegisterWithCategory(owner, s, c) ==
    /\ RegisterInternal(s, [NewRecord(owner, s) EXCEPT !.category = c])
    /\ IndexCategory(c, s)

(* The payment goes to the treasury. *)
Collectable == registrationFee => registryTreasury # None

(* register_with_value and register_with_value_and_ttl. *)
RegisterWithValue(owner, s, ttl) ==
    /\ Collectable
    /\ Register(owner, s, ttl, None)

RegisterSchemaWithValue(owner, s, uri) ==
    /\ Collectable
    /\ RegisterSchema(owner, s, uri)

RegisterSchemasBatch(owner, q) ==
    /\ Len(q) \in 1..MAX_SCHEMA_BATCH_SIZE
    /\ \A i \in DOMAIN q : Registrable(q[i])
    /\ \A i, j \in DOMAIN q : q[i] = q[j] => i = j
    /\ schema' = [s \in Schemas |->
                    IF \E i \in DOMAIN q : q[i] = s THEN NewRecord(owner, s) ELSE schema[s]]
    /\ order' = order \o q
    /\ UNCHANGED <<now, registryVars, catalog, statusVars, roleVars, ownerVars>>

------------------------------------------------------------------------------
(* Delegates and attester lists.                                           *)

Listed(q, a) == \E i \in DOMAIN q : q[i] = a

AddToDelegateList(q, a) == IF Listed(q, a) THEN q ELSE Append(q, a)

(* The members of a list that are in S, in the list's order: the loops of  *)
(* remove_from_delegate_list and get_delegates.                            *)
KeepIn(q, S) == Kept(q, {i \in 1..Len(q) : q[i] \in S})

RemoveFromDelegateList(q, a) == KeepIn(q, Addrs \ {a})

Delegated(s, a, e) ==
    /\ Registered(s)
    /\ auth' = [auth EXCEPT ![s] = @ \cup {a}]
    /\ expiry' = [expiry EXCEPT ![s][a] = e]
    /\ list' = [list EXCEPT ![s] = AddToDelegateList(@, a)]
    /\ UNCHANGED <<now, registryVars, recordVars, statusVars, acl, aclCount, ownerVars>>

AddDelegate(s, a) == Delegated(s, a, None)

AddDelegateWithExpiry(s, a, e) == Delegated(s, a, e)

(* By the owner. *)
RemoveDelegate(s, a) ==
    /\ Registered(s)
    /\ auth' = [auth EXCEPT ![s] = @ \ {a}]
    /\ expiry' = [expiry EXCEPT ![s][a] = None]
    /\ list' = [list EXCEPT ![s] = RemoveFromDelegateList(@, a)]
    /\ UNCHANGED <<now, registryVars, recordVars, statusVars, acl, aclCount, ownerVars>>

(* By the delegate: also revoke_delegate and self_revoke. *)
SelfRevokeDelegate(s, a) == RemoveDelegate(s, a)

AddAuthorizedAttester(s, a) ==
    /\ Registered(s)
    /\ acl' = [acl EXCEPT ![s] = @ \cup {a}]
    /\ aclCount' = [aclCount EXCEPT ![s] = IF a \in acl[s] THEN @ ELSE @ + 1]
    /\ UNCHANGED <<now, registryVars, recordVars, statusVars, auth, expiry, list, ownerVars>>

RemoveAuthorizedAttester(s, a) ==
    /\ Registered(s)
    /\ acl' = [acl EXCEPT ![s] = @ \ {a}]
    /\ aclCount' = [aclCount EXCEPT ![s] = IF a \in acl[s] THEN @ - 1 ELSE @]
    /\ UNCHANGED <<now, registryVars, recordVars, statusVars, auth, expiry, list, ownerVars>>

------------------------------------------------------------------------------
(* Ownership.                                                              *)

NewOwner(s, a) == schema' = [schema EXCEPT ![s].creator = a]

OwnershipOnly ==
    UNCHANGED <<now, registryVars, order, catalog, statusVars, roleVars>>

(* Direct transfers, by the creator, or by the creator or the admin, are   *)
(* refused when the owner set asks for more than one approval.             *)
Transferred(s, new) ==
    /\ Live(s)
    /\ Threshold(s) <= 1
    /\ NewOwner(s, new)
    /\ OwnershipOnly /\ UNCHANGED ownerVars

TransferSchemaOwnership(s, new) == Transferred(s, new)

TransferOwnership(who, s, new) ==
    /\ Registered(s) /\ who \in {Creator(s), registryAdmin}
    /\ Transferred(s, new)

ProposeSchemaOwner(s, new) ==
    /\ Live(s)
    /\ new # Creator(s)
    /\ pendingOwner' = [pendingOwner EXCEPT ![s] = new]
    /\ OwnershipOnly /\ UNCHANGED <<schema, ownerSet, transfer>>

ClaimSchemaOwnership(s) ==
    /\ Live(s)
    /\ pendingOwner[s] # None
    /\ NewOwner(s, pendingOwner[s])
    /\ pendingOwner' = [pendingOwner EXCEPT ![s] = None]
    /\ OwnershipOnly /\ UNCHANGED <<ownerSet, transfer>>

CancelSchemaOwnershipTransfer(s) ==
    /\ Live(s)
    /\ pendingOwner[s] # None
    /\ pendingOwner' = [pendingOwner EXCEPT ![s] = None]
    /\ OwnershipOnly /\ UNCHANGED <<schema, ownerSet, transfer>>

(* validate_owner_set: a set, so that no member counts twice, and a        *)
(* threshold it can reach.                                                 *)
ValidOwnerSet(owners, n) ==
    Cardinality(owners) \in 1..MAX_OWNER_SET /\ n \in 1..Cardinality(owners)

(* Mutant: a reconfiguration keeps the transfer under way. *)
ConfigureOwnerSet_Keep(who, s, owners, n) ==
    /\ Live(s) /\ IsOwnerAddress(s, who)
    /\ ValidOwnerSet(owners, n)
    /\ ownerSet' = [ownerSet EXCEPT ![s] =
                      [owners |-> owners, threshold |-> n, version |-> SetVersion(s) + 1]]
    /\ OwnershipOnly /\ UNCHANGED <<schema, pendingOwner, transfer>>

ConfigureOwnerSet(who, s, owners, n) ==
    /\ Live(s) /\ IsOwnerAddress(s, who)
    /\ ValidOwnerSet(owners, n)
    /\ ownerSet' = [ownerSet EXCEPT ![s] =
                      [owners |-> owners, threshold |-> n, version |-> SetVersion(s) + 1]]
    /\ transfer' = [transfer EXCEPT ![s] = None]
    /\ OwnershipOnly /\ UNCHANGED <<schema, pendingOwner>>

(* finalize_ownership_transfer. *)
Finalize(s, new) ==
    /\ NewOwner(s, new)
    /\ transfer' = [transfer EXCEPT ![s] = None]
    /\ OwnershipOnly /\ UNCHANGED <<pendingOwner, ownerSet>>

Pend(s, t) ==
    /\ transfer' = [transfer EXCEPT ![s] = t]
    /\ OwnershipOnly /\ UNCHANGED <<schema, pendingOwner, ownerSet>>

ProposeOwnershipTransfer(who, s, new) ==
    /\ Live(s) /\ IsOwnerAddress(s, who)
    /\ new # Creator(s)
    /\ IF Threshold(s) <= 1 THEN Finalize(s, new)
       ELSE Pend(s, [version |-> SetVersion(s), new_owner |-> new, approvals |-> {who}])

(* approve_ownership_transfer, with record_approval. *)
ApproveOwnershipTransfer(who, s) ==
    LET t == transfer[s]
        approved == t.approvals \cup {who}
    IN  /\ Live(s) /\ t # None
        /\ t.version = SetVersion(s)
        /\ IsOwnerAddress(s, who) /\ who \notin t.approvals
        /\ IF Cardinality(approved) < Threshold(s)
             THEN Pend(s, [t EXCEPT !.approvals = approved])
             ELSE Finalize(s, t.new_owner)

CancelOwnershipTransfer(who, s) ==
    /\ Live(s) /\ IsOwnerAddress(s, who)
    /\ transfer[s] # None
    /\ transfer' = [transfer EXCEPT ![s] = None]
    /\ OwnershipOnly /\ UNCHANGED <<schema, pendingOwner, ownerSet>>

------------------------------------------------------------------------------
(* Status and settings.                                                    *)

SettingsOnly == UNCHANGED <<now, order, catalog, roleVars, ownerVars>>

Deprecate(who, s) ==
    /\ registryAdmin # None
    /\ Registered(s) /\ who \in {registryAdmin, Creator(s)}
    /\ deprecated' = deprecated \cup {s}
    /\ SettingsOnly /\ UNCHANGED <<registryVars, schema, quarantined>>

(* deprecate_schema marks the record only. *)
DeprecateSchema(who, s) ==
    /\ Live(s) /\ IsOwnerAddress(s, who)
    /\ schema' = [schema EXCEPT ![s].flagged = TRUE]
    /\ SettingsOnly /\ UNCHANGED <<registryVars, statusVars>>

SetSchemaQuarantine(s, b) ==
    /\ registryAdmin # None
    /\ Registered(s)
    /\ quarantined' = IF b THEN quarantined \cup {s} ELSE quarantined \ {s}
    /\ SettingsOnly /\ UNCHANGED <<registryVars, schema, deprecated>>

SetCreatorRoyalty(who, s, bps) ==
    /\ bps <= MAX_CREATOR_ROYALTY_BPS
    /\ Registered(s) /\ registryAdmin # None /\ who \in {Creator(s), registryAdmin}
    /\ schema' = [schema EXCEPT ![s].royalty = bps]
    /\ SettingsOnly /\ UNCHANGED <<registryVars, statusVars>>

SetSchemaSetting(who, s, kind, v) ==
    /\ Live(s) /\ IsOwnerAddress(s, who)
    /\ schema' = [schema EXCEPT ![s].settings[kind] = v]
    /\ SettingsOnly /\ UNCHANGED <<registryVars, statusVars>>

SetSchemaFrostGroup(who, s, v) == SetSchemaSetting(who, s, "frost", v)

ClearSchemaFrostGroup(who, s) == SetSchemaSetting(who, s, "frost", None)

SetSchemaMerkleRoot(who, s, v) == SetSchemaSetting(who, s, "merkle", v)

ClearSchemaMerkleRoot(who, s) == SetSchemaSetting(who, s, "merkle", None)

UpdateSchemaMetadata(who, s, v) == SetSchemaSetting(who, s, "metadata", v)

------------------------------------------------------------------------------
(* The registry itself.                                                    *)

InitRegistry(a) ==
    /\ registryAdmin = None
    /\ registryAdmin' = a /\ registryVersion' = 1
    /\ SettingsOnly /\ UNCHANGED <<registrationFee, registryTreasury, schema, statusVars>>

UpgradeRegistry ==
    /\ registryAdmin # None
    /\ registryVersion < MAX_KNOWN_VERSION
    /\ registryVersion' = registryVersion + 1
    /\ SettingsOnly /\ UNCHANGED <<registryAdmin, registrationFee, registryTreasury, schema, statusVars>>

(* set_fee and clear_fee. *)
SetRegistrationFee(b) ==
    /\ registryAdmin # None
    /\ registrationFee' = b
    /\ SettingsOnly /\ UNCHANGED <<registryAdmin, registryVersion, registryTreasury, schema, statusVars>>

SetRegistryTreasury(a) ==
    /\ registryAdmin # None
    /\ registryTreasury' = a
    /\ SettingsOnly /\ UNCHANGED <<registryAdmin, registryVersion, registrationFee, schema, statusVars>>

Tick ==
    /\ now < MaxTime
    /\ now' = now + 1
    /\ UNCHANGED <<registryVars, recordVars, statusVars, roleVars, ownerVars>>

------------------------------------------------------------------------------
(* Reads.                                                                  *)

(* get_delegates and its variants: the listed delegates by their state. *)
GetDelegates(s) ==
    LET gone == {a \in Addrs : expiry[s][a] # None /\ Expired(expiry[s][a])}
    IN  [active |-> KeepIn(list[s], auth[s] \ gone),
         expired |-> KeepIn(list[s], auth[s] \cap gone)]

(* The live entries of an index from a cursor up to position end. *)
LiveEntries(index, start, end) == {i \in (start + 1)..end : index[i] \notin deprecated}

(* Mutant: the scan budget counts the returned records only, and the       *)
(* reader is sent on to the end when it is used up.                        *)
ScanFrom_NoBudget(index, start, limit) ==
    LET Found(end) == Cardinality(LiveEntries(index, start, end))
        Stops(end) == end >= Len(index) \/ Found(end) >= limit \/ Found(end) >= MAX_SCAN_BUDGET
        last == CHOOSE end \in start..(start + Len(index)) :
                  Stops(end) /\ \A e \in start..(end - 1) : ~Stops(e)
    IN  <<Kept(index, LiveEntries(index, start, last)), IF Found(last) >= limit THEN last ELSE Len(index)>>

(* The scans of get_schemas, get_schemas_paginated and                     *)
(* get_schemas_by_category: the loop stops at the end of the index, with   *)
(* limit live schemas or after MAX_SCAN_BUDGET entries, whatever is first, *)
(* and returns them with the cursor to go on from.                         *)
ScanFrom(index, start, limit) ==
    LET Stops(end) == \/ end >= Len(index)
                      \/ Cardinality(LiveEntries(index, start, end)) >= limit
                      \/ end - start >= MAX_SCAN_BUDGET
        last == CHOOSE end \in start..(start + MAX_SCAN_BUDGET) :
                  Stops(end) /\ \A e \in start..(end - 1) : ~Stops(e)
    IN  <<Kept(index, LiveEntries(index, start, last)), last>>

GetSchemas(start, limit) == ScanFrom(order, start, limit)[1]

GetSchemasPaginated(start, limit) == ScanFrom(order, start, limit)

GetSchemasByCategory(c, cursor, limit) == ScanFrom(catalog[c], cursor, limit)

(* The ancestors of a schema, and its earlier versions, itself first; both *)
(* reads trap on a chain that is longer than its limit.                    *)
GetSchemaLineage(s) == Chain(Parents, s, MAX_SCHEMA_LINEAGE_DEPTH + 1)

SchemaHistory(s) == Chain(Predecessors, s, MAX_SCHEMA_HISTORY_DEPTH)

------------------------------------------------------------------------------
(* Specification.                                                          *)

Init ==
    /\ now = 1
    /\ registryAdmin = None /\ registryVersion = 1 /\ registrationFee = FALSE /\ registryTreasury = None
    /\ schema = [s \in Schemas |-> None] /\ order = <<>>
    /\ catalog = [c \in Categories |-> <<>>]
    /\ deprecated = {} /\ quarantined = {}
    /\ auth = [s \in Schemas |-> {}]
    /\ expiry = [s \in Schemas |-> [a \in Addrs |-> None]]
    /\ list = [s \in Schemas |-> <<>>]
    /\ acl = [s \in Schemas |-> {}] /\ aclCount = [s \in Schemas |-> 0]
    /\ pendingOwner = [s \in Schemas |-> None]
    /\ ownerSet = [s \in Schemas |-> None]
    /\ transfer = [s \in Schemas |-> None]
    /\ groups \in Groups

RegistryStep ==
    \/ Uses("base") /\ \E a \in Addrs : InitRegistry(a)
    \/ Uses("registry") /\ UpgradeRegistry
    \/ Uses("registry") /\ SetRegistrationFee(~registrationFee)
    \/ Uses("registry") /\ \E a \in Addrs : SetRegistryTreasury(a)

RegisterStep ==
    \/ Uses("base") /\ \E o \in Addrs, s \in Used : Register(o, s, 0, None)
    \/ /\ Uses("variants")
       /\ \E o \in Addrs, s \in Used :
            \/ \E ttl \in Ttls : Register(o, s, ttl, None)
            \/ \E uri \in Values \cup {None} :
                 RegisterSchema(o, s, uri) \/ RegisterSchemaWithValue(o, s, uri)
            \/ \E uri \in Values : RegisterWithMetadata(o, s, uri)
            \/ \E p \in Policies : RegisterWithPolicy(o, s, p)
            \/ \E b \in Royalties : RegisterWithRoyalty(o, s, b)
            \/ \E ttl \in Ttls : RegisterWithValue(o, s, ttl)
    \/ /\ Uses("lineage")
       /\ \E o \in Addrs, s, p \in Used :
            Register(o, s, 0, p) \/ RegisterWithPredecessor(o, s, p)
    \/ /\ Uses("catalog")
       /\ \E o \in Addrs :
            \/ \E s \in Used, c \in Categories : RegisterWithCategory(o, s, c)
            \/ \E s, t \in Used : RegisterSchemasBatch(o, <<s, t>>)

RoleStep ==
    /\ Uses("roles")
    /\ \E s \in Used, a \in Addrs :
         \/ AddDelegate(s, a)
         \/ \E e \in Expiries : AddDelegateWithExpiry(s, a, e)
         \/ RemoveDelegate(s, a) \/ SelfRevokeDelegate(s, a)
         \/ AddAuthorizedAttester(s, a)
         \/ RemoveAuthorizedAttester(s, a)

OwnerStep ==
    /\ Uses("owners")
    /\ \E s \in Used :
         \/ \E who, new \in Addrs :
              TransferOwnership(who, s, new) \/ ProposeOwnershipTransfer(who, s, new)
         \/ \E new \in Addrs : TransferSchemaOwnership(s, new) \/ ProposeSchemaOwner(s, new)
         \/ ClaimSchemaOwnership(s)
         \/ CancelSchemaOwnershipTransfer(s)
         \/ \E who \in Addrs, owners \in (SUBSET Addrs) \ {{}}, n \in Thresholds :
              SetVersion(s) < MaxSets /\ ConfigureOwnerSet(who, s, owners, n)
         \/ \E who \in Addrs : ApproveOwnershipTransfer(who, s)
         \/ \E who \in Addrs : CancelOwnershipTransfer(who, s)

StatusStep ==
    \/ Uses("deprecate") /\ \E who \in Addrs, s \in Used : Deprecate(who, s)
    \/ /\ Uses("status")
       /\ \E s \in Used :
            \/ \E who \in Addrs : DeprecateSchema(who, s)
            \/ \E b \in BOOLEAN : SetSchemaQuarantine(s, b)
            \/ \E who \in Addrs, b \in Royalties : SetCreatorRoyalty(who, s, b)
            \/ \E who \in Addrs, v \in Values :
                 \/ SetSchemaFrostGroup(who, s, v) \/ SetSchemaMerkleRoot(who, s, v)
                 \/ UpdateSchemaMetadata(who, s, v)
            \/ \E who \in Addrs : ClearSchemaFrostGroup(who, s) \/ ClearSchemaMerkleRoot(who, s)

Next ==
    \/ RegistryStep \/ RegisterStep \/ RoleStep \/ OwnerStep \/ StatusStep
    \/ Uses("roles") /\ Tick

Spec == Init /\ [][Next]_schemaRegistryVars

------------------------------------------------------------------------------
(* Properties.                                                             *)

(* A transfer under way was proposed under the present owner set and still *)
(* lacks approvals: a reconfiguration, which may lower the threshold or    *)
(* drop an approver, leaves no half-approved transfer behind that the next *)
(* approval would complete under the old rules.                            *)
TransfersFresh ==
    \A s \in Schemas : transfer[s] # None =>
      /\ transfer[s].version = SetVersion(s)
      /\ Cardinality(transfer[s].approvals) < Threshold(s)

(* What get_delegates lists is what is_delegate grants, each delegate      *)
(* once, expired or not, through repeated additions with and without       *)
(* expiry, removals and self-revocations; and the counter that             *)
(* is_schema_restricted reads is the size of the attester list.  No        *)
(* transfer outlives the owner set it was proposed under.                  *)
RolesAgree ==
    /\ TransfersFresh
    /\ \A s \in Schemas :
         LET g == GetDelegates(s) IN
           /\ {a \in Addrs : IsDelegate(s, a)} = {g.active[i] : i \in DOMAIN g.active}
           /\ Len(g.active) + Len(g.expired) = Cardinality(auth[s])
           /\ Len(list[s]) = Cardinality(auth[s])
           /\ IsSchemaRestricted(s) <=> acl[s] # {}
           /\ aclCount[s] = Cardinality(acl[s])

Position(s) == CHOOSE i \in DOMAIN order : order[i] = s

(* Lineage is a forest: every parent and predecessor was registered before *)
(* its child, and every chain reaches its root within the limits on which  *)
(* get_schema_lineage and get_schema_history trap: what the guards of      *)
(* registration admit, the reads can walk to the end.                      *)
LineageEnds ==
    \A s \in {x \in Schemas : Registered(x)} :
      LET up == GetSchemaLineage(s)
          back == SchemaHistory(s)
      IN  /\ Len(up) <= MAX_SCHEMA_LINEAGE_DEPTH + 1
          /\ Len(back) <= MAX_SCHEMA_HISTORY_DEPTH
          /\ Parents[up[Len(up)]] = None
          /\ Predecessors[back[Len(back)]] = None
          /\ \A c \in {up, back} : \A i \in 1..(Len(c) - 1) :
               Registered(c[i + 1]) /\ Position(c[i + 1]) < Position(c[i])

(* Following the cursor to the end of an index of n entries: what was      *)
(* read, and the last cursor.                                              *)
Pages(Page(_, _), n, limit) ==
    LET Read[k \in 0..n] ==
          IF k = 0 THEN <<<<>>, 0>>
          ELSE LET p == Page(Read[k - 1][2], limit)
               IN  <<Read[k - 1][1] \o p[1], p[2]>>
    IN  Read[n]

Undeprecated(index) == Kept(index, LiveEntries(index, 0, Len(index)))

(* A reader that follows the cursor, whatever its page size and however    *)
(* many deprecated entries exhaust the scan budget, gets every live schema *)
(* once, in the order of registration, and comes to an end.                *)
PagesComplete ==
    \A limit \in 1..(Len(order) + 1) :
      /\ Pages(GetSchemasPaginated, Len(order), limit) = <<Undeprecated(order), Len(order)>>
      /\ \A c \in Categories :
           Pages(LAMBDA k, l : GetSchemasByCategory(c, k, l), Len(catalog[c]), limit) =
             <<Undeprecated(catalog[c]), Len(catalog[c])>>

(* What the registry's readers return is complete: lineages and histories  *)
(* reach their roots, and paged reads every schema that is not deprecated. *)
RegistryReadsComplete == LineageEnds /\ PagesComplete

(* What SAS relies on about a schema it has seen (RegistryChange in        *)
(* SASCore): its policy and maximum TTL never change, a deprecated schema  *)
(* never comes back, and its creator is always known.                      *)
ViewsKeepFaith ==
    [][\A s \in Schemas : Registered(s) =>
         /\ schema'[s] # None
         /\ schema'[s].policy = schema[s].policy
         /\ schema'[s].max_ttl = schema[s].max_ttl
         /\ schema'[s].parent = schema[s].parent
         /\ s \in deprecated => s \in deprecated' /\ schema'[s].creator = schema[s].creator]_schemaRegistryVars
==============================================================================
