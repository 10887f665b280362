----------------------------- MODULE MCContracts -----------------------------
(***************************************************************************)
(* Small instances for TLC of the fees and the storage of SAS, of the      *)
(* contracts around SAS - the schema registry, the resolvers, the          *)
(* cross-chain verifier and the ZK verifier - and of the script that       *)
(* deploys them.  They share no state, so a behaviour exercises one of     *)
(* them.                                                                   *)
(***************************************************************************)
EXTENDS SASTreasury, SchemaRegistry, Resolvers, CrossChainVerifier, ZkVerifier,
        SASStorage, Deployment

CONSTANTS adm, cre, att, xlm, alice, bob, carol, s1, s2, s3, kyc, v1, k1, k2, usd, r1, sA, sB, pf,
          n1, n2, c1, t1, u1, la, lb, lc

VARIABLE part
partVars == <<part, treasuryVars, schemaRegistryVars, resolverVars, remoteVars, zkAllVars,
             storageVars, deploymentVars>>

------------------------------------------------------------------------------
(* The treasury: two attestations of one payer, of one and two bytes.      *)
Claim(n) == [schema |-> s1, attester |-> att, size |-> n]
TwoClaims == {Claim(1), Claim(2)}

(* The registry: the texts of s2 and s3 append fields to those of s1 and   *)
(* s2.                                                                     *)
Appends == {<<s2, s1>>, <<s3, s2>>}

(* Operation groups that read each other's state are used together, with   *)
(* as many schemas as their operations relate.                             *)
Group(ops, schemas) == [ops |-> ops \cup {"base"}, schemas |-> schemas]

SomeGroups ==
    {Group({"owners", "deprecate"}, {s1}), Group({"roles"}, {s1}),
     Group({"lineage", "deprecate"}, {s1, s2, s3}),
     Group({"catalog", "deprecate"}, {s1, s2, s3}),
     Group({"variants", "registry"}, {s1, s2}), Group({"status", "deprecate"}, {s1})}

(* The multisig resolver: policies, one with a duplicate key, and          *)
(* endorsements, some of them bad or repeated.                             *)
Lists == {<<k1>>, <<k1, k2>>, <<k1, k1>>}
Endorse(k, g) == [signer |-> k, good |-> g]
SomePayloads ==
    {<<>>, <<Endorse(k1, TRUE)>>, <<Endorse(k1, TRUE), Endorse(k2, TRUE)>>,
     <<Endorse(k1, TRUE), Endorse(k1, FALSE)>>, <<Endorse(k1, FALSE), Endorse(k2, TRUE)>>}

(* The storage: attestations that commit to one part or to three. *)
SomeBundles == {<<la>>, <<la, lb, lc>>}

------------------------------------------------------------------------------
PartsInit ==
    /\ part \in {"treasury", "registry", "resolvers", "remote", "zk", "storage", "deployment"}
    /\ TreasuryInit /\ Init /\ ResolverInit /\ RemoteInit /\ ZkInit /\ StorageInit
    /\ DeploymentInit
    /\ part # "treasury" => creator = [s \in PaidSchemas |-> cre]
    /\ part # "registry" => groups = CHOOSE g \in Groups : TRUE
    /\ part # "resolvers" => kind = "permissive"
    /\ part # "storage" => plain = [u \in StoredUids |-> Nothing]

PartsNext ==
    \/ /\ part = "treasury" /\ TreasuryNext
       /\ UNCHANGED <<part, schemaRegistryVars, resolverVars, remoteVars, zkAllVars, storageVars,
                      deploymentVars>>
    \/ /\ part = "registry" /\ Next
       /\ UNCHANGED <<part, treasuryVars, resolverVars, remoteVars, zkAllVars, storageVars,
                      deploymentVars>>
    \/ /\ part = "resolvers" /\ ResolverNext
       /\ UNCHANGED <<part, treasuryVars, schemaRegistryVars, remoteVars, zkAllVars, storageVars,
                      deploymentVars>>
    \/ /\ part = "remote" /\ RemoteNext
       /\ UNCHANGED <<part, treasuryVars, schemaRegistryVars, resolverVars, zkAllVars, storageVars,
                      deploymentVars>>
    \/ /\ part = "zk" /\ ZkNext
       /\ UNCHANGED <<part, treasuryVars, schemaRegistryVars, resolverVars, remoteVars, storageVars,
                      deploymentVars>>
    \/ /\ part = "storage" /\ StorageNext
       /\ UNCHANGED <<part, treasuryVars, schemaRegistryVars, resolverVars, remoteVars, zkAllVars,
                      deploymentVars>>
    \/ /\ part = "deployment" /\ DeploymentNext
       /\ UNCHANGED <<part, treasuryVars, schemaRegistryVars, resolverVars, remoteVars, zkAllVars,
                      storageVars>>

PartsSpec == PartsInit /\ [][PartsNext]_partVars
==============================================================================
