-------------------------------- MODULE MCSdk --------------------------------
(***************************************************************************)
(* Small instances for TLC of the client side: the SDK's JSON-RPC client,  *)
(* contract client, fee-bump submitter and schema cache; the CLI's         *)
(* commands, bulk issuance and migration from EAS; the JavaScript client's *)
(* failover and the React hooks.  They share no state, so a behaviour      *)
(* exercises one of them.                                                  *)
(***************************************************************************)
EXTENDS SASClient, FeeBumpSubmitter, SchemaCache, BulkIssue, EasMigration, RpcFailover, SASCli,
        RpcClient, ReactHooks

CONSTANTS p1, p2, p3, u1, u2, s1, s2, n1, n2

VARIABLE part

(* A client with a sequence manager that waits, one that does not wait,    *)
(* and one without a manager.                                              *)
SomeClients ==
    {[managed |-> TRUE, mode |-> "Blocking", retry_transport_errors |-> TRUE],
     [managed |-> TRUE, mode |-> "Async", retry_transport_errors |-> FALSE],
     [managed |-> FALSE, mode |-> "Blocking", retry_transport_errors |-> FALSE]}

(* The default. *)
EqualWeights == <<1, 1>>

(* Two complete profiles. *)
TwoProfiles ==
    [one |-> [rpc_url |-> n1, network_passphrase |-> n1],
     two |-> [rpc_url |-> n2, network_passphrase |-> n2]]

NoFlags ==
    [rpc_url |-> Unset, network_passphrase |-> Unset, network |-> Unset, profile |-> Unset,
     key |-> "identity", dry_run |-> FALSE, no_cache |-> FALSE, allow_local_time |-> FALSE,
     file |-> n1]

(* The active profile alone; the shorthand and a Ledger; a profile next to *)
(* an explicit URL, in a dry run past the cache.                           *)
SomeInvocations ==
    {NoFlags,
     [NoFlags EXCEPT !.network = n2, !.key = "ledger"],
     [NoFlags EXCEPT !.profile = "two", !.rpc_url = n1, !.key = "secretAndIdentity",
                     !.dry_run = TRUE, !.no_cache = TRUE]}

(* One shell runs anything, beside one that switches profiles, fills the   *)
(* cache and writes.                                                       *)
TwoMenus ==
    [s \in {s1, s2} |->
       IF s = s1 THEN [steps : {c.steps : c \in Commands}, flags : SomeInvocations]
                 ELSE [steps : Programs({"config use", "sas get", "sas clear"}), flags : {NoFlags}]]

(* Another configuration for the same client, and another client. *)
SomePrefixes == {<<n1, 0>>, <<n2, 0>>, <<n2, 1>>}

(* Two calls, threads, requests or executions are interchangeable. *)
Alike == Permutations({p1, p2})

(* The initial choices of the parts a behaviour leaves alone are fixed. *)
PartsInit ==
    /\ part \in {"client", "bump", "cache", "bulk", "migration", "failover", "cli", "rpc", "hooks"}
    /\ ClientInit
    /\ part # "client" => entry = "live" /\ settings = CHOOSE s \in Clients : TRUE
    /\ BulkInit
    /\ part # "bulk" => rows = <<>> /\ command = "bulk" /\ dry_run /\ ~continue_on_error /\ output = "Json"
    /\ MigrationInit
    /\ part # "migration" => source = 0
    /\ CliInit
    /\ part # "cli" => configFile = Unset
    /\ FailoverInit
    /\ part # "failover" => transport = "failover"
    /\ HooksInit
    /\ part # "hooks" => injected /\ keyPrefix = <<n1, 0>>
    /\ BumpInit /\ CacheInit /\ RpcInit

PartsNext ==
    \/ /\ part = "client" /\ ClientNext
       /\ UNCHANGED <<part, bumpVars, cacheVars, bulkVars, migrationVars, failoverVars, cliVars,
                      rpcVars, hookVars>>
    \/ /\ part = "bump" /\ BumpNext
       /\ UNCHANGED <<part, clientVars, cacheVars, bulkVars, migrationVars, failoverVars, cliVars,
                      rpcVars, hookVars>>
    \/ /\ part = "cache" /\ CacheNext
       /\ UNCHANGED <<part, clientVars, bumpVars, bulkVars, migrationVars, failoverVars, cliVars,
                      rpcVars, hookVars>>
    \/ /\ part = "bulk" /\ BulkNext
       /\ UNCHANGED <<part, clientVars, bumpVars, cacheVars, migrationVars, failoverVars, cliVars,
                      rpcVars, hookVars>>
    \/ /\ part = "migration" /\ MigrationNext
       /\ UNCHANGED <<part, clientVars, bumpVars, cacheVars, bulkVars, failoverVars, cliVars,
                      rpcVars, hookVars>>
    \/ /\ part = "failover" /\ FailoverNext
       /\ UNCHANGED <<part, clientVars, bumpVars, cacheVars, bulkVars, migrationVars, cliVars,
                      rpcVars, hookVars>>
    \/ /\ part = "cli" /\ CliNext
       /\ UNCHANGED <<part, clientVars, bumpVars, cacheVars, bulkVars, migrationVars, failoverVars,
                      rpcVars, hookVars>>
    \/ /\ part = "rpc" /\ RpcNext
       /\ UNCHANGED <<part, clientVars, bumpVars, cacheVars, bulkVars, migrationVars, failoverVars, cliVars,
                      hookVars>>
    \/ /\ part = "hooks" /\ HooksNext
       /\ UNCHANGED <<part, clientVars, bumpVars, cacheVars, bulkVars, migrationVars, failoverVars, cliVars,
                      rpcVars>>

partsVars ==
    <<part, clientVars, bumpVars, cacheVars, bulkVars, migrationVars, failoverVars, cliVars,
      rpcVars, hookVars>>

PartsSpec == PartsInit /\ [][PartsNext]_partsVars
==============================================================================
