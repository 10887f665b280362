----------------------------- MODULE Deployment -----------------------------
(***************************************************************************)
(* scripts/deploy.sh, which `sas deploy-all` also runs: schema registry,   *)
(* SAS and indexer are deployed and initialised one after the other, SAS   *)
(* and indexer are bound to each other, and the IDs are written to .env.   *)
(* A manifest records the stages that are done, so that --resume can go on *)
(* after a failure.                                                        *)
(*                                                                         *)
(* The script can be killed between any two commands; a transaction can    *)
(* fail, or land while the command line tool reports an error; and anybody *)
(* can initialise a contract that is deployed and not yet initialised.     *)
(* The contracts are external here: only init's AlreadyInitialized, their  *)
(* bindings and their admins are used.                                     *)
(***************************************************************************)
EXTENDS Naturals, Sequences

CONSTANTS
    Targets,        \* networks, "mainnet" among them or not
    Admins,         \* accounts that run the script
    Stranger,       \* somebody else
    Blank,          \* no file, no entry, no contract
    MaxContracts,   \* bound: contracts deployed
    MaxDeployments  \* bound: runs of the script

ASSUME DeploymentAssumption ==
    /\ Stranger \notin Admins
    /\ Blank \notin Targets \cup Admins \cup {Stranger} \cup Nat \cup BOOLEAN
    /\ MaxContracts \in Nat /\ MaxDeployments \in Nat

VARIABLES
    contracts,    \* deployed: kind, target, admin, and what each was bound to
    manifest,     \* .deploy-manifest.env
    envFile,      \* the managed keys of .env; history: admin
    script,       \* the running script
    deployments   \* history: runs begun

deploymentVars == <<contracts, manifest, envFile, script, deployments>>

(* The stages in their order, named by the manifest key they are saved     *)
(* under.                                                                  *)
Stages ==
    <<"REGISTRY_ID", "REGISTRY_INIT", "SAS_ID", "SAS_INIT", "INDEXER_ID", "INDEXER_INIT", "SAS_BOUND">>

Keys == {Stages[i] : i \in 1..Len(Stages)}
DeployKeys == {"REGISTRY_ID", "SAS_ID", "INDEXER_ID"}
InitKeys == {"REGISTRY_INIT", "SAS_INIT", "INDEXER_INIT"}

NoManifest == [k \in Keys \cup {"NETWORK", "ADMIN"} |-> Blank]

ASSUME ManifestAssumption ==
    Blank \notin [DOMAIN NoManifest -> Targets \cup Admins \cup Nat \cup BOOLEAN \cup {Blank}]

NoIds == [k \in DeployKeys |-> Blank]

NotDeploying ==
    [at |-> "idle", stage |-> 1, resume |-> FALSE, target |-> Blank, admin |-> Blank,
     ids |-> NoIds]

Stage == Stages[script.stage]
ScriptAt(where) == script.at = where
GoesTo(where) == script' = [script EXCEPT !.at = where]

(* die, or the process is killed: the files stay as they are. *)
Stops == script' = NotDeploying

------------------------------------------------------------------------------
(* The arguments, the key and the tools are fine, or the script dies       *)
(* before anything happens.  --resume needs the manifest of the same       *)
(* network and admin; otherwise a manifest is begun anew.                  *)

(* Mutant: the manifest's network and admin are not compared. *)
Resumable_Any(target, admin) == manifest # Blank

Resumable(target, admin) ==
    /\ manifest # Blank
    /\ manifest.NETWORK = target
    /\ manifest.ADMIN = admin

StartScript(target, admin, resume) ==
    /\ script = NotDeploying /\ deployments < MaxDeployments
    /\ resume => Resumable(target, admin)
    /\ deployments' = deployments + 1
    /\ manifest' = IF resume THEN manifest ELSE Blank
    /\ script' = [NotDeploying EXCEPT !.at = IF resume THEN "stage" ELSE "saveNetwork",
                                      !.resume = resume, !.target = target, !.admin = admin]
    /\ UNCHANGED <<contracts, envFile>>

(* sas deploy-all runs the script from the start; mainnet only when        *)
(* confirmed.                                                              *)
DeployAll(target, admin, confirmed) ==
    /\ target = "mainnet" => confirmed
    /\ StartScript(target, admin, FALSE)

(* save_manifest of the two facts a resumed run is held to. *)
Entries == IF manifest = Blank THEN NoManifest ELSE manifest

SaveNetwork ==
    /\ ScriptAt("saveNetwork")
    /\ manifest' = [Entries EXCEPT !.NETWORK = script.target]
    /\ GoesTo("saveAdmin")
    /\ UNCHANGED <<contracts, envFile, deployments>>

SaveAdmin ==
    /\ ScriptAt("saveAdmin")
    /\ manifest' = [Entries EXCEPT !.ADMIN = script.admin]
    /\ GoesTo("stage")
    /\ UNCHANGED <<contracts, envFile, deployments>>

------------------------------------------------------------------------------
(* The stages.                                                             *)

After(where, ids) ==
    script' = [script EXCEPT !.ids = ids,
                 !.at = IF script.stage = Len(Stages) THEN where ELSE "stage",
                 !.stage = IF script.stage = Len(Stages) THEN @ ELSE @ + 1]

(* A resumed run passes over what the manifest has, the verification of    *)
(* the binding too.                                                        *)
SkipStage ==
    /\ ScriptAt("stage") /\ script.resume /\ manifest[Stage] # Blank
    /\ After("rmManifest",
             IF Stage \in DeployKeys THEN [script.ids EXCEPT ![Stage] = manifest[Stage]]
                                     ELSE script.ids)
    /\ UNCHANGED <<contracts, manifest, envFile, deployments>>

Pending(keys) ==
    /\ ScriptAt("stage") /\ Stage \in keys
    /\ script.resume => manifest[Stage] = Blank

(* deploy_contract; lost: the tool does not tell the ID. *)
DeployContract(lost) ==
    /\ Pending(DeployKeys) /\ Len(contracts) < MaxContracts
    /\ contracts' = Append(contracts,
         [kind |-> Stage, target |-> script.target, admin |-> Blank, peer |-> Blank, indexer |-> Blank])
    /\ script' = IF lost THEN NotDeploying
                 ELSE [script EXCEPT !.at = "save", !.ids[Stage] = Len(contracts) + 1]
    /\ UNCHANGED <<manifest, envFile, deployments>>

(* init of the contract of this stage, with the admin and the contract it  *)
(* depends on.                                                             *)
IdOf(stage) ==
    CASE stage = "REGISTRY_INIT" -> script.ids["REGISTRY_ID"]
      [] stage = "SAS_INIT"      -> script.ids["SAS_ID"]
      [] stage = "INDEXER_INIT"  -> script.ids["INDEXER_ID"]

PeerOf(stage) ==
    CASE stage = "REGISTRY_INIT" -> Blank
      [] stage = "SAS_INIT"      -> script.ids["REGISTRY_ID"]
      [] stage = "INDEXER_INIT"  -> script.ids["SAS_ID"]

InitialiseContract(lost) ==
    /\ Pending(InitKeys) /\ contracts[IdOf(Stage)].admin = Blank
    /\ contracts' = [contracts EXCEPT ![IdOf(Stage)].admin = script.admin,
                                      ![IdOf(Stage)].peer = PeerOf(Stage)]
    /\ IF lost THEN Stops ELSE GoesTo("save")
    /\ UNCHANGED <<manifest, envFile, deployments>>

(* set_indexer, which only the admin of the SAS contract may call; the     *)
(* stage is saved, and then the binding is read back.                      *)
BindIndexer(lost) ==
    /\ Pending({"SAS_BOUND"}) /\ contracts[script.ids["SAS_ID"]].admin = script.admin
    /\ contracts' = [contracts EXCEPT ![script.ids["SAS_ID"]].indexer = script.ids["INDEXER_ID"]]
    /\ IF lost THEN Stops ELSE GoesTo("save")
    /\ UNCHANGED <<manifest, envFile, deployments>>

SaveStage ==
    /\ ScriptAt("save")
    /\ manifest' = [Entries EXCEPT ![Stage] =
                      IF Stage \in DeployKeys THEN script.ids[Stage] ELSE TRUE]
    /\ After("verify", script.ids)
    /\ UNCHANGED <<contracts, envFile, deployments>>

VerifyBinding ==
    /\ ScriptAt("verify")
    /\ IF /\ contracts[script.ids["SAS_ID"]].indexer = script.ids["INDEXER_ID"]
          /\ contracts[script.ids["INDEXER_ID"]].peer = script.ids["SAS_ID"]
         THEN GoesTo("rmManifest") ELSE Stops
    /\ UNCHANGED <<contracts, manifest, envFile, deployments>>

------------------------------------------------------------------------------
(* The results: the manifest goes first, then .env is replaced in one      *)
(* rename.  The second series of upsert_env works on the scratch copy that *)
(* was just renamed away and changes nothing.                              *)

RemoveManifest ==
    /\ ScriptAt("rmManifest")
    /\ manifest' = Blank
    /\ GoesTo("env")
    /\ UNCHANGED <<contracts, envFile, deployments>>

WriteEnv ==
    /\ ScriptAt("env")
    /\ envFile' = [target |-> script.target, admin |-> script.admin, ids |-> script.ids]
    /\ Stops
    /\ UNCHANGED <<contracts, manifest, deployments>>

(* A command fails without effect, or the script is killed. *)
Dies ==
    /\ script # NotDeploying
    /\ Stops
    /\ UNCHANGED <<contracts, manifest, envFile, deployments>>

StrangerInit(c) ==
    /\ contracts[c].admin = Blank
    /\ contracts' = [contracts EXCEPT ![c].admin = Stranger]
    /\ UNCHANGED <<manifest, envFile, script, deployments>>

DeploymentInit ==
    /\ contracts = <<>> /\ manifest = Blank /\ envFile = Blank
    /\ script = NotDeploying /\ deployments = 0

DeploymentNext ==
    \/ \E t \in Targets, a \in Admins, flag \in BOOLEAN :
         StartScript(t, a, flag) \/ DeployAll(t, a, flag)
    \/ SaveNetwork \/ SaveAdmin \/ SkipStage \/ SaveStage \/ VerifyBinding
    \/ \E lost \in BOOLEAN : DeployContract(lost) \/ InitialiseContract(lost) \/ BindIndexer(lost)
    \/ RemoveManifest \/ WriteEnv \/ Dies
    \/ \E c \in 1..Len(contracts) : StrangerInit(c)

DeploymentSpec == DeploymentInit /\ [][DeploymentNext]_deploymentVars

------------------------------------------------------------------------------
(* Properties.                                                             *)

(* Three contracts of the right kinds on one network, all initialised by   *)
(* the admin, each bound to the others.                                    *)
Complete(ids, target, admin) ==
    LET registry == contracts[ids["REGISTRY_ID"]]
        sas == contracts[ids["SAS_ID"]]
        index == contracts[ids["INDEXER_ID"]]
    IN  /\ \A k \in DeployKeys :
             /\ contracts[ids[k]].kind = k
             /\ contracts[ids[k]].target = target /\ contracts[ids[k]].admin = admin
        /\ sas.peer = ids["REGISTRY_ID"]
        /\ sas.indexer = ids["INDEXER_ID"]
        /\ index.peer = ids["SAS_ID"]

(* However often the script was killed, failed without knowing whether its *)
(* transaction landed, was resumed or begun again, and whoever initialised *)
(* contracts in between: the IDs in .env are those of a complete           *)
(* deployment of the account that ran it, on the network .env names, and   *)
(* so is every stage a manifest of that network and admin records.         *)
DeploymentConsistent ==
    /\ envFile # Blank => Complete(envFile.ids, envFile.target, envFile.admin)
    /\ manifest # Blank /\ manifest["SAS_BOUND"] # Blank =>
         Complete([k \in DeployKeys |-> manifest[k]], manifest.NETWORK, manifest.ADMIN)
==============================================================================
