------------------------------ MODULE CliProofs ------------------------------
(***************************************************************************)
(* Safety of the tools for any number of shells, runs, rows and batches:     *)
(* the deployment script, the command line, bulk issuance from a file and    *)
(* the migration from EAS.  They share no state, so each part has its own    *)
(* inductive invariant.                                                      *)
(***************************************************************************)
EXTENDS Deployment, SASCli, BulkIssue, EasMigration, CollectionTheorems

------------------------------------------------------------------------------
(* Deployment.                                                             *)

Contract ==
    [kind : DeployKeys, target : Targets, admin : Admins \cup {Stranger, Blank},
     peer : Nat \cup {Blank}, indexer : Nat \cup {Blank}]

DeployTypeOK ==
    /\ contracts \in Seq(Contract)
    /\ manifest # Blank =>
         manifest \in [DOMAIN NoManifest -> Targets \cup Admins \cup Nat \cup BOOLEAN \cup {Blank}]
    /\ script \in [at : {"idle", "saveNetwork", "saveAdmin", "stage", "save", "verify",
                         "rmManifest", "env"},
                   stage : 1..7, resume : BOOLEAN, target : Targets \cup {Blank},
                   admin : Admins \cup {Blank}, ids : [DeployKeys -> Nat \cup {Blank}]]

(* Contract c is of this kind, on this network. *)
Right(C, c, key, target) == c \in 1..Len(C) /\ C[c].kind = key /\ C[c].target = target

(* The first n stages are done with these contracts. *)
Reached(C, ids, target, admin, n) ==
    /\ n >= 1 => Right(C, ids["REGISTRY_ID"], "REGISTRY_ID", target)
    /\ n >= 2 => C[ids["REGISTRY_ID"]].admin = admin
    /\ n >= 3 => Right(C, ids["SAS_ID"], "SAS_ID", target)
    /\ n >= 4 => C[ids["SAS_ID"]].admin = admin /\ C[ids["SAS_ID"]].peer = ids["REGISTRY_ID"]
    /\ n >= 5 => Right(C, ids["INDEXER_ID"], "INDEXER_ID", target)
    /\ n >= 6 => C[ids["INDEXER_ID"]].admin = admin /\ C[ids["INDEXER_ID"]].peer = ids["SAS_ID"]
    /\ n >= 7 => C[ids["SAS_ID"]].indexer = ids["INDEXER_ID"]

(* A manifest names a prefix of the stages, and what it names is done. *)
ManifestTrue(C, m) ==
    m # Blank =>
      \A i \in 1..7 : m[Stages[i]] # Blank =>
        /\ \A j \in 1..i : m[Stages[j]] # Blank
        /\ m["NETWORK"] \in Targets /\ m["ADMIN"] \in Admins
        /\ Reached(C, m, m["NETWORK"], m["ADMIN"], i)

(* The script and the manifest agree about the stages before the n-th. *)
InStep(m, s, n) ==
    /\ m # Blank /\ m["NETWORK"] = s.target /\ m["ADMIN"] = s.admin
    /\ \A j \in 1..7 : j < n => m[Stages[j]] # Blank
    /\ n > 1 => s.ids["REGISTRY_ID"] = m["REGISTRY_ID"]
    /\ n > 3 => s.ids["SAS_ID"] = m["SAS_ID"]
    /\ n > 5 => s.ids["INDEXER_ID"] = m["INDEXER_ID"]

ScriptTrue(C, m, s) ==
    /\ s.at # "idle" => s.target \in Targets /\ s.admin \in Admins
    /\ s.at \in {"saveNetwork", "saveAdmin"} => s.stage = 1 /\ ~s.resume
    /\ s.at = "saveNetwork" => m = Blank
    /\ s.at = "saveAdmin" =>
         m # Blank /\ m["NETWORK"] = s.target /\ \A j \in 1..7 : m[Stages[j]] = Blank
    /\ s.at \in {"stage", "save"} => InStep(m, s, s.stage)
    /\ s.at = "stage" /\ ~s.resume => m[Stages[s.stage]] = Blank
    /\ s.at = "save" => m[Stages[s.stage]] = Blank /\ Reached(C, s.ids, s.target, s.admin, s.stage)
    /\ s.at \in {"verify", "rmManifest"} => InStep(m, s, 8)
    /\ s.at = "env" => m = Blank /\ Reached(C, s.ids, s.target, s.admin, 7)

(* The contracts of .env are complete, and nobody works on them any more. *)
EnvTrue(C, m, s, e) ==
    e # Blank =>
      /\ e.admin \in Admins
      /\ Reached(C, e.ids, e.target, e.admin, 7)
      /\ s.ids["SAS_ID"] # e.ids["SAS_ID"]
      /\ m # Blank => m["SAS_ID"] # e.ids["SAS_ID"]

DeployInv ==
    /\ DeployTypeOK
    /\ ManifestTrue(contracts, manifest)
    /\ ScriptTrue(contracts, manifest, script)
    /\ EnvTrue(contracts, manifest, script, envFile)

(* The stages by their numbers. *)
LEMMA StageNames ==
    /\ Len(Stages) = 7
    /\ Stages[1] = "REGISTRY_ID" /\ Stages[2] = "REGISTRY_INIT" /\ Stages[3] = "SAS_ID"
    /\ Stages[4] = "SAS_INIT" /\ Stages[5] = "INDEXER_ID" /\ Stages[6] = "INDEXER_INIT"
    /\ Stages[7] = "SAS_BOUND"
    /\ \A i \in 1..7 : Stages[i] \in DOMAIN NoManifest
    /\ \A i, j \in 1..7 : Stages[i] = Stages[j] => i = j
    /\ \A i \in 1..7 : Stages[i] # "NETWORK" /\ Stages[i] # "ADMIN"
    /\ {"NETWORK", "ADMIN"} \cup DeployKeys \subseteq DOMAIN NoManifest
<1>1. Len(Stages) = 7 /\ Stages[1] = "REGISTRY_ID" /\ Stages[2] = "REGISTRY_INIT" /\ Stages[3] = "SAS_ID"
      /\ Stages[4] = "SAS_INIT" /\ Stages[5] = "INDEXER_ID" /\ Stages[6] = "INDEXER_INIT"
      /\ Stages[7] = "SAS_BOUND"
    BY DEF Stages
<1>2. \A i \in 1..7 : i = 1 \/ i = 2 \/ i = 3 \/ i = 4 \/ i = 5 \/ i = 6 \/ i = 7
    OBVIOUS
<1>3. \A i, j \in 1..7 : Stages[i] = Stages[j] => i = j
    BY <1>1, <1>2
<1>4. \A i \in 1..7 : Stages[i] # "NETWORK" /\ Stages[i] # "ADMIN"
    BY <1>1, <1>2
<1>5. DOMAIN NoManifest = Keys \cup {"NETWORK", "ADMIN"}
    BY DEF NoManifest
<1>6. \A i \in 1..7 : Stages[i] \in Keys
    BY <1>1 DEF Keys
<1>7. DeployKeys \subseteq Keys
    BY <1>1, <1>6 DEF DeployKeys
<1>. QED BY <1>1, <1>3, <1>4, <1>5, <1>6, <1>7

(* What a transaction leaves of a contract that has an admin. *)
Later(C, D) ==
    /\ Len(C) \in Nat /\ Len(D) \in Nat /\ Len(C) <= Len(D)
    /\ \A c \in 1..Len(C) :
         /\ D[c].kind = C[c].kind /\ D[c].target = C[c].target
         /\ C[c].admin # Blank => D[c].admin = C[c].admin /\ D[c].peer = C[c].peer

(* Stages that are done stay done. *)
LEMMA ReachedKept ==
    ASSUME NEW C, NEW D, NEW ids, NEW target, NEW admin \in Admins, NEW n \in 0..7,
           Reached(C, ids, target, admin, n), Later(C, D),
           n = 7 => D[ids["SAS_ID"]].indexer = C[ids["SAS_ID"]].indexer
    PROVE  Reached(D, ids, target, admin, n)
<1>1. admin # Blank
    BY DeploymentAssumption
<1>. QED BY <1>1 DEF Reached, Right, Later

(* Only the contracts of the stages matter. *)
LEMMA SameIds ==
    ASSUME NEW C, NEW ids, NEW jds, NEW target, NEW admin, NEW n \in 0..7,
           Reached(C, ids, target, admin, n),
           n >= 1 => jds["REGISTRY_ID"] = ids["REGISTRY_ID"],
           n >= 3 => jds["SAS_ID"] = ids["SAS_ID"],
           n >= 5 => jds["INDEXER_ID"] = ids["INDEXER_ID"]
    PROVE  Reached(C, jds, target, admin, n)
BY DEF Reached, Right

(* Nothing is deployed at the start. *)
LEMMA DeployInitInv == DeploymentInit => DeployInv
BY DeploymentAssumption
   DEF DeploymentInit, DeployInv, DeployTypeOK, ManifestTrue, ScriptTrue, EnvTrue, NotDeploying, NoIds, DeployKeys

(* The invariant says that every complete deployment is one. *)
LEMMA DeployInvConsistent == DeployInv => DeploymentConsistent
<1>. SUFFICES ASSUME DeployInv PROVE DeploymentConsistent
    OBVIOUS
<1>1. ASSUME NEW ids, NEW target, NEW admin, Reached(contracts, ids, target, admin, 7)
      PROVE  Complete(ids, target, admin)
    BY <1>1 DEF Reached, Right, Complete, DeployKeys
<1>2. envFile # Blank => Complete(envFile.ids, envFile.target, envFile.admin)
    BY <1>1 DEF DeployInv, EnvTrue
<1>3. ASSUME manifest # Blank, manifest["SAS_BOUND"] # Blank
      PROVE  Complete([k \in DeployKeys |-> manifest[k]], manifest.NETWORK, manifest.ADMIN)
    <2>1. Reached(contracts, manifest, manifest.NETWORK, manifest.ADMIN, 7)
        BY <1>3, StageNames DEF DeployInv, ManifestTrue
    <2>2. Reached(contracts, [k \in DeployKeys |-> manifest[k]], manifest.NETWORK, manifest.ADMIN, 7)
        BY <2>1 DEF Reached, Right, DeployKeys
    <2>. QED BY <2>2, <1>1
<1>. QED BY <1>2, <1>3 DEF DeploymentConsistent

(* The contracts grow under the files: both stay true. *)
LEMMA FilesStayTrue ==
    ASSUME DeployInv, Later(contracts, contracts'), manifest' = manifest, envFile' = envFile,
           \A c \in 1..Len(contracts) :
             \/ contracts'[c].indexer = contracts[c].indexer
             \/ /\ c = script.ids["SAS_ID"]
                /\ manifest # Blank => manifest["SAS_BOUND"] = Blank
    PROVE  /\ ManifestTrue(contracts', manifest')
           /\ envFile' # Blank => Reached(contracts', envFile'.ids, envFile'.target, envFile'.admin, 7)
<1>1. ASSUME manifest # Blank, NEW i \in 1..7, manifest[Stages[i]] # Blank
      PROVE  /\ \A j \in 1..i : manifest[Stages[j]] # Blank
             /\ manifest["NETWORK"] \in Targets /\ manifest["ADMIN"] \in Admins
             /\ Reached(contracts', manifest, manifest["NETWORK"], manifest["ADMIN"], i)
    <2>1. /\ \A j \in 1..i : manifest[Stages[j]] # Blank
          /\ manifest["NETWORK"] \in Targets /\ manifest["ADMIN"] \in Admins
          /\ Reached(contracts, manifest, manifest["NETWORK"], manifest["ADMIN"], i)
        BY <1>1 DEF DeployInv, ManifestTrue
    <2>2. ASSUME i = 7 PROVE contracts'[manifest["SAS_ID"]].indexer = contracts[manifest["SAS_ID"]].indexer
        <3>1. manifest["SAS_BOUND"] # Blank
            BY <1>1, <2>2, StageNames
        <3>2. manifest["SAS_ID"] \in 1..Len(contracts)
            BY <2>1, <2>2 DEF Reached, Right
        <3>. QED BY <3>1, <3>2, <1>1
    <2>3. Reached(contracts', manifest, manifest["NETWORK"], manifest["ADMIN"], i)
        <3>1. PICK C, D, m : C = contracts /\ D = contracts' /\ m = manifest
            OBVIOUS
        <3>2. PICK t, a : t = m["NETWORK"] /\ a = m["ADMIN"]
            OBVIOUS
        <3>3. Reached(C, m, t, a, i) /\ Later(C, D) /\ a \in Admins /\ i \in 0..7
            BY <3>1, <3>2, <2>1
        <3>4. i = 7 => D[m["SAS_ID"]].indexer = C[m["SAS_ID"]].indexer
            BY <3>1, <2>2
        <3>5. Reached(D, m, t, a, i)
            BY <3>3, <3>4, ReachedKept
        <3>. QED BY <3>1, <3>2, <3>5
    <2>. QED BY <2>1, <2>3
<1>2. ManifestTrue(contracts', manifest')
    BY <1>1 DEF ManifestTrue
<1>3. ASSUME envFile # Blank PROVE Reached(contracts', envFile.ids, envFile.target, envFile.admin, 7)
    <2>1. /\ Reached(contracts, envFile.ids, envFile.target, envFile.admin, 7)
          /\ envFile.admin \in Admins /\ script.ids["SAS_ID"] # envFile.ids["SAS_ID"]
        BY <1>3 DEF DeployInv, EnvTrue
    <2>2. envFile.ids["SAS_ID"] \in 1..Len(contracts)
        BY <2>1 DEF Reached, Right
    <2>3. contracts'[envFile.ids["SAS_ID"]].indexer = contracts[envFile.ids["SAS_ID"]].indexer
        BY <2>1, <2>2
    <2>4. PICK C, D, ids, t, a :
            /\ C = contracts /\ D = contracts'
            /\ ids = envFile.ids /\ t = envFile.target /\ a = envFile.admin
        OBVIOUS
    <2>5. Reached(C, ids, t, a, 7) /\ Later(C, D) /\ a \in Admins
        BY <2>1, <2>4
    <2>6. D[ids["SAS_ID"]].indexer = C[ids["SAS_ID"]].indexer
        BY <2>3, <2>4
    <2>7. PICK n \in 0..7 : n = 7
        OBVIOUS
    <2>8. Reached(D, ids, t, a, n)
        BY <2>5, <2>6, <2>7, ReachedKept
    <2>. QED BY <2>4, <2>7, <2>8
<1>. QED BY <1>2, <1>3

(* A script that is not running is true of anything. *)
LEMMA IdleTrue ==
    ASSUME DeployInv, script' = NotDeploying, manifest' = manifest, envFile' = envFile,
           contracts' \in Seq(Contract), ManifestTrue(contracts', manifest'),
           envFile' # Blank => Reached(contracts', envFile'.ids, envFile'.target, envFile'.admin, 7)
    PROVE  DeployInv'
<1>1. DeployTypeOK'
    BY DEF DeployInv, DeployTypeOK, NotDeploying, NoIds
<1>2. ScriptTrue(contracts', manifest', script')
    BY DEF ScriptTrue, NotDeploying
<1>3. script'.ids["SAS_ID"] = Blank
    BY DEF NotDeploying, NoIds, DeployKeys
<1>4. EnvTrue(contracts', manifest', script', envFile')
    <2>. SUFFICES ASSUME envFile' # Blank PROVE EnvTrue(contracts', manifest', script', envFile')
        BY DEF EnvTrue
    <2>1. envFile'.ids["SAS_ID"] \in 1..Len(contracts')
        BY DEF Reached, Right
    <2>2. Len(contracts') \in Nat
        BY DEF Contract
    <2>3. envFile'.ids["SAS_ID"] # Blank
        BY <2>1, <2>2, DeploymentAssumption
    <2>. QED BY <1>3, <2>3 DEF EnvTrue, DeployInv
<1>. QED BY <1>1, <1>2, <1>4 DEF DeployInv

(* Transactions: a contract is deployed, initialised or bound. *)
LEMMA DeployLater ==
    ASSUME DeployInv, NEW c \in Contract, contracts' = Append(contracts, c)
    PROVE  /\ contracts' \in Seq(Contract) /\ Later(contracts, contracts')
           /\ Len(contracts') = Len(contracts) + 1 /\ contracts'[Len(contracts) + 1] = c
           /\ \A i \in 1..Len(contracts) : contracts'[i] = contracts[i]
<1>1. contracts \in Seq(Contract)
    BY DEF DeployInv, DeployTypeOK
<1>. QED BY <1>1 DEF Later

(* init, of a contract that has no admin yet. *)
LEMMA InitLater ==
    ASSUME DeployInv, NEW c \in 1..Len(contracts), contracts[c].admin = Blank,
           NEW a \in Admins \cup {Stranger}, NEW p \in Nat \cup {Blank},
           contracts' = [contracts EXCEPT ![c].admin = a, ![c].peer = p]
    PROVE  /\ contracts' \in Seq(Contract) /\ Later(contracts, contracts')
           /\ \A i \in 1..Len(contracts) : contracts'[i].indexer = contracts[i].indexer
           /\ contracts'[c].admin = a /\ contracts'[c].peer = p
           /\ Len(contracts') = Len(contracts)
<1>1. contracts \in Seq(Contract)
    BY DEF DeployInv, DeployTypeOK
<1>2. contracts[c] \in Contract
    BY <1>1
<1>3. contracts' = [contracts EXCEPT ![c] = [contracts[c] EXCEPT !.admin = a, !.peer = p]]
    BY <1>1
<1>4. [contracts[c] EXCEPT !.admin = a, !.peer = p] \in Contract
    BY <1>2 DEF Contract
<1>5. contracts' \in Seq(Contract) /\ Len(contracts') = Len(contracts)
    BY <1>1, <1>3, <1>4
<1>6. \A i \in 1..Len(contracts) : contracts'[i] =
        IF i = c THEN [contracts[c] EXCEPT !.admin = a, !.peer = p] ELSE contracts[i]
    BY <1>1, <1>3
<1>. QED BY <1>1, <1>2, <1>5, <1>6 DEF Later, Contract

(* set_indexer, on an initialised contract. *)
LEMMA BindLater ==
    ASSUME DeployInv, NEW c \in 1..Len(contracts), NEW p \in Nat \cup {Blank},
           contracts' = [contracts EXCEPT ![c].indexer = p]
    PROVE  /\ contracts' \in Seq(Contract) /\ Later(contracts, contracts')
           /\ \A i \in 1..Len(contracts) : i # c => contracts'[i].indexer = contracts[i].indexer
           /\ contracts'[c].indexer = p
           /\ Len(contracts') = Len(contracts)
<1>1. contracts \in Seq(Contract)
    BY DEF DeployInv, DeployTypeOK
<1>2. contracts[c] \in Contract
    BY <1>1
<1>3. contracts' = [contracts EXCEPT ![c] = [contracts[c] EXCEPT !.indexer = p]]
    BY <1>1
<1>4. [contracts[c] EXCEPT !.indexer = p] \in Contract
    BY <1>2 DEF Contract
<1>5. contracts' \in Seq(Contract) /\ Len(contracts') = Len(contracts)
    BY <1>1, <1>3, <1>4
<1>6. \A i \in 1..Len(contracts) : contracts'[i] =
        IF i = c THEN [contracts[c] EXCEPT !.indexer = p] ELSE contracts[i]
    BY <1>1, <1>3
<1>. QED BY <1>1, <1>2, <1>5, <1>6 DEF Later, Contract

(* A stage before the one that is due is done, with the contracts the      *)
(* script knows.                                                           *)
LEMMA DueReached ==
    ASSUME DeployInv, script.at = "stage", NEW n \in 0..6, script.stage = n + 1
    PROVE  /\ Reached(contracts, script.ids, script.target, script.admin, n)
           /\ script.target \in Targets /\ script.admin \in Admins
           /\ script.ids \in [DeployKeys -> Nat \cup {Blank}]
<1>1. InStep(manifest, script, n + 1) /\ script.target \in Targets /\ script.admin \in Admins
    BY DEF DeployInv, ScriptTrue
<1>2. script.ids \in [DeployKeys -> Nat \cup {Blank}]
    BY DEF DeployInv, DeployTypeOK
<1>3. CASE n = 0
    BY <1>1, <1>2, <1>3 DEF Reached
<1>4. CASE n > 0
    <2>1. manifest[Stages[n]] # Blank /\ n \in 1..7
        BY <1>1, <1>4 DEF InStep
    <2>2. Reached(contracts, manifest, script.target, script.admin, n)
        BY <1>1, <2>1 DEF DeployInv, ManifestTrue, InStep
    <2>3. Reached(contracts, script.ids, script.target, script.admin, n)
        BY <1>1, <2>2 DEF Reached, Right, InStep
    <2>. QED BY <1>1, <1>2, <2>3
<1>. QED BY <1>3, <1>4

(* The script goes on to save a stage it has done. *)
LEMMA StageDone ==
    ASSUME DeployInv, NEW keys, Pending(keys), manifest' = manifest, envFile' = envFile,
           contracts' \in Seq(Contract), ManifestTrue(contracts', manifest'),
           envFile' # Blank => Reached(contracts', envFile'.ids, envFile'.target, envFile'.admin, 7),
           NEW ids \in [DeployKeys -> Nat \cup {Blank}],
           script' = [script EXCEPT !.at = "save", !.ids = ids],
           script.stage > 1 => ids["REGISTRY_ID"] = script.ids["REGISTRY_ID"],
           script.stage > 3 => ids["SAS_ID"] = script.ids["SAS_ID"],
           script.stage > 5 => ids["INDEXER_ID"] = script.ids["INDEXER_ID"],
           ids["SAS_ID"] = script.ids["SAS_ID"] \/ ids["SAS_ID"] = Len(contracts) + 1,
           Reached(contracts', ids, script.target, script.admin, script.stage)
    PROVE  DeployInv'
<1>1. script.at = "stage" /\ (script.resume => manifest[Stages[script.stage]] = Blank)
    BY DEF Pending, ScriptAt, Stage
<1>2. /\ script'.at = "save" /\ script'.ids = ids /\ script'.stage = script.stage
      /\ script'.target = script.target /\ script'.admin = script.admin /\ script'.stage \in 1..7
    BY DEF DeployInv, DeployTypeOK
<1>3. DeployTypeOK'
    BY DEF DeployInv, DeployTypeOK
<1>4. manifest[Stages[script.stage]] = Blank /\ InStep(manifest, script, script.stage)
      /\ script.target \in Targets /\ script.admin \in Admins /\ script.resume \in BOOLEAN
    BY <1>1 DEF DeployInv, ScriptTrue, DeployTypeOK
<1>5. InStep(manifest', script', script'.stage)
    BY <1>2, <1>4 DEF InStep
<1>6. ScriptTrue(contracts', manifest', script')
    BY <1>2, <1>4, <1>5 DEF ScriptTrue
<1>7. EnvTrue(contracts', manifest', script', envFile')
    <2>. SUFFICES ASSUME envFile' # Blank PROVE EnvTrue(contracts', manifest', script', envFile')
        BY DEF EnvTrue
    <2>1. EnvTrue(contracts, manifest, script, envFile)
        BY DEF DeployInv
    <2>2. envFile.ids["SAS_ID"] \in 1..Len(contracts) /\ Len(contracts) \in Nat
        BY <2>1 DEF EnvTrue, Reached, Right, DeployInv, DeployTypeOK
    <2>. QED BY <1>2, <2>1, <2>2 DEF EnvTrue
<1>. QED BY <1>3, <1>6, <1>7 DEF DeployInv

(* deploy_contract *)
LEMMA DeployContractInv ==
    ASSUME DeployInv, NEW lost \in BOOLEAN, DeployContract(lost) PROVE DeployInv'
<1>0. script.stage \in 1..7
    BY DEF DeployInv, DeployTypeOK
<1>n. PICK n \in 0..6 : script.stage = n + 1
    BY <1>0
<1>1. /\ script.at = "stage" /\ script.stage \in 1..7 /\ Stages[script.stage] \in DeployKeys
      /\ Len(contracts) \in Nat /\ script.stage = n + 1
    BY <1>0, <1>n DEF DeployContract, Pending, ScriptAt, Stage, DeployInv, DeployTypeOK
<1>2. /\ Reached(contracts, script.ids, script.target, script.admin, n)
      /\ script.target \in Targets /\ script.admin \in Admins
      /\ script.ids \in [DeployKeys -> Nat \cup {Blank}]
    BY <1>1, DueReached
<1>3. PICK c \in Contract : contracts' = Append(contracts, c) /\ c.kind = Stage /\ c.target = script.target
    BY <1>1, <1>2 DEF DeployContract, Contract, Stage
<1>4. /\ contracts' \in Seq(Contract) /\ Later(contracts, contracts')
      /\ Len(contracts') = Len(contracts) + 1 /\ contracts'[Len(contracts) + 1] = c
      /\ \A i \in 1..Len(contracts) : contracts'[i] = contracts[i]
    BY <1>3, DeployLater
<1>5. manifest' = manifest /\ envFile' = envFile
    BY DEF DeployContract
<1>6. /\ ManifestTrue(contracts', manifest')
      /\ envFile' # Blank => Reached(contracts', envFile'.ids, envFile'.target, envFile'.admin, 7)
    BY <1>4, <1>5, FilesStayTrue
<1>7. CASE lost
    BY <1>4, <1>5, <1>6, <1>7, IdleTrue DEF DeployContract
<1>8. CASE ~lost
    <2>1. PICK ids : ids = [script.ids EXCEPT ![Stage] = Len(contracts) + 1]
        OBVIOUS
    <2>2. ids \in [DeployKeys -> Nat \cup {Blank}]
        BY <1>1, <1>2, <2>1 DEF Stage
    <2>3. script' = [script EXCEPT !.at = "save", !.ids = ids]
        BY <1>8, <2>1 DEF DeployContract, DeployInv, DeployTypeOK
    <2>4. script.stage = 1 \/ script.stage = 3 \/ script.stage = 5
        BY <1>1, StageNames DEF DeployKeys
    <2>5. \A k \in DeployKeys : ids[k] = IF k = Stage THEN Len(contracts) + 1 ELSE script.ids[k]
        BY <1>2, <2>1
    <2>6. Reached(contracts', ids, script.target, script.admin, n)
        <3>0. n = 0 \/ n = 2 \/ n = 4
            BY <1>1, <2>4
        <3>1. Reached(contracts', script.ids, script.target, script.admin, n)
            BY <1>1, <1>2, <1>4, <3>0 DEF Reached, Right
        <3>2. /\ n >= 1 => ids["REGISTRY_ID"] = script.ids["REGISTRY_ID"]
              /\ n >= 3 => ids["SAS_ID"] = script.ids["SAS_ID"]
              /\ n >= 5 => ids["INDEXER_ID"] = script.ids["INDEXER_ID"]
            BY <1>1, <2>4, <2>5, StageNames DEF Stage, DeployKeys
        <3>. QED BY <3>1, <3>2, <3>0 DEF Reached, Right
    <2>7. Right(contracts', ids[Stage], Stage, script.target)
        BY <1>1, <1>3, <1>4, <2>5 DEF Right, Stage
    <2>8. Reached(contracts', ids, script.target, script.admin, script.stage)
        BY <1>1, <2>4, <2>6, <2>7, StageNames DEF Reached, Stage
    <2>9. /\ script.stage > 1 => ids["REGISTRY_ID"] = script.ids["REGISTRY_ID"]
          /\ script.stage > 3 => ids["SAS_ID"] = script.ids["SAS_ID"]
          /\ script.stage > 5 => ids["INDEXER_ID"] = script.ids["INDEXER_ID"]
          /\ ids["SAS_ID"] = script.ids["SAS_ID"] \/ ids["SAS_ID"] = Len(contracts) + 1
        BY <2>4, <2>5, StageNames DEF Stage, DeployKeys
    <2>10. Pending(DeployKeys)
        BY DEF DeployContract
    <2>. QED BY <1>4, <1>5, <1>6, <2>2, <2>3, <2>8, <2>9, <2>10, StageDone
<1>. QED BY <1>7, <1>8

(* init *)
LEMMA InitialiseContractInv ==
    ASSUME DeployInv, NEW lost \in BOOLEAN, InitialiseContract(lost) PROVE DeployInv'
<1>0. script.stage \in 1..7
    BY DEF DeployInv, DeployTypeOK
<1>n. PICK n \in 0..6 : script.stage = n + 1
    BY <1>0
<1>1. /\ script.at = "stage" /\ Stages[script.stage] \in InitKeys /\ Len(contracts) \in Nat
    BY DEF InitialiseContract, Pending, ScriptAt, Stage, DeployInv, DeployTypeOK
<1>2. /\ Reached(contracts, script.ids, script.target, script.admin, n)
      /\ script.target \in Targets /\ script.admin \in Admins
      /\ script.ids \in [DeployKeys -> Nat \cup {Blank}]
    BY <1>1, <1>n, DueReached
<1>3. n = 1 \/ n = 3 \/ n = 5
    BY <1>n, <1>1, StageNames DEF InitKeys
<1>4. PICK id, peer : id = IdOf(Stage) /\ peer = PeerOf(Stage)
    OBVIOUS
<1>5. /\ n = 1 => id = script.ids["REGISTRY_ID"] /\ peer = Blank
      /\ n = 3 => id = script.ids["SAS_ID"] /\ peer = script.ids["REGISTRY_ID"]
      /\ n = 5 => id = script.ids["INDEXER_ID"] /\ peer = script.ids["SAS_ID"]
    BY <1>n, <1>4, StageNames DEF Stage, IdOf, PeerOf
<1>6. id \in 1..Len(contracts)
    BY <1>2, <1>3, <1>5 DEF Reached, Right
<1>7. peer \in Nat \cup {Blank}
    BY <1>2, <1>3, <1>5 DEF DeployKeys
<1>8. PICK a \in Admins : a = script.admin
    BY <1>2
<1>9. contracts[id].admin = Blank /\ contracts' = [contracts EXCEPT ![id].admin = a, ![id].peer = peer]
    BY <1>4, <1>8 DEF InitialiseContract
<1>10. /\ contracts' \in Seq(Contract) /\ Later(contracts, contracts')
       /\ \A i \in 1..Len(contracts) : contracts'[i].indexer = contracts[i].indexer
       /\ contracts'[id].admin = a /\ contracts'[id].peer = peer
       /\ Len(contracts') = Len(contracts)
    BY <1>6, <1>7, <1>9, InitLater
<1>11. manifest' = manifest /\ envFile' = envFile
    BY DEF InitialiseContract
<1>12. /\ ManifestTrue(contracts', manifest')
       /\ envFile' # Blank => Reached(contracts', envFile'.ids, envFile'.target, envFile'.admin, 7)
    BY <1>10, <1>11, FilesStayTrue
<1>13. CASE lost
    BY <1>10, <1>11, <1>12, <1>13, IdleTrue DEF InitialiseContract, Stops
<1>14. CASE ~lost
    <2>1. PICK ids \in [DeployKeys -> Nat \cup {Blank}] : ids = script.ids
        BY <1>2
    <2>2. script' = [script EXCEPT !.at = "save", !.ids = ids]
        BY <1>14, <2>1 DEF InitialiseContract, GoesTo, DeployInv, DeployTypeOK
    <2>3. PICK C, D, t : C = contracts /\ D = contracts' /\ t = script.target
        OBVIOUS
    <2>4. Reached(C, ids, t, a, n) /\ Later(C, D) /\ n \in 0..7
        BY <1>2, <1>8, <1>10, <2>1, <2>3
    <2>5. Reached(D, ids, t, a, n)
        BY <2>4, <1>3, ReachedKept
    <2>6. D[id].admin = a /\ D[id].peer = peer
        BY <1>10, <2>3
    <2>7. /\ n = 1 => id = ids["REGISTRY_ID"] /\ peer = Blank
          /\ n = 3 => id = ids["SAS_ID"] /\ peer = ids["REGISTRY_ID"]
          /\ n = 5 => id = ids["INDEXER_ID"] /\ peer = ids["SAS_ID"]
        BY <1>5, <2>1
    <2>8. Reached(D, ids, t, a, n + 1)
        BY <1>3, <2>5, <2>6, <2>7 DEF Reached
    <2>9. Reached(contracts', ids, script.target, script.admin, script.stage)
        BY <1>n, <1>8, <2>3, <2>8
    <2>10. Pending(InitKeys)
        BY DEF InitialiseContract
    <2>. QED BY <1>10, <1>11, <1>12, <2>1, <2>2, <2>9, <2>10, StageDone
<1>. QED BY <1>13, <1>14

(* set_indexer *)
LEMMA BindIndexerInv ==
    ASSUME DeployInv, NEW lost \in BOOLEAN, BindIndexer(lost) PROVE DeployInv'
<1>1. /\ script.at = "stage" /\ script.stage \in 1..7 /\ Stages[script.stage] = "SAS_BOUND"
      /\ Len(contracts) \in Nat
    BY DEF BindIndexer, Pending, ScriptAt, Stage, DeployInv, DeployTypeOK
<1>2. PICK n \in 0..6 : n = 6 /\ script.stage = n + 1
    BY <1>1, StageNames
<1>3. /\ Reached(contracts, script.ids, script.target, script.admin, n)
      /\ script.target \in Targets /\ script.admin \in Admins
      /\ script.ids \in [DeployKeys -> Nat \cup {Blank}]
    BY <1>1, <1>2, DueReached
<1>4. PICK ids \in [DeployKeys -> Nat \cup {Blank}] : ids = script.ids
    BY <1>3
<1>5. PICK c \in 1..Len(contracts) : c = ids["SAS_ID"]
    BY <1>2, <1>3, <1>4 DEF Reached, Right
<1>6. PICK p \in Nat \cup {Blank} : p = ids["INDEXER_ID"]
    BY <1>4 DEF DeployKeys
<1>7. contracts' = [contracts EXCEPT ![c].indexer = p]
    BY <1>4, <1>5, <1>6 DEF BindIndexer
<1>8. /\ contracts' \in Seq(Contract) /\ Later(contracts, contracts')
      /\ \A i \in 1..Len(contracts) : i # c => contracts'[i].indexer = contracts[i].indexer
      /\ contracts'[c].indexer = p
      /\ Len(contracts') = Len(contracts)
    BY <1>7, BindLater
<1>9. manifest' = manifest /\ envFile' = envFile
    BY DEF BindIndexer
<1>10. manifest["SAS_BOUND"] = Blank
    BY <1>1 DEF BindIndexer, Pending, Stage, DeployInv, ScriptTrue
<1>11. /\ ManifestTrue(contracts', manifest')
       /\ envFile' # Blank => Reached(contracts', envFile'.ids, envFile'.target, envFile'.admin, 7)
    BY <1>4, <1>5, <1>8, <1>9, <1>10, FilesStayTrue
<1>12. CASE lost
    BY <1>8, <1>9, <1>11, <1>12, IdleTrue DEF BindIndexer, Stops
<1>13. CASE ~lost
    <2>1. script' = [script EXCEPT !.at = "save", !.ids = ids]
        BY <1>4, <1>13 DEF BindIndexer, GoesTo, DeployInv, DeployTypeOK
    <2>2. PICK C, D, t, a : C = contracts /\ D = contracts' /\ t = script.target /\ a = script.admin
        OBVIOUS
    <2>3. Reached(C, ids, t, a, n) /\ Later(C, D) /\ n \in 0..7 /\ a \in Admins
        BY <1>3, <1>4, <1>8, <2>2
    <2>4. Reached(D, ids, t, a, n)
        BY <2>3, <1>2, ReachedKept
    <2>5. D[ids["SAS_ID"]].indexer = ids["INDEXER_ID"]
        BY <1>5, <1>6, <1>8, <2>2
    <2>6. Reached(D, ids, t, a, n + 1)
        BY <1>2, <2>4, <2>5 DEF Reached
    <2>7. Reached(contracts', ids, script.target, script.admin, script.stage)
        BY <1>2, <2>2, <2>6
    <2>8. PICK keys : keys = {"SAS_BOUND"} /\ Pending(keys)
        BY DEF BindIndexer
    <2>. QED BY <1>4, <1>8, <1>9, <1>11, <2>1, <2>7, <2>8, StageDone
<1>. QED BY <1>12, <1>13

(* Somebody else initialises a contract. *)
LEMMA StrangerInitInv ==
    ASSUME DeployInv, NEW c \in 1..Len(contracts), StrangerInit(c) PROVE DeployInv'
<1>1. contracts \in Seq(Contract) /\ contracts[c] \in Contract
    BY DEF DeployInv, DeployTypeOK
<1>2. PICK r \in Contract : r = [contracts[c] EXCEPT !.admin = Stranger]
    BY <1>1 DEF Contract
<1>3. contracts' = [contracts EXCEPT ![c] = r]
    BY <1>1, <1>2 DEF StrangerInit
<1>4. r.kind = contracts[c].kind /\ r.target = contracts[c].target /\ r.indexer = contracts[c].indexer
    BY <1>1, <1>2 DEF Contract
<1>5. contracts' \in Seq(Contract) /\ Len(contracts') = Len(contracts)
    BY <1>1, <1>3
<1>6. \A i \in 1..Len(contracts) : contracts'[i] = IF i = c THEN r ELSE contracts[i]
    BY <1>1, <1>3
<1>7. contracts[c].admin = Blank
    BY DEF StrangerInit
<1>8. Later(contracts, contracts')
      /\ \A i \in 1..Len(contracts) : contracts'[i].indexer = contracts[i].indexer
    BY <1>1, <1>4, <1>5, <1>6, <1>7 DEF Later
<1>9. manifest' = manifest /\ envFile' = envFile /\ script' = script
    BY DEF StrangerInit
<1>10. /\ ManifestTrue(contracts', manifest')
       /\ envFile' # Blank => Reached(contracts', envFile'.ids, envFile'.target, envFile'.admin, 7)
    BY <1>8, <1>9, FilesStayTrue
<1>11. DeployTypeOK'
    BY <1>5, <1>9 DEF DeployInv, DeployTypeOK
<1>12. EnvTrue(contracts', manifest', script', envFile')
    BY <1>9, <1>10 DEF DeployInv, EnvTrue
<1>13. ScriptTrue(contracts', manifest', script')
    <2>1. ASSUME NEW n \in 0..7, Reached(contracts, script.ids, script.target, script.admin, n),
                 script.admin \in Admins
          PROVE  Reached(contracts', script.ids, script.target, script.admin, n)
        <3>1. PICK C, D, ids, t, a :
                /\ C = contracts /\ D = contracts'
                /\ ids = script.ids /\ t = script.target /\ a = script.admin
            OBVIOUS
        <3>2. Reached(C, ids, t, a, n) /\ Later(C, D) /\ a \in Admins
            BY <2>1, <3>1, <1>8
        <3>3. n = 7 => D[ids["SAS_ID"]].indexer = C[ids["SAS_ID"]].indexer
            BY <3>1, <3>2, <1>8 DEF Reached, Right
        <3>4. Reached(D, ids, t, a, n)
            BY <3>2, <3>3, ReachedKept
        <3>. QED BY <3>1, <3>4
    <2>2. ScriptTrue(contracts, manifest, script) /\ script.stage \in 1..7
        BY DEF DeployInv, DeployTypeOK
    <2>3. script.at = "save" => Reached(contracts', script.ids, script.target, script.admin, script.stage)
        BY <2>1, <2>2 DEF ScriptTrue
    <2>4. script.at = "env" => Reached(contracts', script.ids, script.target, script.admin, 7)
        BY <2>1, <2>2 DEF ScriptTrue
    <2>. QED BY <1>9, <2>2, <2>3, <2>4 DEF ScriptTrue
<1>. QED BY <1>10, <1>11, <1>12, <1>13 DEF DeployInv

(* A step of the script that touches neither a contract nor .env. *)
LEMMA ScriptMoves ==
    ASSUME DeployInv, contracts' = contracts, envFile' = envFile, DeployTypeOK',
           ManifestTrue(contracts, manifest'), ScriptTrue(contracts, manifest', script'),
           \/ script'.ids["SAS_ID"] \in {script.ids["SAS_ID"], Blank}
           \/ manifest # Blank /\ script'.ids["SAS_ID"] = manifest["SAS_ID"],
           manifest' # Blank =>
             \/ manifest'["SAS_ID"] \in {script.ids["SAS_ID"], Blank}
             \/ manifest # Blank /\ manifest'["SAS_ID"] = manifest["SAS_ID"]
    PROVE  DeployInv'
<1>1. EnvTrue(contracts, manifest', script', envFile)
    <2>. SUFFICES ASSUME envFile # Blank PROVE EnvTrue(contracts, manifest', script', envFile)
        BY DEF EnvTrue
    <2>1. EnvTrue(contracts, manifest, script, envFile)
        BY DEF DeployInv
    <2>2. envFile.ids["SAS_ID"] \in 1..Len(contracts) /\ Len(contracts) \in Nat
        BY <2>1 DEF EnvTrue, Reached, Right, DeployInv, DeployTypeOK
    <2>3. envFile.ids["SAS_ID"] # Blank
        BY <2>2, DeploymentAssumption
    <2>. QED BY <2>1, <2>3 DEF EnvTrue
<1>. QED BY <1>1 DEF DeployInv

(* The script begins, afresh or where a manifest left off. *)
LEMMA StartScriptInv ==
    ASSUME DeployInv, NEW target \in Targets, NEW admin \in Admins, NEW resume \in BOOLEAN,
           StartScript(target, admin, resume)
    PROVE  DeployInv'
<1>1. contracts' = contracts /\ envFile' = envFile /\ (resume => Resumable(target, admin))
      /\ manifest' = (IF resume THEN manifest ELSE Blank)
    BY DEF StartScript
<1>2. /\ script'.at = (IF resume THEN "stage" ELSE "saveNetwork") /\ script'.stage = 1
      /\ script'.resume = resume /\ script'.target = target /\ script'.admin = admin
      /\ script'.ids = NoIds
    BY DEF StartScript, NotDeploying
<1>3. DeployTypeOK'
    BY <1>1 DEF StartScript, NotDeploying, NoIds, DeployInv, DeployTypeOK
<1>4. ManifestTrue(contracts, manifest')
    BY <1>1 DEF DeployInv, ManifestTrue
<1>5. resume => InStep(manifest, script', 1)
    BY <1>1, <1>2 DEF InStep, Resumable
<1>6. ScriptTrue(contracts, manifest', script')
    BY <1>1, <1>2, <1>5 DEF ScriptTrue
<1>7. script'.ids["SAS_ID"] = Blank
    BY <1>2 DEF NoIds, DeployKeys
<1>. QED BY <1>1, <1>3, <1>4, <1>6, <1>7, ScriptMoves

(* A manifest after save_manifest. *)
LEMMA Recorded ==
    ASSUME DeployInv, NEW k \in DOMAIN NoManifest, NEW v \in Targets \cup Admins \cup Nat \cup BOOLEAN,
           manifest' = [Entries EXCEPT ![k] = v]
    PROVE  /\ manifest' \in [DOMAIN NoManifest -> Targets \cup Admins \cup Nat \cup BOOLEAN \cup {Blank}]
           /\ manifest' # Blank
           /\ \A j \in DOMAIN NoManifest : manifest'[j] =
                IF j = k THEN v ELSE IF manifest = Blank THEN Blank ELSE manifest[j]
<1>1. Entries \in [DOMAIN NoManifest -> Targets \cup Admins \cup Nat \cup BOOLEAN \cup {Blank}]
    BY DEF Entries, NoManifest, DeployInv, DeployTypeOK
<1>2. \A j \in DOMAIN NoManifest : Entries[j] = IF manifest = Blank THEN Blank ELSE manifest[j]
    BY DEF Entries, NoManifest
<1>3. manifest' \in [DOMAIN NoManifest -> Targets \cup Admins \cup Nat \cup BOOLEAN \cup {Blank}]
    BY <1>1
<1>. QED BY <1>1, <1>2, <1>3, ManifestAssumption

(* The first two entries of a manifest. *)
LEMMA SaveNetworkInv == ASSUME DeployInv, SaveNetwork PROVE DeployInv'
<1>1. script.at = "saveNetwork" /\ contracts' = contracts /\ envFile' = envFile
    BY DEF SaveNetwork, ScriptAt
<1>2. manifest = Blank /\ script.target \in Targets /\ script.admin \in Admins /\ ~script.resume
      /\ script.stage = 1
    BY <1>1 DEF DeployInv, ScriptTrue
<1>3. PICK k, v : k = "NETWORK" /\ v = script.target /\ v \in Targets
    BY <1>2
<1>4. k \in DOMAIN NoManifest /\ manifest' = [Entries EXCEPT ![k] = v]
    BY <1>3, StageNames DEF SaveNetwork
<1>5. /\ manifest' \in [DOMAIN NoManifest -> Targets \cup Admins \cup Nat \cup BOOLEAN \cup {Blank}]
      /\ manifest' # Blank
      /\ \A j \in DOMAIN NoManifest : manifest'[j] = IF j = k THEN v ELSE Blank
    BY <1>2, <1>3, <1>4, Recorded
<1>6. /\ script'.at = "saveAdmin" /\ script'.stage = script.stage /\ script'.resume = script.resume
      /\ script'.target = script.target /\ script'.admin = script.admin /\ script'.ids = script.ids
    BY DEF SaveNetwork, GoesTo, DeployInv, DeployTypeOK
<1>7. DeployTypeOK'
    BY <1>1, <1>5 DEF SaveNetwork, GoesTo, DeployInv, DeployTypeOK
<1>8. \A j \in 1..7 : manifest'[Stages[j]] = Blank
    BY <1>3, <1>5, StageNames
<1>9. ManifestTrue(contracts, manifest')
    BY <1>8 DEF ManifestTrue
<1>10. manifest'["NETWORK"] = script.target /\ manifest'["SAS_ID"] = Blank
    BY <1>3, <1>5, <1>8, StageNames
<1>11. ScriptTrue(contracts, manifest', script')
    BY <1>2, <1>5, <1>6, <1>8, <1>10 DEF ScriptTrue
<1>. QED BY <1>1, <1>6, <1>7, <1>9, <1>10, <1>11, ScriptMoves

(* The entry of the admin: the stages are still to come. *)
LEMMA SaveAdminInv == ASSUME DeployInv, SaveAdmin PROVE DeployInv'
<1>1. script.at = "saveAdmin" /\ contracts' = contracts /\ envFile' = envFile
    BY DEF SaveAdmin, ScriptAt
<1>2. /\ manifest # Blank /\ script.target \in Targets /\ script.admin \in Admins /\ ~script.resume
      /\ script.stage = 1 /\ manifest["NETWORK"] = script.target
      /\ \A j \in 1..7 : manifest[Stages[j]] = Blank
    BY <1>1 DEF DeployInv, ScriptTrue
<1>3. PICK k, v : k = "ADMIN" /\ v = script.admin /\ v \in Admins
    BY <1>2
<1>4. k \in DOMAIN NoManifest /\ manifest' = [Entries EXCEPT ![k] = v]
    BY <1>3, StageNames DEF SaveAdmin
<1>5. /\ manifest' \in [DOMAIN NoManifest -> Targets \cup Admins \cup Nat \cup BOOLEAN \cup {Blank}]
      /\ manifest' # Blank
      /\ \A j \in DOMAIN NoManifest : manifest'[j] = IF j = k THEN v ELSE manifest[j]
    BY <1>2, <1>3, <1>4, Recorded
<1>6. /\ script'.at = "stage" /\ script'.stage = script.stage /\ script'.resume = script.resume
      /\ script'.target = script.target /\ script'.admin = script.admin /\ script'.ids = script.ids
    BY DEF SaveAdmin, GoesTo, DeployInv, DeployTypeOK
<1>7. DeployTypeOK'
    BY <1>1, <1>5 DEF SaveAdmin, GoesTo, DeployInv, DeployTypeOK
<1>8. \A j \in 1..7 : manifest'[Stages[j]] = Blank
    BY <1>2, <1>3, <1>5, StageNames
<1>9. ManifestTrue(contracts, manifest')
    BY <1>8 DEF ManifestTrue
<1>10. /\ manifest'["NETWORK"] = script.target /\ manifest'["ADMIN"] = script.admin
       /\ manifest'["SAS_ID"] = Blank
    BY <1>2, <1>3, <1>5, <1>8, StageNames
<1>11. InStep(manifest', script', script'.stage)
    BY <1>2, <1>5, <1>6, <1>10 DEF InStep
<1>12. ScriptTrue(contracts, manifest', script')
    BY <1>2, <1>6, <1>8, <1>11 DEF ScriptTrue
<1>. QED BY <1>1, <1>6, <1>7, <1>9, <1>10, <1>12, ScriptMoves

(* The script goes on behind a stage. *)
LEMMA AfterFacts ==
    ASSUME DeployInv, NEW where \in {"rmManifest", "verify"},
           NEW ids \in [DeployKeys -> Nat \cup {Blank}], After(where, ids)
    PROVE  /\ script'.ids = ids /\ script'.resume = script.resume
           /\ script'.target = script.target /\ script'.admin = script.admin
           /\ script.stage = 7 => script'.at = where /\ script'.stage = 7
           /\ script.stage # 7 => script'.at = "stage" /\ script'.stage = script.stage + 1
           /\ script' \in [at : {"idle", "saveNetwork", "saveAdmin", "stage", "save", "verify",
                                 "rmManifest", "env"},
                           stage : 1..7, resume : BOOLEAN, target : Targets \cup {Blank},
                           admin : Admins \cup {Blank}, ids : [DeployKeys -> Nat \cup {Blank}]]
<1>1. PICK at7, next : /\ at7 = (IF script.stage = 7 THEN where ELSE "stage")
                       /\ next = (IF script.stage = 7 THEN script.stage ELSE script.stage + 1)
    OBVIOUS
<1>2. script' = [script EXCEPT !.ids = ids, !.at = at7, !.stage = next]
    BY <1>1, StageNames DEF After
<1>3. next \in 1..7 /\ at7 \in {"stage", "verify", "rmManifest"}
    BY <1>1 DEF DeployInv, DeployTypeOK
<1>4. /\ script'.ids = ids /\ script'.resume = script.resume
      /\ script'.target = script.target /\ script'.admin = script.admin
      /\ script'.at = at7 /\ script'.stage = next
    BY <1>2 DEF DeployInv, DeployTypeOK
<1>5. script' \in [at : {"idle", "saveNetwork", "saveAdmin", "stage", "save", "verify",
                         "rmManifest", "env"},
                   stage : 1..7, resume : BOOLEAN, target : Targets \cup {Blank},
                   admin : Admins \cup {Blank}, ids : [DeployKeys -> Nat \cup {Blank}]]
    BY <1>2, <1>3 DEF DeployInv, DeployTypeOK
<1>. QED BY <1>1, <1>4, <1>5

(* A resumed script passes over a stage of the manifest. *)
LEMMA SkipStageInv == ASSUME DeployInv, SkipStage PROVE DeployInv'
<1>1. /\ script.at = "stage" /\ script.resume /\ manifest[Stages[script.stage]] # Blank
      /\ contracts' = contracts /\ envFile' = envFile /\ manifest' = manifest
    BY DEF SkipStage, ScriptAt, Stage
<1>2. /\ script.stage \in 1..7 /\ InStep(manifest, script, script.stage)
      /\ script.target \in Targets /\ script.admin \in Admins
      /\ script.ids \in [DeployKeys -> Nat \cup {Blank}]
      /\ ManifestTrue(contracts, manifest) /\ manifest # Blank
    BY <1>1 DEF DeployInv, DeployTypeOK, ScriptTrue, InStep
<1>3. Reached(contracts, manifest, manifest["NETWORK"], manifest["ADMIN"], script.stage)
    BY <1>1, <1>2 DEF ManifestTrue
<1>4. Len(contracts) \in Nat
    BY DEF DeployInv, DeployTypeOK
<1>5. PICK n \in 1..7 : n = script.stage
    BY <1>2
<1>6. Stages[n] \in DeployKeys <=> n \in {1, 3, 5}
    BY StageNames DEF DeployKeys
<1>7. n \in {1, 3, 5} => manifest[Stages[n]] \in Nat
    BY <1>3, <1>4, <1>5, StageNames DEF Reached, Right
<1>8. PICK ids : ids = IF Stage \in DeployKeys THEN [script.ids EXCEPT ![Stage] = manifest[Stage]]
                                               ELSE script.ids
    OBVIOUS
<1>9. /\ ids \in [DeployKeys -> Nat \cup {Blank}]
      /\ \A k \in DeployKeys : ids[k] = IF k = Stages[n] THEN manifest[k] ELSE script.ids[k]
    BY <1>2, <1>5, <1>6, <1>7, <1>8 DEF Stage
<1>10. After("rmManifest", ids)
    BY <1>8 DEF SkipStage
<1>11. /\ script'.ids = ids /\ script'.resume = script.resume
       /\ script'.target = script.target /\ script'.admin = script.admin
       /\ n = 7 => script'.at = "rmManifest" /\ script'.stage = 7
       /\ n # 7 => script'.at = "stage" /\ script'.stage = n + 1
    BY <1>5, <1>9, <1>10, AfterFacts
<1>12. DeployTypeOK'
    BY <1>1, <1>9, <1>10, AfterFacts DEF DeployInv, DeployTypeOK
<1>13. /\ n >= 1 => ids["REGISTRY_ID"] = manifest["REGISTRY_ID"]
       /\ n >= 3 => ids["SAS_ID"] = manifest["SAS_ID"]
       /\ n >= 5 => ids["INDEXER_ID"] = manifest["INDEXER_ID"]
    BY <1>2, <1>5, <1>9, StageNames DEF InStep, DeployKeys
<1>14. \A j \in 1..7 : j < n + 1 => manifest[Stages[j]] # Blank
    BY <1>1, <1>2, <1>5 DEF InStep
<1>15. InStep(manifest, script', n + 1)
    BY <1>2, <1>11, <1>13, <1>14 DEF InStep
<1>16. ScriptTrue(contracts, manifest, script')
    BY <1>1, <1>2, <1>11, <1>15 DEF ScriptTrue
<1>17. ids["SAS_ID"] = script.ids["SAS_ID"] \/ ids["SAS_ID"] = manifest["SAS_ID"]
    BY <1>9 DEF DeployKeys
<1>18. manifest'["SAS_ID"] = manifest["SAS_ID"]
    BY <1>1
<1>. QED BY <1>1, <1>2, <1>11, <1>12, <1>16, <1>17, <1>18, ScriptMoves

(* save_manifest of a stage that is done. *)
LEMMA SaveStageInv == ASSUME DeployInv, SaveStage PROVE DeployInv'
<1>1. /\ script.at = "save" /\ contracts' = contracts /\ envFile' = envFile
      /\ After("verify", script.ids)
    BY DEF SaveStage, ScriptAt
<1>2. /\ script.stage \in 1..7 /\ InStep(manifest, script, script.stage)
      /\ script.target \in Targets /\ script.admin \in Admins
      /\ script.ids \in [DeployKeys -> Nat \cup {Blank}]
      /\ ManifestTrue(contracts, manifest) /\ manifest # Blank
      /\ manifest[Stages[script.stage]] = Blank
      /\ Reached(contracts, script.ids, script.target, script.admin, script.stage)
    BY <1>1 DEF DeployInv, DeployTypeOK, ScriptTrue, InStep
<1>3. Len(contracts) \in Nat
    BY DEF DeployInv, DeployTypeOK
<1>4. PICK n \in 1..7 : n = script.stage
    BY <1>2
<1>5. PICK ids \in [DeployKeys -> Nat \cup {Blank}] : ids = script.ids
    BY <1>2
<1>6. Stages[n] \in DeployKeys <=> n \in {1, 3, 5}
    BY StageNames DEF DeployKeys
<1>7. n \in {1, 3, 5} => ids[Stages[n]] \in Nat
    BY <1>2, <1>3, <1>4, <1>5, StageNames DEF Reached, Right
<1>8. PICK v \in Targets \cup Admins \cup Nat \cup BOOLEAN :
        v = IF Stages[n] \in DeployKeys THEN ids[Stages[n]] ELSE TRUE
    BY <1>6, <1>7
<1>9. PICK k \in DOMAIN NoManifest : k = Stages[n]
    BY StageNames
<1>10. manifest' = [Entries EXCEPT ![k] = v]
    BY <1>4, <1>5, <1>8, <1>9 DEF SaveStage, Stage
<1>11. /\ manifest' \in [DOMAIN NoManifest -> Targets \cup Admins \cup Nat \cup BOOLEAN \cup {Blank}]
       /\ manifest' # Blank
       /\ \A j \in DOMAIN NoManifest : manifest'[j] = IF j = Stages[n] THEN v ELSE manifest[j]
    BY <1>2, <1>9, <1>10, Recorded
<1>12. /\ script'.ids = ids /\ script'.resume = script.resume
       /\ script'.target = script.target /\ script'.admin = script.admin
       /\ n = 7 => script'.at = "verify" /\ script'.stage = 7
       /\ n # 7 => script'.at = "stage" /\ script'.stage = n + 1
    BY <1>1, <1>4, <1>5, AfterFacts
<1>13. DeployTypeOK'
    BY <1>1, <1>2, <1>11, AfterFacts DEF DeployInv, DeployTypeOK
<1>14. v # Blank
    BY DeploymentAssumption
<1>15. /\ manifest'["NETWORK"] = script.target /\ manifest'["ADMIN"] = script.admin
       /\ \A j \in 1..7 : manifest'[Stages[j]] = IF j = n THEN v ELSE manifest[Stages[j]]
    BY <1>2, <1>11, StageNames DEF InStep
<1>16. \A j \in 1..7 : j < n => manifest[Stages[j]] # Blank
    BY <1>2, <1>4 DEF InStep
<1>17. \A j \in 1..7 : j >= n => manifest[Stages[j]] = Blank
    BY <1>2, <1>4 DEF ManifestTrue
<1>18. /\ n >= 1 => manifest'["REGISTRY_ID"] = ids["REGISTRY_ID"]
       /\ n >= 3 => manifest'["SAS_ID"] = ids["SAS_ID"]
       /\ n >= 5 => manifest'["INDEXER_ID"] = ids["INDEXER_ID"]
    <2>1. /\ n > 1 => manifest["REGISTRY_ID"] = ids["REGISTRY_ID"]
          /\ n > 3 => manifest["SAS_ID"] = ids["SAS_ID"]
          /\ n > 5 => manifest["INDEXER_ID"] = ids["INDEXER_ID"]
        BY <1>2, <1>4, <1>5 DEF InStep
    <2>2. /\ manifest'["REGISTRY_ID"] = IF n = 1 THEN v ELSE manifest["REGISTRY_ID"]
          /\ manifest'["SAS_ID"] = IF n = 3 THEN v ELSE manifest["SAS_ID"]
          /\ manifest'["INDEXER_ID"] = IF n = 5 THEN v ELSE manifest["INDEXER_ID"]
        BY <1>15, StageNames
    <2>3. /\ n = 1 => v = ids["REGISTRY_ID"]
          /\ n = 3 => v = ids["SAS_ID"]
          /\ n = 5 => v = ids["INDEXER_ID"]
        BY <1>6, <1>8, StageNames
    <2>. QED BY <2>1, <2>2, <2>3
<1>19. ManifestTrue(contracts, manifest')
    <2>. SUFFICES ASSUME NEW i \in 1..7, manifest'[Stages[i]] # Blank
                  PROVE  /\ \A j \in 1..i : manifest'[Stages[j]] # Blank
                         /\ manifest'["NETWORK"] \in Targets /\ manifest'["ADMIN"] \in Admins
                         /\ Reached(contracts, manifest', manifest'["NETWORK"], manifest'["ADMIN"], i)
        BY DEF ManifestTrue
    <2>1. i <= n
        BY <1>15, <1>17
    <2>2. \A j \in 1..i : manifest'[Stages[j]] # Blank
        BY <2>1, <1>14, <1>15, <1>16
    <2>3. Reached(contracts, ids, script.target, script.admin, n)
        BY <1>2, <1>4, <1>5
    <2>4. Reached(contracts, ids, script.target, script.admin, i)
        BY <2>1, <2>3 DEF Reached
    <2>5. /\ i >= 1 => manifest'["REGISTRY_ID"] = ids["REGISTRY_ID"]
          /\ i >= 3 => manifest'["SAS_ID"] = ids["SAS_ID"]
          /\ i >= 5 => manifest'["INDEXER_ID"] = ids["INDEXER_ID"]
        BY <2>1, <1>18
    <2>6. PICK m, C, t, a : m = manifest' /\ C = contracts /\ t = script.target /\ a = script.admin
        OBVIOUS
    <2>7. Reached(C, m, t, a, i)
        BY <2>4, <2>5, <2>6 DEF Reached, Right
    <2>8. Reached(contracts, manifest', manifest'["NETWORK"], manifest'["ADMIN"], i)
        BY <2>6, <2>7, <1>15
    <2>. QED BY <2>2, <2>8, <1>15, <1>2
<1>20. InStep(manifest', script', n + 1)
    <2>1. \A j \in 1..7 : j < n + 1 => manifest'[Stages[j]] # Blank
        BY <1>14, <1>15, <1>16
    <2>. QED BY <2>1, <1>11, <1>12, <1>15, <1>18 DEF InStep
<1>21. n # 7 => manifest'[Stages[n + 1]] = Blank
    BY <1>15, <1>17
<1>22. ScriptTrue(contracts, manifest', script')
    BY <1>2, <1>12, <1>20, <1>21 DEF ScriptTrue
<1>23. manifest'["SAS_ID"] = script.ids["SAS_ID"] \/ manifest'["SAS_ID"] = manifest["SAS_ID"]
    BY <1>5, <1>15, <1>18, StageNames
<1>. QED BY <1>1, <1>2, <1>5, <1>12, <1>13, <1>19, <1>22, <1>23, ScriptMoves

(* The binding is read back, the manifest is removed, .env is written. *)
LEMMA VerifyInv == ASSUME DeployInv, VerifyBinding \/ RemoveManifest \/ WriteEnv PROVE DeployInv'
<1>1. CASE VerifyBinding /\ Stops
    <2>1. contracts' = contracts /\ manifest' = manifest /\ envFile' = envFile /\ script' = NotDeploying
        BY <1>1 DEF VerifyBinding, Stops
    <2>2. contracts' \in Seq(Contract) /\ ManifestTrue(contracts', manifest')
          /\ (envFile' # Blank => Reached(contracts', envFile'.ids, envFile'.target, envFile'.admin, 7))
        BY <2>1 DEF DeployInv, DeployTypeOK, EnvTrue
    <2>. QED BY <2>1, <2>2, IdleTrue
<1>2. CASE VerifyBinding /\ GoesTo("rmManifest")
    <2>1. contracts' = contracts /\ manifest' = manifest /\ envFile' = envFile /\ script.at = "verify"
        BY <1>2 DEF VerifyBinding, ScriptAt
    <2>2. /\ script'.at = "rmManifest" /\ script'.stage = script.stage /\ script'.resume = script.resume
          /\ script'.target = script.target /\ script'.admin = script.admin /\ script'.ids = script.ids
        BY <1>2 DEF GoesTo, DeployInv, DeployTypeOK
    <2>3. DeployTypeOK'
        BY <1>2, <2>1 DEF GoesTo, DeployInv, DeployTypeOK
    <2>4. InStep(manifest, script', 8) /\ script.target \in Targets /\ script.admin \in Admins
        BY <2>1, <2>2 DEF DeployInv, ScriptTrue, InStep
    <2>5. ScriptTrue(contracts, manifest', script')
        BY <2>1, <2>2, <2>4 DEF ScriptTrue
    <2>6. ManifestTrue(contracts, manifest') /\ (manifest' # Blank => manifest'["SAS_ID"] = manifest["SAS_ID"])
        BY <2>1 DEF DeployInv
    <2>. QED BY <2>1, <2>2, <2>3, <2>5, <2>6, ScriptMoves
<1>3. CASE RemoveManifest
    <2>1. contracts' = contracts /\ manifest' = Blank /\ envFile' = envFile /\ script.at = "rmManifest"
        BY <1>3 DEF RemoveManifest, ScriptAt
    <2>2. /\ script'.at = "env" /\ script'.stage = script.stage /\ script'.resume = script.resume
          /\ script'.target = script.target /\ script'.admin = script.admin /\ script'.ids = script.ids
        BY <1>3 DEF RemoveManifest, GoesTo, DeployInv, DeployTypeOK
    <2>3. DeployTypeOK'
        BY <1>3, <2>1 DEF RemoveManifest, GoesTo, DeployInv, DeployTypeOK
    <2>4. InStep(manifest, script, 8) /\ script.target \in Targets /\ script.admin \in Admins
        BY <2>1 DEF DeployInv, ScriptTrue
    <2>5. manifest[Stages[7]] # Blank
        BY <2>4 DEF InStep
    <2>6. Reached(contracts, manifest, script.target, script.admin, 7)
        BY <2>4, <2>5 DEF DeployInv, ManifestTrue, InStep
    <2>7. Reached(contracts, script.ids, script.target, script.admin, 7)
        BY <2>4, <2>6 DEF InStep, Reached, Right
    <2>8. ScriptTrue(contracts, manifest', script')
        BY <2>1, <2>2, <2>4, <2>7 DEF ScriptTrue
    <2>9. ManifestTrue(contracts, manifest')
        BY <2>1 DEF ManifestTrue
    <2>. QED BY <2>1, <2>2, <2>3, <2>8, <2>9, ScriptMoves
<1>4. CASE WriteEnv
    <2>1. /\ contracts' = contracts /\ manifest' = manifest /\ script.at = "env" /\ script' = NotDeploying
          /\ envFile' = [target |-> script.target, admin |-> script.admin, ids |-> script.ids]
        BY <1>4 DEF WriteEnv, ScriptAt, Stops
    <2>2. /\ manifest = Blank /\ Reached(contracts, script.ids, script.target, script.admin, 7)
          /\ script.admin \in Admins
        BY <2>1 DEF DeployInv, ScriptTrue
    <2>3. DeployTypeOK'
        BY <2>1 DEF DeployInv, DeployTypeOK, NotDeploying, NoIds
    <2>4. ScriptTrue(contracts', manifest', script') /\ ManifestTrue(contracts', manifest')
        BY <2>1, <2>2 DEF ScriptTrue, ManifestTrue, NotDeploying
    <2>5. script.ids["SAS_ID"] \in 1..Len(contracts) /\ Len(contracts) \in Nat
        BY <2>2 DEF Reached, Right, DeployInv, DeployTypeOK
    <2>6. script.ids["SAS_ID"] # Blank
        BY <2>5, DeploymentAssumption
    <2>7. script'.ids["SAS_ID"] = Blank
        BY <2>1 DEF NotDeploying, NoIds, DeployKeys
    <2>8. envFile'.ids = script.ids /\ envFile'.target = script.target /\ envFile'.admin = script.admin
        BY <2>1
    <2>9. EnvTrue(contracts', manifest', script', envFile')
        BY <2>1, <2>2, <2>6, <2>7, <2>8 DEF EnvTrue
    <2>. QED BY <2>3, <2>4, <2>9 DEF DeployInv
<1>. QED BY <1>1, <1>2, <1>3, <1>4 DEF VerifyBinding

(* The script dies. *)
LEMMA DiesInv == ASSUME DeployInv, Dies PROVE DeployInv'
<1>1. contracts' = contracts /\ manifest' = manifest /\ envFile' = envFile /\ script' = NotDeploying
    BY DEF Dies, Stops
<1>2. contracts' \in Seq(Contract) /\ ManifestTrue(contracts', manifest')
      /\ (envFile' # Blank => Reached(contracts', envFile'.ids, envFile'.target, envFile'.admin, 7))
    BY <1>1 DEF DeployInv, DeployTypeOK, EnvTrue
<1>. QED BY <1>1, <1>2, IdleTrue

(* Every step keeps the invariant. *)
LEMMA DeployNextInv == DeployInv /\ [DeploymentNext]_deploymentVars => DeployInv'
<1>. SUFFICES ASSUME DeployInv, [DeploymentNext]_deploymentVars PROVE DeployInv'
    OBVIOUS
<1>1. ASSUME NEW t \in Targets, NEW a \in Admins, NEW flag \in BOOLEAN,
             StartScript(t, a, flag) \/ DeployAll(t, a, flag)
      PROVE  DeployInv'
    BY <1>1, StartScriptInv DEF DeployAll
<1>2. CASE SaveNetwork
    BY <1>2, SaveNetworkInv
<1>3. CASE SaveAdmin
    BY <1>3, SaveAdminInv
<1>4. CASE SkipStage
    BY <1>4, SkipStageInv
<1>5. CASE SaveStage
    BY <1>5, SaveStageInv
<1>6. CASE VerifyBinding \/ RemoveManifest \/ WriteEnv
    BY <1>6, VerifyInv
<1>7. ASSUME NEW lost \in BOOLEAN, DeployContract(lost) \/ InitialiseContract(lost) \/ BindIndexer(lost)
      PROVE  DeployInv'
    BY <1>7, DeployContractInv, InitialiseContractInv, BindIndexerInv
<1>8. CASE Dies
    BY <1>8, DiesInv
<1>9. ASSUME NEW c \in 1..Len(contracts), StrangerInit(c) PROVE DeployInv'
    BY <1>9, StrangerInitInv
<1>10. CASE UNCHANGED deploymentVars
    BY <1>10 DEF deploymentVars, DeployInv, DeployTypeOK
<1>. QED BY <1>1, <1>2, <1>3, <1>4, <1>5, <1>6, <1>7, <1>8, <1>9, <1>10 DEF DeploymentNext

(* However often deploy.sh is killed, fails or is resumed, and whoever     *)
(* initialises contracts in between, .env and a finished manifest name a   *)
(* complete deployment: for any networks, admins and number of runs.       *)
THEOREM DeploymentsConsistent == DeploymentSpec => []DeploymentConsistent
<1>1. DeploymentInit => DeployInv
    BY DeployInitInv
<1>2. DeployInv /\ [DeploymentNext]_deploymentVars => DeployInv'
    BY DeployNextInv
<1>3. DeployInv => DeploymentConsistent
    BY DeployInvConsistent
<1>. QED BY <1>1, <1>2, <1>3, PTL DEF DeploymentSpec

------------------------------------------------------------------------------
(* The command line.                                                       *)

(* What the order of a command's steps guarantees: the endpoint is found   *)
(* once, and before the network is used; commands that write the           *)
(* configuration look nothing up in it; a result is used right after it is *)
(* fetched.                                                                *)
Online == {"submit", "cached", "fetch", "store", "page", "count", "attestation"}

Words ==
    {"config", "local", "truncate", "write", "url", "read", "decode", "cached", "fetch", "store",
     "key", "dryRun", "pass", "filePass", "submit", "parties", "ledgerClock", "expiration", "page",
     "count", "software", "sign", "signedFile", "prompts", "export", "estimate", "confirm",
     "attestation", "ledgerTime", "schema", "ledger", "device"}

Ordered(p) ==
    /\ p \in Seq(Words)
    /\ \A i, j \in 1..Len(p) :
         /\ p[i] = "url" /\ p[j] = "url" => i = j
         /\ p[j] = "truncate" => p[i] \notin {"url", "pass", "filePass"}
    /\ \A j \in 1..Len(p) : j > 1 =>
         /\ p[j] = "store" => p[j - 1] = "fetch"
         /\ p[j] = "ledgerTime" => p[j - 1] = "attestation"
         /\ p[j] = "schema" => p[j - 1] = "ledgerTime"

Located(p, url) ==
    url = Unset => \A j \in 1..Len(p) : p[j] \in Online => \E i \in 1..(j - 1) : p[i] = "url"

Program(p) ==
    /\ Ordered(p) /\ Located(p, Unset) /\ p # <<>>
    /\ p[1] \notin {"store", "ledgerTime", "schema"}

(* Every command is a program of this kind. *)
LEMMA CommandsOrdered == \A c \in Commands : Program(c.steps)
<1>1. Program(<<"config">>)
    BY DEF Program, Ordered, Located, Online, Words
<1>2. Program(<<"local">>)
    BY DEF Program, Ordered, Located, Online, Words
<1>3. Program(<<"config", "truncate", "write">>)
    BY DEF Program, Ordered, Located, Online, Words
<1>4. Program(<<"url", "local", "read", "read", "decode">>)
    BY DEF Program, Ordered, Located, Online, Words
<1>5. Program(<<"url", "cached">>)
    BY DEF Program, Ordered, Located, Online, Words
<1>6. Program(<<"local", "key", "url", "dryRun", "pass", "submit">>)
    BY DEF Program, Ordered, Located, Online, Words
<1>7. Program(<<"key", "url", "dryRun", "pass", "submit">>)
    BY DEF Program, Ordered, Located, Online, Words
<1>8. Program(<<"key", "pass", "url", "parties", "ledgerClock", "submit">>)
    BY DEF Program, Ordered, Located, Online, Words
<1>9. Program(<<"key", "pass", "url", "local", "parties", "expiration", "submit">>)
    BY DEF Program, Ordered, Located, Online, Words
<1>10. Program(<<"key", "pass", "url", "local", "submit">>)
    BY DEF Program, Ordered, Located, Online, Words
<1>11. Program(<<"url", "local", "read">>)
    BY DEF Program, Ordered, Located, Online, Words
<1>12. Program(<<"local", "url", "page", "count">>)
    BY DEF Program, Ordered, Located, Online, Words
<1>12a. Program(<<"local", "url", "read">>)
    BY DEF Program, Ordered, Located, Online, Words
<1>13. Program(<<"software", "key", "pass", "local", "sign">>)
    BY DEF Program, Ordered, Located, Online, Words
<1>14. Program(<<"software", "key", "url", "signedFile", "parties", "filePass", "submit">>)
    BY DEF Program, Ordered, Located, Online, Words
<1>15. Program(<<"software", "key", "url", "local", "filePass", "submit">>)
    BY DEF Program, Ordered, Located, Online, Words
<1>16. Program(<<"prompts", "export", "prompts", "key", "pass", "url", "submit">>)
    BY DEF Program, Ordered, Located, Online, Words
<1>17. Program(<<"key", "url", "pass", "prompts", "estimate", "confirm", "submit">>)
    BY DEF Program, Ordered, Located, Online, Words
<1>18. Program(<<"software", "signedFile">>)
    BY DEF Program, Ordered, Located, Online, Words
<1>19. Program(<<"software", "signedFile", "pass", "url", "local", "attestation", "ledgerTime", "schema">>)
    BY DEF Program, Ordered, Located, Online, Words
<1>20. Program(<<"ledger", "pass", "local", "device", "sign">>)
    BY DEF Program, Ordered, Located, Online, Words
<1>21. \A c \in ConfigReads : Program(c.steps)
    BY <1>1, <1>2 DEF ConfigReads, Command
<1>22. \A c \in ConfigUse : Program(c.steps)
    BY <1>3 DEF ConfigUse, Command
<1>23. \A c \in SasDecode : Program(c.steps)
    BY <1>4 DEF SasDecode, Command
<1>24. \A c \in SasFees : Program(c.steps)
    BY <1>5, <1>6, <1>7 DEF SasFees, Command
<1>25. \A c \in AttestOne : Program(c.steps)
    BY <1>8 DEF AttestOne, Command
<1>26. \A c \in AttestFile : Program(c.steps)
    BY <1>9 DEF AttestFile, Command
<1>27. \A c \in AttestRevoke : Program(c.steps)
    BY <1>10 DEF AttestRevoke, Command
<1>28. \A c \in AttestVerify : Program(c.steps)
    BY <1>11 DEF AttestVerify, Command
<1>29. \A c \in AttestReplace : Program(c.steps)
    BY <1>9 DEF AttestReplace, Command
<1>30. \A c \in Queries : Program(c.steps)
    BY <1>12, <1>12a DEF Queries, Command
<1>31. \A c \in DelegateSign : Program(c.steps)
    BY <1>13 DEF DelegateSign, Command
<1>32. \A c \in DelegateSubmit : Program(c.steps)
    BY <1>14, <1>15 DEF DelegateSubmit, Command
<1>33. \A c \in SchemaLint : Program(c.steps)
    BY <1>2 DEF SchemaLint, Command
<1>34. \A c \in SchemaRegister : Program(c.steps)
    BY <1>6 DEF SchemaRegister, Command
<1>35. \A c \in SchemaInteractive : Program(c.steps)
    BY <1>16 DEF SchemaInteractive, Command
<1>36. \A c \in SchemaWizard : Program(c.steps)
    BY <1>17 DEF SchemaWizard, Command
<1>37. \A c \in SchemaGets : Program(c.steps)
    BY <1>5 DEF SchemaGets, Command
<1>38. \A c \in SchemaRegisterWithValue : Program(c.steps)
    BY <1>6 DEF SchemaRegisterWithValue, Command
<1>39. \A c \in SchemaFees : Program(c.steps)
    BY <1>7 DEF SchemaFees, Command
<1>40. \A c \in SchemaTreasury : Program(c.steps)
    BY <1>6, <1>7 DEF SchemaTreasury, Command
<1>41. \A c \in SchemaFeeGets : Program(c.steps)
    BY <1>5 DEF SchemaFeeGets, Command
<1>42. \A c \in OffchainSign : Program(c.steps)
    BY <1>13 DEF OffchainSign, Command
<1>43. \A c \in OffchainVerify : Program(c.steps)
    BY <1>18, <1>19 DEF OffchainVerify, Command
<1>44. \A c \in LedgerSign : Program(c.steps)
    BY <1>20 DEF LedgerSign, Command
<1>. QED BY <1>21, <1>22, <1>23, <1>24, <1>25, <1>26, <1>27, <1>28, <1>29, <1>30, <1>31, <1>32,
        <1>33, <1>34, <1>35, <1>36, <1>37, <1>38, <1>39, <1>40, <1>41, <1>42, <1>43, <1>44 DEF Commands

(* What is left of a program is one. *)
LEMMA RestOrdered ==
    ASSUME NEW p, Ordered(p), p # <<>>
    PROVE  /\ Ordered(Tail(p)) /\ p[1] = Head(p) /\ Len(p) \in Nat \ {0} /\ Len(Tail(p)) = Len(p) - 1
           /\ \A j \in 1..Len(Tail(p)) : Tail(p)[j] = p[j + 1] /\ j + 1 \in 1..Len(p)
<1>1. p \in Seq(Words)
    BY DEF Ordered
<1>2. PICK q : q = Tail(p)
    OBVIOUS
<1>3. /\ q \in Seq(Words) /\ p[1] = Head(p) /\ Len(p) \in Nat \ {0} /\ Len(q) = Len(p) - 1
      /\ \A j \in 1..Len(q) : q[j] = p[j + 1] /\ j + 1 \in 1..Len(p)
    BY <1>1, <1>2
<1>4. \A i, j \in 1..Len(q) :
         /\ q[i] = "url" /\ q[j] = "url" => i = j
         /\ q[j] = "truncate" => q[i] \notin {"url", "pass", "filePass"}
    BY <1>3 DEF Ordered
<1>5. ASSUME NEW j \in 1..Len(q), j > 1
      PROVE  /\ q[j] = "store" => q[j - 1] = "fetch"
             /\ q[j] = "ledgerTime" => q[j - 1] = "attestation"
             /\ q[j] = "schema" => q[j - 1] = "ledgerTime"
    <2>1. j - 1 \in 1..Len(q) /\ (j - 1) + 1 = j /\ j + 1 \in 1..Len(p) /\ (j + 1) - 1 = j /\ j + 1 > 1
        BY <1>3, <1>5
    <2>2. q[j] = p[j + 1] /\ q[j - 1] = p[j]
        BY <1>3, <2>1
    <2>. QED BY <2>1, <2>2 DEF Ordered
<1>6. Ordered(q)
    BY <1>3, <1>4, <1>5 DEF Ordered
<1>. QED BY <1>2, <1>3, <1>6

(* Past a step other than "url", what needs an endpoint still has one. *)
LEMMA RestLocated ==
    ASSUME NEW p, Ordered(p), p # <<>>, NEW url, Located(p, url), p[1] # "url"
    PROVE  Located(Tail(p), url)
<1>. SUFFICES ASSUME url = Unset, NEW j \in 1..Len(Tail(p)), Tail(p)[j] \in Online
              PROVE  \E i \in 1..(j - 1) : Tail(p)[i] = "url"
    BY DEF Located
<1>1. /\ Len(p) \in Nat \ {0} /\ Len(Tail(p)) = Len(p) - 1
      /\ \A k \in 1..Len(Tail(p)) : Tail(p)[k] = p[k + 1] /\ k + 1 \in 1..Len(p)
    BY RestOrdered
<1>2. PICK i \in 1..((j + 1) - 1) : p[i] = "url"
    BY <1>1 DEF Located
<1>3. i - 1 \in 1..(j - 1) /\ i - 1 \in 1..Len(Tail(p)) /\ (i - 1) + 1 = i
    BY <1>1, <1>2
<1>. QED BY <1>1, <1>2, <1>3

ShellFields ==
    {"todo", "flags", "url", "pass", "answer", "value", "as_of", "lag", "at", "page", "pages",
     "seen", "landed", "moved"}

ShellTyped(r) ==
    /\ DOMAIN r = ShellFields
    /\ Ordered(r.todo)
    /\ r.url \in Networks \cup {Unset}
    /\ r.page \in Seq(Nat) /\ r.pages \in Seq(Nat)

(* A command at work has told nothing, and will not look up what it has. *)
AtWork(r) ==
    r.todo # <<>> =>
      /\ r.answer = "none" /\ r.landed = Unset
      /\ r.flags.rpc_url \in Networks \cup {Unset}
      /\ Located(r.todo, r.url)
      /\ \A j \in 1..Len(r.todo) :
           /\ r.todo[j] = "url" => r.url = Unset
           /\ r.todo[j] = "truncate" => r.url = Unset /\ r.pass = Unset

(* What the flags and this configuration stand for. *)
SourceOf(conf, f, field) ==
    IF f.network # Unset THEN (IF f.network \in Networks THEN f.network ELSE Unset)
    ELSE LET name == IF f.profile # Unset THEN f.profile ELSE conf
         IN  IF conf = TornFile \/ name \notin DOMAIN Profiles THEN Unset ELSE Profiles[name][field]

Excused(r) ==
    \/ r.moved \/ r.flags.rpc_url # Unset \/ r.flags.network_passphrase # Unset
    \/ r.flags.file = r.pass
    \/ \E p \in DOMAIN Profiles : Profiles[p].rpc_url # Profiles[p].network_passphrase

(* Settings come from the flags or from the configuration, which has been  *)
(* the same since the command began unless the shell is marked as moved.   *)
SettingsTrue(r, conf) ==
    /\ r.url # Unset /\ r.flags.rpc_url = Unset => r.url \in Chosen(r.flags, "rpc_url")
    /\ r.todo # <<>> /\ ~r.moved =>
         /\ r.url # Unset /\ r.flags.rpc_url = Unset => r.url = SourceOf(conf, r.flags, "rpc_url")
         /\ r.pass # Unset /\ r.flags.network_passphrase = Unset /\ r.pass # r.flags.file =>
              r.pass = SourceOf(conf, r.flags, "network_passphrase")
    /\ r.url # Unset /\ r.pass # Unset /\ r.url # r.pass => Excused(r)

LandedTrue(r) ==
    /\ r.landed # Unset => r.answer \in {"success", "unsure"} /\ r.url = r.landed /\ r.pass = r.landed
    /\ r.answer = "success" => r.landed # Unset

(* The pages are the index from its beginning, and not ahead of it. *)
PagesTrue(r, ch) ==
    /\ r.url = Unset => r.page = <<>> /\ r.pages = <<>>
    /\ \A i \in 1..Len(r.pages) : r.pages[i] = i
    /\ \A i \in 1..Len(r.page) : r.page[i] = Len(r.pages) + i
    /\ r.url # Unset => Len(r.pages) + Len(r.page) <= ch[r.url].history
    /\ r.answer = "listed" => Len(r.pages) = r.value

Current(ch, n, v, t) ==
    /\ v \in 1..Len(ch[n].since) /\ ch[n].since[v] <= t
    /\ v + 1 \in 1..Len(ch[n].since) => t <= ch[n].since[v + 1]

Sights == [found : BOOLEAN, revoked : BOOLEAN, expired : BOOLEAN, holds : BOOLEAN]

(* What was fetched and is to be used in the next step. *)
FetchedTrue(r, ch, clk) ==
    r.todo # <<>> =>
      /\ r.todo[1] = "store" => r.as_of \in Nat /\ r.as_of <= clk /\ Current(ch, r.url, r.value, r.as_of)
      /\ r.todo[1] = "ledgerTime" =>
           /\ r.seen \in Sights
           /\ r.seen.found /\ ~r.seen.revoked => r.seen.holds \/ (expiration # 0 /\ expiration <= clk)
      /\ r.todo[1] = "schema" =>
           r.seen \in Sights /\ (r.seen.found /\ ~r.seen.expired /\ ~r.seen.revoked => r.seen.holds)

AnswerTrue(r, ch, clk) ==
    /\ r.answer = "answer" =>
         /\ r.url # Unset /\ r.as_of \in Nat /\ r.as_of <= clk /\ Current(ch, r.url, r.value, r.as_of)
         /\ r.at - r.as_of <= cache_ttl + r.lag
    /\ r.answer = "valid" => r.seen.holds /\ r.flags.file = r.pass

ShellTrue(r, conf, ch, clk) ==
    /\ ShellTyped(r) /\ AtWork(r) /\ SettingsTrue(r, conf) /\ LandedTrue(r)
    /\ PagesTrue(r, ch) /\ FetchedTrue(r, ch, clk) /\ AnswerTrue(r, ch, clk)

ChainTrue(ch, clk) ==
    /\ ch \in [Networks -> [since : Seq(Nat), history : Nat, attestation : {"none", "live", "revoked"}]]
    /\ \A n \in Networks :
         Len(ch[n].since) >= 1 /\ \A v \in 1..Len(ch[n].since) : ch[n].since[v] <= clk

CacheTrue(cf, ch, clk) ==
    /\ cf = [n \in Networks |-> cf[n]]
    /\ \A n \in Networks : cf[n] # Unset =>
         /\ cf[n].cached_at \in Nat /\ cf[n].as_of \in Nat
         /\ cf[n].as_of <= cf[n].cached_at /\ cf[n].cached_at <= clk
         /\ Current(ch, n, cf[n].answer, cf[n].as_of)

CliInv ==
    /\ clock \in Nat /\ ChainTrue(chain, clock) /\ CacheTrue(cacheFile, chain, clock)
    /\ shell = [s \in Shells |-> shell[s]]
    /\ \A s \in Shells : ShellTrue(shell[s], configFile, chain, clock)

------------------------------------------------------------------------------
(* A shell at rest, and one that ended with nothing but its word. *)
Bare(r) ==
    /\ DOMAIN r = ShellFields /\ r.todo = <<>> /\ r.url = Unset /\ r.pass = Unset
    /\ r.answer \notin {"success", "listed", "answer", "valid"}
    /\ r.page = <<>> /\ r.pages = <<>> /\ r.landed = Unset

(* Nothing it says can be wrong. *)
LEMMA WordTrue ==
    ASSUME NEW conf, NEW ch, NEW clk, NEW r, Bare(r)
    PROVE  ShellTrue(r, conf, ch, clk)
<1>2. /\ DOMAIN r = ShellFields /\ r.todo = <<>> /\ r.url = Unset /\ r.pass = Unset
      /\ r.answer \notin {"success", "listed", "answer", "valid"}
      /\ r.page = <<>> /\ r.pages = <<>> /\ r.landed = Unset
    BY DEF Bare
<1>3. ShellTyped(r)
    <2>1. Ordered(<<>>)
        BY DEF Ordered, Words
    <2>. QED BY <1>2, <2>1 DEF ShellTyped
<1>4. AtWork(r) /\ FetchedTrue(r, ch, clk)
    BY <1>2 DEF AtWork, FetchedTrue
<1>5. SettingsTrue(r, conf) /\ LandedTrue(r)
    BY <1>2 DEF SettingsTrue, LandedTrue
<1>6. PagesTrue(r, ch)
    BY <1>2 DEF PagesTrue
<1>7. AnswerTrue(r, ch, clk)
    BY <1>2 DEF AnswerTrue
<1>. QED BY <1>3, <1>4, <1>5, <1>6, <1>7 DEF ShellTrue

(* Networks change by appending a version, and time goes on. *)
Grown(ch, dh, clk) ==
    \A n \in Networks :
      /\ ch[n].history <= dh[n].history
      /\ dh[n].since = ch[n].since \/ dh[n].since = Append(ch[n].since, clk)

(* An answer that was current once, was. *)
LEMMA CurrentKept ==
    ASSUME NEW ch, NEW dh, NEW clk \in Nat, ChainTrue(ch, clk), ChainTrue(dh, clk), Grown(ch, dh, clk),
           NEW n \in Networks, NEW v, NEW t \in Nat, t <= clk, Current(ch, n, v, t)
    PROVE  Current(dh, n, v, t)
<1>1. ch[n].since \in Seq(Nat) /\ Len(ch[n].since) \in Nat
    BY DEF ChainTrue
<1>2. CASE dh[n].since = ch[n].since
    BY <1>2 DEF Current
<1>3. CASE dh[n].since = Append(ch[n].since, clk)
    <2>1. PICK a, b : a = ch[n].since /\ b = dh[n].since
        OBVIOUS
    <2>2. /\ a \in Seq(Nat) /\ b = Append(a, clk) /\ Len(a) \in Nat /\ Len(b) = Len(a) + 1
          /\ \A i \in 1..Len(a) : b[i] = a[i]
          /\ b[Len(a) + 1] = clk
        BY <1>1, <1>3, <2>1
    <2>3. v \in 1..Len(a) /\ a[v] <= t /\ (v + 1 \in 1..Len(a) => t <= a[v + 1])
        BY <2>1 DEF Current
    <2>4. v \in 1..Len(b) /\ b[v] <= t /\ (v + 1 \in 1..Len(b) => t <= b[v + 1])
        BY <2>2, <2>3
    <2>. QED BY <2>1, <2>4 DEF Current
<1>. QED BY <1>2, <1>3 DEF Grown

(* A shell that does nothing, while the networks and the clock move. *)
LEMMA ShellKept ==
    ASSUME NEW ch, NEW dh, NEW clk \in Nat, NEW clk2 \in Nat, clk <= clk2, ChainTrue(ch, clk),
           ChainTrue(dh, clk), Grown(ch, dh, clk), NEW r, NEW conf, ShellTrue(r, conf, ch, clk)
    PROVE  ShellTrue(r, conf, dh, clk2)
<1>1. ShellTyped(r) /\ AtWork(r) /\ SettingsTrue(r, conf) /\ LandedTrue(r)
    BY DEF ShellTrue
<1>2. PagesTrue(r, dh)
    <2>1. r.url # Unset => r.url \in Networks /\ ch[r.url].history \in Nat /\ dh[r.url].history \in Nat
                           /\ ch[r.url].history <= dh[r.url].history
        BY <1>1 DEF ShellTyped, ChainTrue, Grown
    <2>2. r.pages \in Seq(Nat) /\ r.page \in Seq(Nat)
        BY <1>1 DEF ShellTyped
    <2>3. PagesTrue(r, ch)
        BY DEF ShellTrue
    <2>4. r.url # Unset => Len(r.pages) + Len(r.page) <= ch[r.url].history
        BY <2>3 DEF PagesTrue
    <2>5. ASSUME r.url # Unset PROVE Len(r.pages) + Len(r.page) <= dh[r.url].history
        <3>1. PICK a \in Nat, b \in Nat, c \in Nat, d \in Nat :
                /\ a = Len(r.pages) /\ b = Len(r.page)
                /\ c = ch[r.url].history /\ d = dh[r.url].history /\ c <= d
            BY <2>1, <2>2, <2>5
        <3>2. a + b <= c
            BY <2>2, <2>4, <2>5, <3>1
        <3>3. c <= d
            BY <3>1
        <3>4. a + b <= d
            BY <3>2, <3>3
        <3>. QED BY <3>1, <3>4
    <2>. QED BY <2>3, <2>5 DEF PagesTrue
<1>3. FetchedTrue(r, dh, clk2)
    <2>. SUFFICES ASSUME r.todo # <<>> PROVE FetchedTrue(r, dh, clk2)
        BY DEF FetchedTrue
    <2>1. ASSUME r.todo[1] = "store"
          PROVE  r.as_of \in Nat /\ r.as_of <= clk2 /\ Current(dh, r.url, r.value, r.as_of)
        <3>1. r.as_of \in Nat /\ r.as_of <= clk /\ Current(ch, r.url, r.value, r.as_of)
            BY <2>1 DEF ShellTrue, FetchedTrue
        <3>2. Len(r.todo) \in Nat \ {0} /\ "store" \in Online
            BY <1>1, RestOrdered DEF ShellTyped, Online
        <3>3. Located(r.todo, r.url)
            BY <1>1 DEF AtWork
        <3>4. 1 \in 1..Len(r.todo) /\ 1..(1 - 1) = {}
            BY <3>2
        <3>5. r.url # Unset
            BY <2>1, <3>2, <3>3, <3>4 DEF Located
        <3>6. r.url \in Networks
            BY <1>1, <3>5 DEF ShellTyped
        <3>. QED BY <3>1, <3>6, CurrentKept
    <2>2. ASSUME r.todo[1] = "ledgerTime"
          PROVE  /\ r.seen \in Sights
                 /\ r.seen.found /\ ~r.seen.revoked => r.seen.holds \/ (expiration # 0 /\ expiration <= clk2)
        BY <2>2, CliAssumption DEF ShellTrue, FetchedTrue
    <2>3. r.todo[1] = "schema" =>
           r.seen \in Sights /\ (r.seen.found /\ ~r.seen.expired /\ ~r.seen.revoked => r.seen.holds)
        BY DEF ShellTrue, FetchedTrue
    <2>. QED BY <2>1, <2>2, <2>3 DEF FetchedTrue
<1>4. AnswerTrue(r, dh, clk2)
    <2>1. ASSUME r.answer = "answer"
          PROVE  /\ r.url # Unset /\ r.as_of \in Nat /\ r.as_of <= clk2 /\ Current(dh, r.url, r.value, r.as_of)
                 /\ r.at - r.as_of <= cache_ttl + r.lag
        <3>1. /\ r.url # Unset /\ r.as_of \in Nat /\ r.as_of <= clk /\ Current(ch, r.url, r.value, r.as_of)
              /\ r.at - r.as_of <= cache_ttl + r.lag
            BY <2>1 DEF ShellTrue, AnswerTrue
        <3>2. r.url \in Networks
            BY <1>1, <3>1 DEF ShellTyped
        <3>3. Current(dh, r.url, r.value, r.as_of) /\ r.as_of <= clk2
            BY <3>1, <3>2, CurrentKept
        <3>. QED BY <3>1, <3>3
    <2>. QED BY <2>1 DEF ShellTrue, AnswerTrue
<1>. QED BY <1>1, <1>2, <1>3, <1>4 DEF ShellTrue

(* A shell whose configuration is rewritten under it. *)
LEMMA MovedTrue ==
    ASSUME NEW conf, NEW conf2, NEW ch, NEW clk, NEW r, ShellTrue(r, conf, ch, clk)
    PROVE  ShellTrue(Moved(r), conf2, ch, clk)
<1>1. CASE r.todo = <<>>
    BY <1>1 DEF Moved, ShellTrue, SettingsTrue
<1>2. CASE r.todo # <<>>
    <2>1. PICK q : q = [r EXCEPT !.moved = TRUE]
        OBVIOUS
    <2>2. /\ DOMAIN q = ShellFields /\ q.moved /\ q.todo = r.todo /\ q.flags = r.flags /\ q.url = r.url
          /\ q.pass = r.pass /\ q.answer = r.answer /\ q.value = r.value /\ q.as_of = r.as_of
          /\ q.lag = r.lag /\ q.at = r.at /\ q.page = r.page /\ q.pages = r.pages /\ q.seen = r.seen
          /\ q.landed = r.landed
        BY <2>1 DEF ShellTrue, ShellTyped, ShellFields
    <2>3. ShellTyped(q) /\ AtWork(q) /\ LandedTrue(q)
        BY <2>2 DEF ShellTrue, ShellTyped, AtWork, LandedTrue
    <2>4. SettingsTrue(q, conf2)
        BY <2>2 DEF ShellTrue, SettingsTrue, Excused
    <2>5. PagesTrue(q, ch)
        <3>1. PICK u, page, pages, answer, value :
                /\ u = r.url /\ page = r.page /\ pages = r.pages /\ answer = r.answer /\ value = r.value
                /\ u = q.url /\ page = q.page /\ pages = q.pages /\ answer = q.answer /\ value = q.value
            BY <2>2
        <3>2. PagesTrue(r, ch)
            BY DEF ShellTrue
        <3>. QED BY <3>1, <3>2, Zenon DEF PagesTrue
    <2>6. FetchedTrue(q, ch, clk)
        BY <2>2 DEF ShellTrue, FetchedTrue
    <2>7. AnswerTrue(q, ch, clk)
        BY <2>2 DEF ShellTrue, AnswerTrue
    <2>. QED BY <1>2, <2>1, <2>3, <2>4, <2>5, <2>6, <2>7 DEF Moved, ShellTrue
<1>. QED BY <1>1, <1>2

(* A record that differs from r in what is left to do, and perhaps in      *)
(* value, as_of and seen.                                                  *)
Alongside(q, r) ==
    /\ DOMAIN q = ShellFields /\ q.flags = r.flags /\ q.url = r.url /\ q.pass = r.pass
    /\ q.answer = r.answer /\ q.page = r.page /\ q.pages = r.pages
    /\ q.landed = r.landed /\ q.moved = r.moved

(* A step of a running command that only goes on: fetched values are       *)
(* judged by what comes next.                                              *)
LEMMA GoesOn ==
    ASSUME NEW conf, NEW ch, NEW clk, NEW r, ShellTrue(r, conf, ch, clk), r.todo # <<>>,
           NEW q, Alongside(q, r), q.todo = Tail(r.todo), Head(r.todo) # "url",
           FetchedTrue(q, ch, clk)
    PROVE  ShellTrue(q, conf, ch, clk)
<1>1. Ordered(r.todo) /\ ShellTyped(r) /\ AtWork(r)
    BY DEF ShellTrue, ShellTyped
<1>2. PICK p : p = r.todo
    OBVIOUS
<1>3. /\ Ordered(Tail(p)) /\ p[1] = Head(p) /\ Len(p) \in Nat \ {0} /\ Len(Tail(p)) = Len(p) - 1
      /\ \A j \in 1..Len(Tail(p)) : Tail(p)[j] = p[j + 1] /\ j + 1 \in 1..Len(p)
    BY <1>1, <1>2, RestOrdered
<1>4. Located(q.todo, q.url)
    <2>1. PICK u : u = r.url
        OBVIOUS
    <2>2. Located(p, u) /\ p[1] # "url" /\ p # <<>> /\ Ordered(p)
        BY <1>1, <1>2, <1>3, <2>1 DEF AtWork
    <2>3. Located(Tail(p), u)
        BY <2>2, RestLocated
    <2>. QED BY <1>2, <2>1, <2>3 DEF Alongside
<1>5. ShellTyped(q)
    BY <1>1, <1>2, <1>3 DEF ShellTyped, Alongside
<1>6. AtWork(q)
    BY <1>1, <1>2, <1>3, <1>4 DEF AtWork, Alongside
<1>7. SettingsTrue(q, conf)
    BY DEF ShellTrue, SettingsTrue, Excused, Alongside
<1>8. LandedTrue(q) /\ PagesTrue(q, ch) /\ AnswerTrue(q, ch, clk)
    <2>1. q.answer = "none" /\ q.landed = Unset /\ q.page = r.page /\ q.pages = r.pages /\ q.url = r.url
        BY <1>1 DEF AtWork, Alongside
    <2>. QED BY <2>1 DEF ShellTrue, LandedTrue, PagesTrue, AnswerTrue
<1>. QED BY <1>5, <1>6, <1>7, <1>8 DEF ShellTrue

(* A step that uses what was fetched comes right after the fetch. *)
LEMMA Follows ==
    ASSUME NEW p, Ordered(p), p # <<>>, Tail(p) # <<>>
    PROVE  /\ Tail(p)[1] = "store" => Head(p) = "fetch"
           /\ Tail(p)[1] = "ledgerTime" => Head(p) = "attestation"
           /\ Tail(p)[1] = "schema" => Head(p) = "ledgerTime"
<1>1. /\ Ordered(Tail(p)) /\ p[1] = Head(p) /\ Len(p) \in Nat \ {0} /\ Len(Tail(p)) = Len(p) - 1
      /\ \A j \in 1..Len(Tail(p)) : Tail(p)[j] = p[j + 1] /\ j + 1 \in 1..Len(p)
    BY RestOrdered
<1>2. Len(Tail(p)) \in Nat \ {0}
    BY <1>1, RestOrdered
<1>3. Tail(p)[1] = p[2] /\ 2 \in 1..Len(p) /\ 2 > 1 /\ 2 - 1 = 1
    BY <1>1, <1>2
<1>. QED BY <1>1, <1>3 DEF Ordered

(* A step that is not a fetch leads to no step that uses one. *)
LEMMA NothingFetched ==
    ASSUME NEW p, Ordered(p), p # <<>>, Head(p) \notin {"fetch", "attestation", "ledgerTime"},
           Tail(p) # <<>>
    PROVE  Tail(p)[1] \notin {"store", "ledgerTime", "schema"}
BY Follows

(* The steps that look nothing up. *)
LEMMA OnwardTrue ==
    ASSUME NEW conf, NEW ch, NEW clk, NEW r, ShellTrue(r, conf, ch, clk), r.todo # <<>>,
           Head(r.todo) \notin {"url", "fetch", "attestation", "ledgerTime"},
           NEW q, Alongside(q, r), q.todo = Tail(r.todo)
    PROVE  ShellTrue(q, conf, ch, clk)
<1>1. Ordered(r.todo)
    BY DEF ShellTrue, ShellTyped
<1>2. PICK p : p = r.todo
    OBVIOUS
<1>3. Tail(p) # <<>> => Tail(p)[1] \notin {"store", "ledgerTime", "schema"}
    BY <1>1, <1>2, NothingFetched
<1>4. FetchedTrue(q, ch, clk)
    BY <1>2, <1>3 DEF FetchedTrue
<1>. QED BY <1>4, GoesOn

------------------------------------------------------------------------------
(* At the start all shells are at rest and the caches empty. *)
LEMMA CliInitInv == CliInit => CliInv
<1>. SUFFICES ASSUME CliInit PROVE CliInv
    OBVIOUS
<1>1. clock \in Nat /\ clock = 0
    BY DEF CliInit
<1>2. ChainTrue(chain, clock)
    <2>1. PICK z : z = <<0>>
        OBVIOUS
    <2>2. z \in Seq(Nat) /\ Len(z) = 1 /\ z[1] = 0
        BY <2>1
    <2>3. chain = [n \in Networks |-> [since |-> z, history |-> 0, attestation |-> "none"]]
        BY <2>1 DEF CliInit
    <2>4. PICK rec : rec = [since |-> z, history |-> 0, attestation |-> "none"]
        OBVIOUS
    <2>5. rec \in [since : Seq(Nat), history : Nat, attestation : {"none", "live", "revoked"}] /\ rec.since = z
        BY <2>2, <2>4
    <2>6. chain = [n \in Networks |-> rec]
        BY <2>3, <2>4
    <2>7. 0 <= clock /\ 1 >= 1 /\ \A v \in 1..1 : v = 1
        BY <1>1
    <2>. QED BY <2>2, <2>5, <2>6, <2>7 DEF ChainTrue
<1>3. CacheTrue(cacheFile, chain, clock)
    BY DEF CliInit, CacheTrue
<1>4. shell = [s \in Shells |-> shell[s]] /\ \A s \in Shells : shell[s] = AtRest
    BY DEF CliInit
<1>5. Bare(AtRest)
    BY DEF Bare, AtRest, ShellFields
<1>6. \A s \in Shells : ShellTrue(shell[s], configFile, chain, clock)
    BY <1>4, <1>5, WordTrue
<1>. QED BY <1>1, <1>2, <1>3, <1>4, <1>6 DEF CliInv

Surroundings == <<configFile, clock, chain, cacheFile>>

(* One shell moves, and nothing around it. *)
LEMMA OneShell ==
    ASSUME CliInv, NEW s \in Shells, NEW r, ShellTrue(r, configFile, chain, clock),
           Becomes(s, r), UNCHANGED Surroundings
    PROVE  CliInv'
<1>1. /\ configFile' = configFile /\ clock' = clock /\ chain' = chain /\ cacheFile' = cacheFile
      /\ shell' = [shell EXCEPT ![s] = r]
    BY DEF Surroundings, Becomes
<1>2. /\ shell' = [t \in Shells |-> shell'[t]]
      /\ \A t \in Shells : shell'[t] = IF t = s THEN r ELSE shell[t]
    BY <1>1 DEF CliInv
<1>3. \A t \in Shells : ShellTrue(shell'[t], configFile, chain, clock)
    BY <1>2 DEF CliInv
<1>. QED BY <1>1, <1>2, <1>3 DEF CliInv

(* A command ends with its word. *)
LEMMA EndsInv ==
    ASSUME CliInv, NEW s \in Shells, shell[s].todo # <<>>, NEW word,
           word \notin {"success", "listed", "answer", "valid"},
           EndsWith(s, word), UNCHANGED Surroundings
    PROVE  CliInv'
<1>1. shell[s].landed = Unset
    BY DEF CliInv, ShellTrue, AtWork
<1>2. PICK r : r = [AtRest EXCEPT !.answer = word, !.landed = shell[s].landed]
    OBVIOUS
<1>3. Bare(r)
    BY <1>1, <1>2 DEF Bare, AtRest, ShellFields
<1>4. Becomes(s, r)
    BY <1>2 DEF EndsWith
<1>5. PICK conf, ch, clk : conf = configFile /\ ch = chain /\ clk = clock
    OBVIOUS
<1>6. ShellTrue(r, conf, ch, clk)
    BY <1>3, WordTrue
<1>. QED BY <1>4, <1>5, <1>6, OneShell

(* A command goes on, or is at its end. *)
LEMMA ContinuesInv ==
    ASSUME CliInv, NEW s \in Shells, shell[s].todo # <<>>, NEW q,
           ShellTrue(q, configFile, chain, clock), Continues(s, q), UNCHANGED Surroundings
    PROVE  CliInv'
<1>1. CASE q.todo = <<>>
    BY <1>1, EndsInv DEF Continues
<1>2. CASE q.todo # <<>>
    BY <1>2, OneShell DEF Continues
<1>. QED BY <1>1, <1>2

(* What is left after a step that looks nothing up. *)
LEMMA OnwardShell ==
    ASSUME CliInv, NEW s \in Shells, shell[s].todo # <<>>,
           Head(shell[s].todo) \notin {"url", "fetch", "attestation", "ledgerTime"}
    PROVE  ShellTrue(Onward(s), configFile, chain, clock)
<1>1. PICK conf, ch, clk, r, q :
        conf = configFile /\ ch = chain /\ clk = clock /\ r = shell[s] /\ q = [r EXCEPT !.todo = Tail(@)]
    OBVIOUS
<1>2. ShellTrue(r, conf, ch, clk) /\ DOMAIN r = ShellFields
    BY <1>1 DEF CliInv, ShellTrue, ShellTyped
<1>3. Alongside(q, r) /\ q.todo = Tail(r.todo)
    BY <1>1, <1>2 DEF Alongside, ShellFields
<1>4. ShellTrue(q, conf, ch, clk)
    BY <1>1, <1>2, <1>3, OnwardTrue
<1>. QED BY <1>1, <1>4 DEF Onward

(* A step that decides between going on and refusing. *)
LEMMA PassesInv ==
    ASSUME CliInv, NEW s \in Shells, NEW step,
           step \notin {"url", "fetch", "attestation", "ledgerTime"}, Doing(s, step),
           Continues(s, Onward(s)) \/ Refuse(s), UNCHANGED Surroundings
    PROVE  CliInv'
<1>1. shell[s].todo # <<>> /\ Head(shell[s].todo) = step
    BY DEF Doing
<1>2. CASE Continues(s, Onward(s))
    <2>1. PICK q : q = Onward(s)
        OBVIOUS
    <2>2. ShellTrue(q, configFile, chain, clock)
        BY <1>1, <2>1, OnwardShell
    <2>. QED BY <1>1, <1>2, <2>1, <2>2, ContinuesInv
<1>3. CASE Refuse(s)
    BY <1>1, <1>3, EndsInv DEF Refuse
<1>. QED BY <1>2, <1>3

(* The steps that check something locally. *)
LEMMA LocalInv ==
    ASSUME CliInv, NEW s \in Shells, NEW good \in BOOLEAN,
           \/ Local(s, good) \/ Parties(s, good) \/ SignedFile(s, good) \/ SignFile(s, good)
           \/ Decode(s, good) \/ Prompts(s, good) \/ Device(s, good)
           \/ Key(s, good) \/ LoadConfig(s, good) \/ LedgerClock(s, good) \/ ExpirationCheck(s, good)
           \/ ReadOnce(s, good) \/ Software(s) \/ OnlyLedger(s) \/ Estimate(s)
    PROVE  CliInv'
<1>. DEFINE Steps == {"local", "parties", "signedFile", "sign", "decode", "prompts", "device", "key",
                      "config", "ledgerClock", "expiration", "read", "software", "ledger", "estimate"}
<1>1. PICK step \in Steps :
        Doing(s, step) /\ (Continues(s, Onward(s)) \/ Refuse(s)) /\ UNCHANGED Surroundings
    BY DEF Passes, Local, Parties, SignedFile, SignFile, Decode, Prompts, Device, Key, LoadConfig,
           LedgerClock, ExpirationCheck, ReadOnce, Software, OnlyLedger, Estimate, Surroundings
<1>2. step \notin {"url", "fetch", "attestation", "ledgerTime"}
    OBVIOUS
<1>. QED BY <1>1, <1>2, PassesInv

(* dry_run, the builder's export and the wizard's last question. *)
LEMMA AbortsInv ==
    ASSUME CliInv, NEW s \in Shells, NEW good \in BOOLEAN,
           DryRun(s, good) \/ Export(s, good) \/ Confirm(s, good)
    PROVE  CliInv'
<1>. DEFINE Steps == {"dryRun", "export", "confirm"}
<1>1. PICK step \in Steps :
        /\ Doing(s, step) /\ UNCHANGED Surroundings
        /\ Continues(s, Onward(s)) \/ Refuse(s) \/ EndsWith(s, "simulated")
    BY DEF DryRun, Export, Confirm, Surroundings
<1>2. step \notin {"url", "fetch", "attestation", "ledgerTime"} /\ shell[s].todo # <<>>
    BY <1>1 DEF Doing
<1>3. CASE EndsWith(s, "simulated")
    BY <1>1, <1>2, <1>3, EndsInv
<1>4. CASE Continues(s, Onward(s)) \/ Refuse(s)
    BY <1>1, <1>2, <1>4, PassesInv
<1>. QED BY <1>1, <1>3, <1>4

(* A transaction that did not land, and a process that is killed. *)
LEMMA NotLandedInv ==
    ASSUME CliInv, NEW s \in Shells, NotLanded(s) \/ Kill(s)
    PROVE  CliInv'
<1>1. PICK word \in {"refused", "unsure", "killed"} : EndsWith(s, word)
    BY DEF NotLanded, Kill
<1>2. shell[s].todo # <<>> /\ UNCHANGED Surroundings
    BY DEF NotLanded, Kill, Doing, Surroundings
<1>. QED BY <1>1, <1>2, EndsInv

(* main: the menu holds programs. *)
LEMMA LaunchInv ==
    ASSUME CliInv, NEW s \in Shells, NEW m \in Menu[s], Launch(s, m.steps, m.flags)
    PROVE  CliInv'
<1>1. PICK p, f, r : p = m.steps /\ f = m.flags /\ r = [AtRest EXCEPT !.todo = p, !.flags = f]
    OBVIOUS
<1>2. Program(p) /\ f.rpc_url \in Networks \cup {Unset}
    BY <1>1, MenuAssumption, CommandsOrdered
<1>3. /\ DOMAIN r = ShellFields /\ r.todo = p /\ r.flags = f /\ r.url = Unset /\ r.pass = Unset
      /\ r.answer = "none" /\ r.page = <<>> /\ r.pages = <<>> /\ r.landed = Unset
    BY <1>1 DEF AtRest, ShellFields
<1>4. ShellTyped(r) /\ AtWork(r)
    BY <1>2, <1>3 DEF ShellTyped, AtWork, Program
<1>5. PICK conf, ch, clk : conf = configFile /\ ch = chain /\ clk = clock
    OBVIOUS
<1>6. SettingsTrue(r, conf) /\ LandedTrue(r)
    BY <1>3 DEF SettingsTrue, LandedTrue
<1>7. PagesTrue(r, ch)
    BY <1>3 DEF PagesTrue
<1>8. FetchedTrue(r, ch, clk) /\ AnswerTrue(r, ch, clk)
    BY <1>2, <1>3 DEF FetchedTrue, AnswerTrue, Program
<1>9. ShellTrue(r, configFile, chain, clock)
    BY <1>4, <1>5, <1>6, <1>7, <1>8 DEF ShellTrue
<1>. QED BY <1>1, <1>9, OneShell DEF Launch, Surroundings

------------------------------------------------------------------------------
(* A step that finds a setting. *)
LEMMA SettingShell ==
    ASSUME NEW conf, NEW ch, NEW clk, NEW r, ShellTrue(r, conf, ch, clk), ChainTrue(ch, clk), r.todo # <<>>,
           NEW q, DOMAIN q = ShellFields, q.flags = r.flags, q.todo = Tail(r.todo), q.answer = r.answer,
           q.page = r.page, q.pages = r.pages, q.landed = r.landed, q.moved = r.moved,
           \/ Head(r.todo) = "url" /\ q.url \in Networks
           \/ Head(r.todo) \in {"pass", "filePass"} /\ q.url = r.url,
           SettingsTrue(q, conf)
    PROVE  ShellTrue(q, conf, ch, clk)
<1>1. Ordered(r.todo) /\ ShellTyped(r) /\ AtWork(r) /\ PagesTrue(r, ch)
    BY DEF ShellTrue, ShellTyped
<1>2. PICK p : p = r.todo
    OBVIOUS
<1>3. /\ Ordered(Tail(p)) /\ p[1] = Head(p) /\ Len(p) \in Nat \ {0} /\ Len(Tail(p)) = Len(p) - 1
      /\ \A j \in 1..Len(Tail(p)) : Tail(p)[j] = p[j + 1] /\ j + 1 \in 1..Len(p)
    BY <1>1, <1>2, RestOrdered
<1>4. ShellTyped(q)
    BY <1>1, <1>2, <1>3 DEF ShellTyped
<1>5. \A j \in 1..Len(Tail(p)) : Tail(p)[j] # "truncate"
    BY <1>1, <1>2, <1>3 DEF Ordered
<1>6. AtWork(q)
    <2>1. CASE Head(p) = "url" /\ q.url \in Networks
        <3>1. \A j \in 1..Len(Tail(p)) : Tail(p)[j] # "url"
            <4>. SUFFICES ASSUME NEW j \in 1..Len(Tail(p)), Tail(p)[j] = "url" PROVE FALSE
                OBVIOUS
            <4>1. j + 1 \in 1..Len(p) /\ p[j + 1] = "url" /\ 1 \in 1..Len(p) /\ j + 1 # 1 /\ p[1] = "url"
                BY <1>3, <2>1
            <4>. QED BY <1>1, <1>2, <4>1 DEF Ordered
        <3>2. q.url # Unset
            BY <2>1, CliAssumption
        <3>3. Located(q.todo, q.url)
            BY <3>2 DEF Located
        <3>. QED BY <1>1, <1>2, <1>5, <3>1, <3>3 DEF AtWork
    <2>2. CASE Head(p) \in {"pass", "filePass"} /\ q.url = r.url
        <3>1. PICK u : u = r.url
            OBVIOUS
        <3>2. Located(p, u) /\ p[1] # "url" /\ p # <<>> /\ Ordered(p)
            BY <1>1, <1>2, <1>3, <2>2, <3>1 DEF AtWork
        <3>3. Located(q.todo, q.url)
            BY <1>2, <2>2, <3>1, <3>2, RestLocated
        <3>4. \A j \in 1..Len(Tail(p)) : Tail(p)[j] = "url" => q.url = Unset
            BY <1>1, <1>2, <1>3, <2>2 DEF AtWork
        <3>. QED BY <1>1, <1>2, <1>5, <3>3, <3>4 DEF AtWork
    <2>. QED BY <1>2, <2>1, <2>2
<1>7. LandedTrue(q) /\ AnswerTrue(q, ch, clk)
    BY <1>1 DEF AtWork, LandedTrue, AnswerTrue
<1>8. PagesTrue(q, ch)
    <2>1. CASE q.url = r.url
        BY <1>1, <2>1 DEF PagesTrue, AtWork
    <2>2. CASE Head(r.todo) = "url" /\ q.url \in Networks
        <3>1. r.url = Unset
            BY <1>1, <1>2, <1>3, <2>2 DEF AtWork
        <3>2. q.page = <<>> /\ q.pages = <<>> /\ q.answer = "none"
            BY <1>1, <3>1 DEF PagesTrue, AtWork
        <3>3. ch[q.url].history \in Nat
            BY <2>2 DEF ChainTrue
        <3>. QED BY <3>2, <3>3 DEF PagesTrue
    <2>. QED BY <2>1, <2>2
<1>9. FetchedTrue(q, ch, clk)
    <2>1. Tail(p) # <<>> => Tail(p)[1] \notin {"store", "ledgerTime", "schema"}
        BY <1>1, <1>2, NothingFetched
    <2>. QED BY <1>2, <2>1 DEF FetchedTrue
<1>. QED BY <1>4, <1>6, <1>7, <1>8, <1>9 DEF ShellTrue

(* What one configuration stands for, endpoint and passphrase, differs     *)
(* only if a profile mixes networks.                                       *)
LEMMA OneSource ==
    ASSUME NEW conf, NEW f,
           SourceOf(conf, f, "rpc_url") # SourceOf(conf, f, "network_passphrase")
    PROVE  \E p \in DOMAIN Profiles : Profiles[p].rpc_url # Profiles[p].network_passphrase
BY DEF SourceOf

(* A network that is found is one, and the user's. *)
LEMMA SourceChosen ==
    ASSUME NEW conf, NEW f
    PROVE  /\ SourceOf(conf, f, "rpc_url") \in Networks \cup {Unset}
           /\ SourceOf(conf, f, "rpc_url") # Unset => SourceOf(conf, f, "rpc_url") \in Chosen(f, "rpc_url")
BY CliAssumption DEF SourceOf, Chosen

(* A setting that is found differs from the other one only for the reasons *)
(* that WritesOnTarget allows.                                             *)
LEMMA Mixture ==
    ASSUME NEW conf, NEW q,
           ~q.moved =>
             /\ q.url # Unset /\ q.flags.rpc_url = Unset => q.url = SourceOf(conf, q.flags, "rpc_url")
             /\ q.pass # Unset /\ q.flags.network_passphrase = Unset /\ q.pass # q.flags.file =>
                  q.pass = SourceOf(conf, q.flags, "network_passphrase"),
           q.url # Unset, q.pass # Unset, q.url # q.pass
    PROVE  Excused(q)
BY OneSource DEF Excused

(* resolve_rpc_url *)
LEMMA UrlInv ==
    ASSUME CliInv, NEW s \in Shells, Url(s)
    PROVE  CliInv'
<1>1. PICK conf, ch, clk, r : conf = configFile /\ ch = chain /\ clk = clock /\ r = shell[s]
    OBVIOUS
<1>2. PICK n : n = Resolve(r.flags, r.flags.rpc_url, "rpc_url")
    OBVIOUS
<1>3. /\ ShellTrue(r, conf, ch, clk) /\ ChainTrue(ch, clk) /\ DOMAIN r = ShellFields
      /\ r.todo # <<>> /\ Head(r.todo) = "url"
    BY <1>1 DEF CliInv, Url, Doing, ShellTrue, ShellTyped
<1>4. CASE n = Unset
    BY <1>1, <1>2, <1>3, <1>4, EndsInv DEF Url, Flags, Refuse, Surroundings
<1>5. CASE n # Unset
    <2>1. PICK q : q = [[r EXCEPT !.todo = Tail(@)] EXCEPT !.url = n]
        OBVIOUS
    <2>2. /\ DOMAIN q = ShellFields /\ q.flags = r.flags /\ q.todo = Tail(r.todo) /\ q.answer = r.answer
          /\ q.page = r.page /\ q.pages = r.pages /\ q.landed = r.landed /\ q.moved = r.moved
          /\ q.url = n /\ q.pass = r.pass
        BY <1>3, <2>1 DEF ShellFields
    <2>3. n = IF r.flags.rpc_url # Unset THEN r.flags.rpc_url ELSE SourceOf(conf, r.flags, "rpc_url")
        BY <1>1, <1>2 DEF Resolve, SourceOf, FromProfile
    <2>4. PICK f : f = r.flags
        OBVIOUS
    <2>5. n \in Networks
        BY <1>3, <1>5, <2>3, <2>4, SourceChosen DEF ShellTrue, AtWork
    <2>6. r.flags.rpc_url = Unset => n \in Chosen(r.flags, "rpc_url")
        BY <1>5, <2>3, <2>4, SourceChosen
    <2>7. SettingsTrue(r, conf)
        BY <1>3 DEF ShellTrue
    <2>8. ~q.moved =>
             /\ q.url # Unset /\ q.flags.rpc_url = Unset => q.url = SourceOf(conf, q.flags, "rpc_url")
             /\ q.pass # Unset /\ q.flags.network_passphrase = Unset /\ q.pass # q.flags.file =>
                  q.pass = SourceOf(conf, q.flags, "network_passphrase")
        BY <1>3, <2>2, <2>3, <2>7 DEF SettingsTrue
    <2>9. SettingsTrue(q, conf)
        BY <2>2, <2>6, <2>8, Mixture DEF SettingsTrue
    <2>10. ShellTrue(q, conf, ch, clk)
        BY <1>3, <2>2, <2>5, <2>9, SettingShell
    <2>11. Continues(s, q) /\ UNCHANGED Surroundings
        BY <1>1, <1>2, <1>5, <2>1 DEF Url, Flags, Onward, Surroundings
    <2>. QED BY <1>1, <1>3, <2>10, <2>11, ContinuesInv
<1>. QED BY <1>4, <1>5

(* resolve_network_passphrase, and the passphrase of a signed file *)
LEMMA PassInv ==
    ASSUME CliInv, NEW s \in Shells, Pass(s) \/ FilePass(s)
    PROVE  CliInv'
<1>1. PICK conf, ch, clk, r : conf = configFile /\ ch = chain /\ clk = clock /\ r = shell[s]
    OBVIOUS
<1>3. /\ ShellTrue(r, conf, ch, clk) /\ ChainTrue(ch, clk) /\ DOMAIN r = ShellFields
      /\ r.todo # <<>> /\ Head(r.todo) \in {"pass", "filePass"} /\ UNCHANGED Surroundings
    BY <1>1 DEF CliInv, Pass, FilePass, Doing, ShellTrue, ShellTyped, Surroundings
<1>4. CASE Refuse(s)
    BY <1>1, <1>3, <1>4, EndsInv DEF Refuse
<1>5. ASSUME NEW n, Continues(s, [Onward(s) EXCEPT !.pass = n]),
             \/ n = r.flags.file
             \/ n = IF r.flags.network_passphrase # Unset THEN r.flags.network_passphrase
                     ELSE SourceOf(conf, r.flags, "network_passphrase")
      PROVE  CliInv'
    <2>1. PICK q : q = [[r EXCEPT !.todo = Tail(@)] EXCEPT !.pass = n]
        OBVIOUS
    <2>2. /\ DOMAIN q = ShellFields /\ q.flags = r.flags /\ q.todo = Tail(r.todo) /\ q.answer = r.answer
          /\ q.page = r.page /\ q.pages = r.pages /\ q.landed = r.landed /\ q.moved = r.moved
          /\ q.url = r.url /\ q.pass = n
        BY <1>3, <2>1 DEF ShellFields
    <2>7. SettingsTrue(r, conf)
        BY <1>3 DEF ShellTrue
    <2>8. ~q.moved =>
             /\ q.url # Unset /\ q.flags.rpc_url = Unset => q.url = SourceOf(conf, q.flags, "rpc_url")
             /\ q.pass # Unset /\ q.flags.network_passphrase = Unset /\ q.pass # q.flags.file =>
                  q.pass = SourceOf(conf, q.flags, "network_passphrase")
        BY <1>3, <1>5, <2>2, <2>7 DEF SettingsTrue
    <2>9. SettingsTrue(q, conf)
        BY <2>2, <2>7, <2>8, Mixture DEF SettingsTrue
    <2>10. ShellTrue(q, conf, ch, clk)
        BY <1>3, <2>2, <2>9, SettingShell
    <2>11. Continues(s, q)
        BY <1>1, <1>5, <2>1 DEF Onward
    <2>. QED BY <1>1, <1>3, <2>10, <2>11, ContinuesInv
<1>6. CASE Pass(s)
    <2>1. PICK n : n = Resolve(r.flags, r.flags.network_passphrase, "network_passphrase")
        OBVIOUS
    <2>2. n = IF r.flags.network_passphrase # Unset THEN r.flags.network_passphrase
              ELSE SourceOf(conf, r.flags, "network_passphrase")
        BY <1>1, <2>1 DEF Resolve, SourceOf, FromProfile
    <2>3. Refuse(s) \/ Continues(s, [Onward(s) EXCEPT !.pass = n])
        BY <1>1, <1>6, <2>1 DEF Pass, Flags
    <2>. QED BY <1>4, <1>5, <2>2, <2>3
<1>7. CASE FilePass(s)
    <2>1. PICK n : n = r.flags.file
        OBVIOUS
    <2>2. Continues(s, [Onward(s) EXCEPT !.pass = n])
        BY <1>1, <1>7, <2>1 DEF FilePass, Flags
    <2>. QED BY <1>5, <2>1, <2>2
<1>. QED BY <1>6, <1>7

(* save_config: every running command is marked; the one that writes has   *)
(* looked nothing up.                                                      *)
LEMMA ConfigMoves ==
    ASSUME CliInv, NEW s \in Shells, NEW r, NEW conf2, configFile' = conf2,
           ShellTrue(r, conf2, chain, clock),
           shell' = [[t \in Shells |-> Moved(shell[t])] EXCEPT ![s] = r],
           UNCHANGED <<clock, chain, cacheFile>>
    PROVE  CliInv'
<1>1. PICK conf, ch, clk : conf = configFile /\ ch = chain /\ clk = clock
    OBVIOUS
<1>2. /\ shell' = [t \in Shells |-> shell'[t]]
      /\ \A t \in Shells : shell'[t] = IF t = s THEN r ELSE Moved(shell[t])
    OBVIOUS
<1>3. ASSUME NEW t \in Shells PROVE ShellTrue(shell'[t], conf2, ch, clk)
    <2>1. PICK q : q = shell[t]
        OBVIOUS
    <2>2. ShellTrue(q, conf, ch, clk)
        BY <1>1, <2>1 DEF CliInv
    <2>3. ShellTrue(Moved(q), conf2, ch, clk)
        BY <2>2, MovedTrue
    <2>. QED BY <1>1, <1>2, <2>1, <2>3
<1>. QED BY <1>1, <1>2, <1>3 DEF CliInv

(* fs::write truncates: the writer goes on with no setting of its own. *)
LEMMA TruncateInv == ASSUME CliInv, NEW s \in Shells, Truncate(s) PROVE CliInv'
<1>1. PICK conf, ch, clk, r, q :
        conf = configFile /\ ch = chain /\ clk = clock /\ r = shell[s] /\ q = Onward(s)
    OBVIOUS
<1>2. /\ ShellTrue(r, conf, ch, clk) /\ DOMAIN r = ShellFields /\ r.todo # <<>>
      /\ Head(r.todo) = "truncate" /\ Ordered(r.todo) /\ AtWork(r)
    BY <1>1 DEF CliInv, Truncate, Doing, ShellTrue, ShellTyped
<1>3. r.todo[1] = "truncate" /\ 1 \in 1..Len(r.todo)
    BY <1>2, RestOrdered
<1>4. r.url = Unset /\ r.pass = Unset
    BY <1>2, <1>3 DEF AtWork
<1>5. ShellTrue(q, conf, ch, clk)
    BY <1>1, <1>2, OnwardShell
<1>6. q.url = Unset /\ q.pass = Unset
    BY <1>1, <1>2, <1>4 DEF Onward, ShellFields
<1>7. SettingsTrue(q, TornFile)
    BY <1>6 DEF SettingsTrue
<1>8. ShellTrue(q, TornFile, ch, clk)
    BY <1>5, <1>7 DEF ShellTrue
<1>. QED BY <1>1, <1>8, ConfigMoves DEF Truncate

(* And fills the file: the writer is done. *)
LEMMA WriteInv ==
    ASSUME CliInv, NEW s \in Shells, NEW name \in DOMAIN Profiles, Write(s, name) PROVE CliInv'
<1>1. PICK r, ch, clk : r = [AtRest EXCEPT !.answer = "done"] /\ ch = chain /\ clk = clock
    OBVIOUS
<1>2. Bare(r)
    BY <1>1 DEF Bare, AtRest, ShellFields
<1>3. ShellTrue(r, name, ch, clk)
    BY <1>2, WordTrue
<1>. QED BY <1>1, <1>3, ConfigMoves DEF Write

------------------------------------------------------------------------------
(* Networks and the clock move on: what was true of the past stays true.   *)
LEMMA ChainMoves ==
    ASSUME CliInv, NEW clk2 \in Nat, clock <= clk2, clock' = clk2,
           ChainTrue(chain', clock), Grown(chain, chain', clock),
           UNCHANGED <<configFile, cacheFile>>, shell' = [s \in Shells |-> shell'[s]],
           \A s \in Shells : shell'[s] = shell[s] \/ ShellTrue(shell'[s], configFile, chain', clk2)
    PROVE  CliInv'
<1>1. PICK conf, ch, dh, clk, cf : conf = configFile /\ ch = chain /\ dh = chain' /\ clk = clock /\ cf = cacheFile
    OBVIOUS
<1>2. clk \in Nat /\ clk <= clk2 /\ ChainTrue(ch, clk) /\ ChainTrue(dh, clk) /\ Grown(ch, dh, clk)
    BY <1>1 DEF CliInv
<1>3. ChainTrue(dh, clk2)
    <2>1. \A x \in Nat : x <= clk => x <= clk2
        BY <1>2
    <2>. QED BY <1>2, <2>1 DEF ChainTrue
<1>4. CacheTrue(cf, dh, clk2)
    <2>1. CacheTrue(cf, ch, clk)
        BY <1>1 DEF CliInv
    <2>2. ASSUME NEW n \in Networks, cf[n] # Unset
          PROVE  /\ cf[n].cached_at \in Nat /\ cf[n].as_of \in Nat
                 /\ cf[n].as_of <= cf[n].cached_at /\ cf[n].cached_at <= clk2
                 /\ Current(dh, n, cf[n].answer, cf[n].as_of)
        <3>1. PICK a, b, c : a = cf[n].cached_at /\ b = cf[n].as_of /\ c = cf[n].answer
            OBVIOUS
        <3>2. a \in Nat /\ b \in Nat /\ b <= a /\ a <= clk /\ Current(ch, n, c, b)
            BY <2>1, <2>2, <3>1 DEF CacheTrue
        <3>3. b <= clk /\ a <= clk2
            BY <1>2, <3>2
        <3>4. Current(dh, n, c, b)
            BY <1>2, <3>2, <3>3, CurrentKept
        <3>. QED BY <3>1, <3>2, <3>3, <3>4
    <2>. QED BY <2>1, <2>2 DEF CacheTrue
<1>5. ASSUME NEW s \in Shells PROVE ShellTrue(shell'[s], conf, dh, clk2)
    <2>1. PICK r : r = shell[s]
        OBVIOUS
    <2>2. ShellTrue(r, conf, ch, clk)
        BY <1>1, <2>1 DEF CliInv
    <2>3. ShellTrue(r, conf, dh, clk2)
        BY <1>2, <2>2, ShellKept
    <2>. QED BY <1>1, <2>1, <2>3
<1>. QED BY <1>1, <1>3, <1>4, <1>5 DEF CliInv

(* Only time passes. *)
LEMMA ClockInv == ASSUME CliInv, ClockTicks PROVE CliInv'
<1>1. PICK clk2 \in Nat : clk2 = clock + 1 /\ clock <= clk2
    BY DEF CliInv
<1>2. ChainTrue(chain, clock) /\ shell = [s \in Shells |-> shell[s]]
    BY DEF CliInv
<1>3. Grown(chain, chain', clock)
    <2>1. \A n \in Networks : chain[n].history \in Nat /\ chain'[n].history = chain[n].history
        BY <1>2 DEF ChainTrue, ClockTicks
    <2>. QED BY <2>1 DEF Grown, ClockTicks
<1>. QED BY <1>1, <1>2, <1>3, ChainMoves DEF ClockTicks

(* One network gets a version, an entry or another status. *)
LEMMA NetworkGrows ==
    ASSUME NEW ch, NEW clk \in Nat, ChainTrue(ch, clk), NEW n \in Networks, NEW rec, NEW dh,
           dh = [ch EXCEPT ![n] = rec], rec.since \in Seq(Nat), rec.history \in Nat,
           rec \in [since : Seq(Nat), history : Nat, attestation : {"none", "live", "revoked"}],
           ch[n].history <= rec.history,
           rec.since = ch[n].since \/ rec.since = Append(ch[n].since, clk)
    PROVE  ChainTrue(dh, clk) /\ Grown(ch, dh, clk)
<1>1. /\ dh \in [Networks -> [since : Seq(Nat), history : Nat, attestation : {"none", "live", "revoked"}]]
      /\ dh[n] = rec /\ \A m \in Networks \ {n} : dh[m] = ch[m]
    BY DEF ChainTrue
<1>2. \A m \in Networks : ch[m].history \in Nat
    BY DEF ChainTrue
<1>3. Grown(ch, dh, clk)
    BY <1>1, <1>2 DEF Grown
<1>4. Len(rec.since) >= 1 /\ \A v \in 1..Len(rec.since) : rec.since[v] <= clk
    <2>1. PICK a, b : a = ch[n].since /\ b = rec.since
        OBVIOUS
    <2>2. a \in Seq(Nat) /\ Len(a) >= 1 /\ \A v \in 1..Len(a) : a[v] <= clk
        BY <2>1 DEF ChainTrue
    <2>3. CASE b = a
        BY <2>1, <2>2, <2>3
    <2>4. CASE b = Append(a, clk)
        <3>1. /\ Len(a) \in Nat /\ Len(b) = Len(a) + 1 /\ b[Len(a) + 1] = clk
              /\ \A v \in 1..Len(a) : b[v] = a[v]
            BY <2>2, <2>4
        <3>2. PICK k \in Nat : k = Len(a)
            BY <3>1
        <3>3. k + 1 >= 1 /\ clk <= clk /\ \A v \in 1..(k + 1) : v \in 1..k \/ v = k + 1
            OBVIOUS
        <3>4. \A v \in 1..(k + 1) : b[v] <= clk
            BY <2>2, <3>1, <3>2, <3>3, Zenon
        <3>. QED BY <2>1, <3>1, <3>2, <3>3, <3>4, Zenon
    <2>. QED BY <2>1, <2>3, <2>4
<1>5. ChainTrue(dh, clk)
    BY <1>1, <1>4 DEF ChainTrue
<1>. QED BY <1>3, <1>5

(* A version is added. *)
LEMMA VersionAdded ==
    ASSUME NEW ch, NEW clk \in Nat, ChainTrue(ch, clk), NEW n \in Networks, NEW dh,
           dh = [ch EXCEPT ![n].since = Append(@, clk)]
    PROVE  ChainTrue(dh, clk) /\ Grown(ch, dh, clk) /\ dh[n].history = ch[n].history
<1>1. ch[n] \in [since : Seq(Nat), history : Nat, attestation : {"none", "live", "revoked"}]
    BY DEF ChainTrue
<1>2. PICK old, new, rec : /\ old = ch[n] /\ new = Append(old.since, clk)
                           /\ rec = [old EXCEPT !.since = new]
    OBVIOUS
<1>7. old.since \in Seq(Nat) /\ new \in Seq(Nat)
    BY <1>1, <1>2
<1>3. dh = [ch EXCEPT ![n] = rec]
    BY <1>2 DEF ChainTrue
<1>4. /\ rec \in [since : Seq(Nat), history : Nat, attestation : {"none", "live", "revoked"}]
      /\ rec.since = Append(ch[n].since, clk) /\ rec.history = ch[n].history
      /\ rec.since \in Seq(Nat) /\ rec.history \in Nat
    BY <1>1, <1>2, <1>7
<1>5. ch[n].history <= rec.history
    BY <1>1, <1>4
<1>6. ChainTrue(dh, clk) /\ Grown(ch, dh, clk)
    BY <1>3, <1>4, <1>5, NetworkGrows
<1>. QED BY <1>3, <1>4, <1>6 DEF ChainTrue

(* Other users. *)
LEMMA OthersInv ==
    ASSUME CliInv, NEW n \in Busy, OthersWrite(n) \/ OthersAttest(n) \/ OthersRevoke(n) PROVE CliInv'
<1>1. PICK ch, dh, clk : ch = chain /\ dh = chain' /\ clk = clock
    OBVIOUS
<1>2. /\ n \in Networks /\ clk \in Nat /\ ChainTrue(ch, clk) /\ shell = [s \in Shells |-> shell[s]]
      /\ ch[n] \in [since : Seq(Nat), history : Nat, attestation : {"none", "live", "revoked"}]
    BY <1>1, CliAssumption DEF CliInv, ChainTrue
<1>3. ChainTrue(dh, clk) /\ Grown(ch, dh, clk)
    <2>1. CASE OthersWrite(n)
        BY <1>1, <1>2, <2>1, VersionAdded DEF OthersWrite
    <2>2. CASE OthersAttest(n)
        <3>1. PICK a : a = IF ch[n].attestation = "none" THEN "live" ELSE ch[n].attestation
            OBVIOUS
        <3>2. PICK old, h, rec : /\ old = ch[n] /\ h = old.history + 1
                                 /\ rec = [old EXCEPT !.history = h, !.attestation = a]
            OBVIOUS
        <3>3. a \in {"none", "live", "revoked"} /\ h \in Nat
            BY <1>2, <3>1, <3>2
        <3>4. /\ rec \in [since : Seq(Nat), history : Nat, attestation : {"none", "live", "revoked"}]
              /\ rec.since = ch[n].since /\ rec.history = ch[n].history + 1
              /\ rec.since \in Seq(Nat) /\ rec.history \in Nat
            BY <1>2, <3>2, <3>3
        <3>5. ch[n].history <= rec.history
            BY <1>2, <3>4
        <3>6. dh = [ch EXCEPT ![n] = rec]
            BY <1>1, <1>2, <2>2, <3>1, <3>2 DEF OthersAttest, ChainTrue
        <3>. QED BY <1>2, <3>4, <3>5, <3>6, NetworkGrows
    <2>3. CASE OthersRevoke(n)
        <3>2. PICK rec : rec = [ch[n] EXCEPT !.attestation = "revoked"]
            OBVIOUS
        <3>4. /\ rec \in [since : Seq(Nat), history : Nat, attestation : {"none", "live", "revoked"}]
              /\ rec.since = ch[n].since /\ rec.history = ch[n].history
              /\ rec.since \in Seq(Nat) /\ rec.history \in Nat
            BY <1>2, <3>2
        <3>5. ch[n].history <= rec.history
            BY <1>2, <3>4
        <3>6. dh = [ch EXCEPT ![n] = rec]
            BY <1>1, <1>2, <2>3, <3>2 DEF OthersRevoke, ChainTrue
        <3>. QED BY <1>2, <3>4, <3>5, <3>6, NetworkGrows
    <2>. QED BY <2>1, <2>2, <2>3
<1>4. /\ clock' = clk /\ clock <= clk /\ UNCHANGED <<configFile, cacheFile>> /\ shell' = shell
    BY <1>1, <1>2 DEF OthersWrite, OthersAttest, OthersRevoke
<1>. QED BY <1>1, <1>2, <1>3, <1>4, ChainMoves

(* What a command on the network works with. *)
LEMMA OnlineShell ==
    ASSUME CliInv, NEW s \in Shells, NEW step \in Online, Doing(s, step)
    PROVE  shell[s].url \in Networks
<1>1. PICK r : r = shell[s]
    OBVIOUS
<1>2. ShellTyped(r) /\ AtWork(r) /\ r.todo # <<>> /\ Head(r.todo) = step /\ Ordered(r.todo)
    BY <1>1 DEF CliInv, ShellTrue, ShellTyped, Doing
<1>3. r.todo[1] = step /\ Len(r.todo) \in Nat \ {0}
    BY <1>2, RestOrdered
<1>4. Located(r.todo, r.url)
    BY <1>2 DEF AtWork
<1>5. r.url # Unset
    <2>. SUFFICES ASSUME r.url = Unset PROVE FALSE
        OBVIOUS
    <2>1. 1 \in 1..Len(r.todo)
        BY <1>3
    <2>2. \E i \in 1..(1 - 1) : r.todo[i] = "url"
        BY <1>3, <1>4, <2>1 DEF Located
    <2>. QED BY <2>2
<1>. QED BY <1>1, <1>2, <1>5 DEF ShellTyped

(* A command that ends with a result. *)
LEMMA FinalShell ==
    ASSUME NEW conf, NEW ch, NEW clk, NEW r, ShellTrue(r, conf, ch, clk), r.todo # <<>>,
           NEW q, DOMAIN q = ShellFields, q.todo = <<>>, q.flags = r.flags, q.url = r.url, q.pass = r.pass,
           q.page = r.page, q.pages = r.pages, q.moved = r.moved, q.answer # "listed",
           LandedTrue(q), AnswerTrue(q, ch, clk)
    PROVE  ShellTrue(q, conf, ch, clk)
<1>1. ShellTyped(r) /\ SettingsTrue(r, conf) /\ PagesTrue(r, ch)
    BY DEF ShellTrue
<1>2. Ordered(<<>>)
    BY DEF Ordered, Words
<1>3. ShellTyped(q) /\ AtWork(q) /\ FetchedTrue(q, ch, clk)
    BY <1>1, <1>2 DEF ShellTyped, AtWork, FetchedTrue
<1>4. SettingsTrue(q, conf)
    BY <1>1 DEF SettingsTrue, Excused
<1>5. PagesTrue(q, ch)
    BY <1>1 DEF PagesTrue
<1>. QED BY <1>3, <1>4, <1>5 DEF ShellTrue

(* A write lands on the network of the URL. *)
LEMMA LandedInv == ASSUME CliInv, NEW s \in Shells, Landed(s) PROVE CliInv'
<1>1. PICK conf, ch, dh, clk, r, n :
        conf = configFile /\ ch = chain /\ dh = chain' /\ clk = clock /\ r = shell[s] /\ n = shell[s].url
    OBVIOUS
<1>2. /\ clk \in Nat /\ ChainTrue(ch, clk) /\ ShellTrue(r, conf, ch, clk) /\ DOMAIN r = ShellFields
      /\ r.todo # <<>> /\ Head(r.todo) = "submit" /\ n = r.url /\ n = r.pass
      /\ dh = [ch EXCEPT ![n].since = Append(@, clk)]
    BY <1>1 DEF CliInv, ShellTrue, ShellTyped, Landed, Doing
<1>3. n \in Networks
    <2>1. "submit" \in Online /\ Doing(s, "submit")
        BY DEF Online, Landed
    <2>. QED BY <1>1, <2>1, OnlineShell
<1>4. ChainTrue(dh, clk) /\ Grown(ch, dh, clk)
    BY <1>2, <1>3, VersionAdded
<1>5. PICK answer \in {"success", "unsure"} : Becomes(s, [Ends(s, answer) EXCEPT !.landed = n])
    BY <1>1 DEF Landed
<1>6. PICK q : q = [[r EXCEPT !.todo = <<>>, !.answer = answer] EXCEPT !.landed = n]
    OBVIOUS
<1>7. /\ DOMAIN q = ShellFields /\ q.todo = <<>> /\ q.flags = r.flags /\ q.url = r.url /\ q.pass = r.pass
      /\ q.page = r.page /\ q.pages = r.pages /\ q.moved = r.moved /\ q.answer = answer /\ q.landed = n
    BY <1>2, <1>6 DEF ShellFields
<1>8. LandedTrue(q) /\ AnswerTrue(q, dh, clk)
    BY <1>2, <1>3, <1>5, <1>7, CliAssumption DEF LandedTrue, AnswerTrue
<1>9. ShellTrue(r, conf, dh, clk)
    <2>1. clk <= clk
        BY <1>2
    <2>. QED BY <1>2, <1>4, <2>1, ShellKept
<1>10. ShellTrue(q, conf, dh, clk)
    BY <1>2, <1>5, <1>7, <1>8, <1>9, FinalShell
<1>11. /\ shell' = [t \in Shells |-> shell'[t]]
       /\ \A t \in Shells : shell'[t] = IF t = s THEN q ELSE shell[t]
    BY <1>1, <1>5, <1>6 DEF Becomes, Ends, CliInv
<1>12. clock' = clk /\ clock <= clk /\ UNCHANGED <<configFile, cacheFile>>
    BY <1>1, <1>2 DEF Landed
<1>. QED BY <1>1, <1>2, <1>4, <1>10, <1>11, <1>12, ChainMoves

------------------------------------------------------------------------------
(* cached_or: an entry that is young enough, or a fetch. *)
LEMMA CacheLookupInv == ASSUME CliInv, NEW s \in Shells, CacheLookup(s) PROVE CliInv'
<1>1. PICK conf, ch, clk, r, n, e :
        /\ conf = configFile /\ ch = chain /\ clk = clock /\ r = shell[s] /\ n = shell[s].url
        /\ e = cacheFile[n]
    OBVIOUS
<1>2. /\ clk \in Nat /\ ChainTrue(ch, clk) /\ ShellTrue(r, conf, ch, clk) /\ DOMAIN r = ShellFields
      /\ r.todo # <<>> /\ Head(r.todo) = "cached" /\ n = r.url /\ UNCHANGED Surroundings
    BY <1>1 DEF CliInv, ShellTrue, ShellTyped, CacheLookup, Doing, Surroundings
<1>3. n \in Networks /\ n # Unset
    <2>1. "cached" \in Online /\ Doing(s, "cached")
        BY DEF Online, CacheLookup
    <2>. QED BY <1>1, <2>1, OnlineShell, CliAssumption
<1>4. ASSUME e # Unset, clk - e.cached_at < cache_ttl,
             Becomes(s, Answer(s, e.answer, e.as_of, e.cached_at - e.as_of))
      PROVE  CliInv'
    <2>1. PICK v, a, c : v = e.answer /\ a = e.as_of /\ c = e.cached_at
        OBVIOUS
    <2>2. a \in Nat /\ c \in Nat /\ a <= c /\ c <= clk /\ Current(ch, n, v, a)
        BY <1>1, <1>3, <1>4, <2>1 DEF CliInv, CacheTrue
    <2>3. a <= clk /\ clk - a <= cache_ttl + (c - a)
        BY <1>2, <1>4, <2>1, <2>2, CliAssumption
    <2>4. PICK lag : lag = c - a
        OBVIOUS
    <2>5. PICK q : q = [[r EXCEPT !.todo = <<>>, !.answer = "answer"]
                          EXCEPT !.value = v, !.as_of = a, !.lag = lag, !.at = clk]
        OBVIOUS
    <2>6. /\ DOMAIN q = ShellFields /\ q.todo = <<>> /\ q.flags = r.flags /\ q.url = r.url /\ q.pass = r.pass
          /\ q.page = r.page /\ q.pages = r.pages /\ q.moved = r.moved /\ q.answer = "answer"
          /\ q.landed = r.landed /\ q.value = v /\ q.as_of = a /\ q.lag = lag /\ q.at = clk
        BY <1>2, <2>5 DEF ShellFields
    <2>7. r.landed = Unset
        BY <1>2 DEF ShellTrue, AtWork
    <2>8. LandedTrue(q)
        BY <2>6, <2>7 DEF LandedTrue
    <2>9. AnswerTrue(q, ch, clk)
        BY <1>2, <1>3, <2>2, <2>3, <2>4, <2>6 DEF AnswerTrue
    <2>10. ShellTrue(q, conf, ch, clk)
        BY <1>2, <2>6, <2>8, <2>9, FinalShell
    <2>11. Becomes(s, q)
        BY <1>1, <1>4, <2>1, <2>4, <2>5 DEF Answer, Ends
    <2>. QED BY <1>1, <1>2, <2>10, <2>11, OneShell
<1>5. ASSUME Becomes(s, [shell[s] EXCEPT !.todo = <<"fetch", "store">>])
      PROVE  CliInv'
    <2>1. PICK p : p = <<"fetch", "store">>
        OBVIOUS
    <2>2. Ordered(p) /\ p[1] = "fetch" /\ \A j \in 1..Len(p) : p[j] \notin {"url", "truncate"}
        BY <2>1 DEF Ordered, Words
    <2>3. PICK q : q = [r EXCEPT !.todo = p]
        OBVIOUS
    <2>4. Alongside(q, r) /\ q.todo = p /\ DOMAIN q = ShellFields
        BY <1>2, <2>3 DEF Alongside, ShellFields
    <2>5. FetchedTrue(q, ch, clk)
        BY <2>2, <2>4 DEF FetchedTrue
    <2>6. ShellTyped(q)
        BY <1>2, <2>2, <2>4 DEF ShellTrue, ShellTyped, Alongside
    <2>7. AtWork(q)
        <3>1. Located(q.todo, q.url)
            BY <1>2, <1>3, <2>4 DEF Located, Alongside
        <3>2. AtWork(r)
            BY <1>2 DEF ShellTrue
        <3>. QED BY <1>2, <2>2, <2>4, <3>1, <3>2 DEF AtWork, Alongside
    <2>8. SettingsTrue(q, conf)
        BY <1>2, <2>4 DEF ShellTrue, SettingsTrue, Excused, Alongside
    <2>9. q.answer = "none" /\ q.landed = Unset /\ q.page = r.page /\ q.pages = r.pages /\ q.url = r.url
        BY <1>2, <2>4 DEF ShellTrue, AtWork, Alongside
    <2>10. LandedTrue(q) /\ AnswerTrue(q, ch, clk)
        BY <2>9 DEF LandedTrue, AnswerTrue
    <2>11. PagesTrue(q, ch)
        <3>1. PagesTrue(r, ch)
            BY <1>2 DEF ShellTrue
        <3>. QED BY <2>9, <3>1 DEF PagesTrue
    <2>12. ShellTrue(q, conf, ch, clk)
        BY <2>5, <2>6, <2>7, <2>8, <2>10, <2>11 DEF ShellTrue
    <2>. QED BY <1>1, <1>2, <1>5, <2>1, <2>3, <2>12, OneShell
<1>6. \/ /\ e # Unset /\ clk - e.cached_at < cache_ttl
         /\ Becomes(s, Answer(s, e.answer, e.as_of, e.cached_at - e.as_of))
      \/ Becomes(s, [shell[s] EXCEPT !.todo = <<"fetch", "store">>])
    BY <1>1 DEF CacheLookup, CacheKey
<1>. QED BY <1>4, <1>5, <1>6

(* The read itself. *)
LEMMA CacheFetchInv ==
    ASSUME CliInv, NEW s \in Shells, NEW good \in BOOLEAN, CacheFetch(s, good) PROVE CliInv'
<1>1. PICK conf, ch, clk, r, n :
        conf = configFile /\ ch = chain /\ clk = clock /\ r = shell[s] /\ n = shell[s].url
    OBVIOUS
<1>2. /\ clk \in Nat /\ ChainTrue(ch, clk) /\ ShellTrue(r, conf, ch, clk) /\ DOMAIN r = ShellFields
      /\ r.todo # <<>> /\ Head(r.todo) = "fetch" /\ n = r.url /\ UNCHANGED Surroundings /\ Ordered(r.todo)
    BY <1>1 DEF CliInv, ShellTrue, ShellTyped, CacheFetch, Doing, Surroundings
<1>3. n \in Networks
    <2>1. "fetch" \in Online /\ Doing(s, "fetch")
        BY DEF Online, CacheFetch
    <2>. QED BY <1>1, <2>1, OnlineShell
<1>4. CASE good
    <2>1. PICK v : v = Len(ch[n].since)
        OBVIOUS
    <2>2. Current(ch, n, v, clk)
        <3>1. PICK a : a = ch[n].since
            OBVIOUS
        <3>2. a \in Seq(Nat) /\ Len(a) >= 1 /\ \A i \in 1..Len(a) : a[i] <= clk
            BY <1>2, <1>3, <3>1 DEF ChainTrue
        <3>3. v = Len(a) /\ v \in 1..Len(a) /\ a[v] <= clk /\ v + 1 \notin 1..Len(a)
            BY <2>1, <3>1, <3>2
        <3>. QED BY <3>1, <3>3 DEF Current
    <2>3. PICK q : q = [[r EXCEPT !.todo = Tail(@)] EXCEPT !.value = v, !.as_of = clk]
        OBVIOUS
    <2>4. /\ Alongside(q, r) /\ q.todo = Tail(r.todo) /\ q.value = v /\ q.as_of = clk /\ q.url = n
        BY <1>2, <2>3 DEF Alongside, ShellFields
    <2>5. FetchedTrue(q, ch, clk)
        <3>1. PICK p : p = r.todo
            OBVIOUS
        <3>2. Tail(p) # <<>> => Tail(p)[1] \notin {"ledgerTime", "schema"}
            BY <1>2, <3>1, Follows
        <3>3. clk <= clk
            BY <1>2
        <3>. QED BY <1>2, <2>2, <2>4, <3>1, <3>2, <3>3 DEF FetchedTrue
    <2>6. ShellTrue(q, conf, ch, clk)
        BY <1>2, <2>4, <2>5, GoesOn
    <2>7. Becomes(s, q)
        BY <1>1, <1>4, <2>1, <2>3 DEF CacheFetch, Onward, Version
    <2>. QED BY <1>1, <1>2, <2>6, <2>7, OneShell
<1>5. CASE ~good
    BY <1>1, <1>2, <1>5, EndsInv DEF CacheFetch, Refuse
<1>. QED BY <1>4, <1>5

(* The result is cached, with the moment it was read. *)
LEMMA CacheStoreInv ==
    ASSUME CliInv, NEW s \in Shells, NEW stored \in BOOLEAN, CacheStore(s, stored) PROVE CliInv'
<1>1. PICK conf, ch, clk, r, n, cf :
        /\ conf = configFile /\ ch = chain /\ clk = clock /\ r = shell[s] /\ n = shell[s].url
        /\ cf = cacheFile
    OBVIOUS
<1>2. /\ clk \in Nat /\ ChainTrue(ch, clk) /\ ShellTrue(r, conf, ch, clk) /\ DOMAIN r = ShellFields
      /\ r.todo # <<>> /\ Head(r.todo) = "store" /\ n = r.url /\ Ordered(r.todo) /\ CacheTrue(cf, ch, clk)
      /\ configFile' = conf /\ clock' = clk /\ chain' = ch
    BY <1>1 DEF CliInv, ShellTrue, ShellTyped, CacheStore, Doing
<1>3. n \in Networks /\ n # Unset
    <2>1. "store" \in Online /\ Doing(s, "store")
        BY DEF Online, CacheStore
    <2>. QED BY <1>1, <2>1, OnlineShell, CliAssumption
<1>4. PICK v, a : v = r.value /\ a = r.as_of
    OBVIOUS
<1>5. a \in Nat /\ a <= clk /\ Current(ch, n, v, a)
    <2>1. r.todo[1] = "store"
        BY <1>2, RestOrdered
    <2>. QED BY <1>2, <1>4, <2>1 DEF ShellTrue, FetchedTrue
<1>6. PICK lag : lag = clk - a
    OBVIOUS
<1>7. PICK q : q = [[r EXCEPT !.todo = <<>>, !.answer = "answer"]
                      EXCEPT !.value = v, !.as_of = a, !.lag = lag, !.at = clk]
    OBVIOUS
<1>8. /\ DOMAIN q = ShellFields /\ q.todo = <<>> /\ q.flags = r.flags /\ q.url = r.url /\ q.pass = r.pass
      /\ q.page = r.page /\ q.pages = r.pages /\ q.moved = r.moved /\ q.answer = "answer"
      /\ q.landed = r.landed /\ q.value = v /\ q.as_of = a /\ q.lag = lag /\ q.at = clk
    BY <1>2, <1>7 DEF ShellFields
<1>9. LandedTrue(q)
    BY <1>2, <1>8 DEF ShellTrue, AtWork, LandedTrue
<1>10. clk - a <= cache_ttl + lag
    BY <1>2, <1>5, <1>6, CliAssumption
<1>11. AnswerTrue(q, ch, clk)
    BY <1>2, <1>3, <1>5, <1>8, <1>10 DEF AnswerTrue
<1>12. ShellTrue(q, conf, ch, clk)
    BY <1>2, <1>8, <1>9, <1>11, FinalShell
<1>13. /\ shell' = [t \in Shells |-> shell'[t]]
       /\ \A t \in Shells : shell'[t] = IF t = s THEN q ELSE shell[t]
    BY <1>1, <1>4, <1>6, <1>7 DEF CacheStore, Becomes, Answer, Ends, CliInv
<1>14. CacheTrue(cacheFile', ch, clk)
    <2>1. CASE ~stored
        BY <1>1, <1>2, <2>1 DEF CacheStore
    <2>2. CASE stored
        <3>1. PICK e, df : e = [cached_at |-> clk, answer |-> v, as_of |-> a] /\ df = [cf EXCEPT ![n] = e]
            OBVIOUS
        <3>2. e.cached_at = clk /\ e.answer = v /\ e.as_of = a /\ clk <= clk
            BY <1>2, <3>1
        <3>3. df = [m \in Networks |-> df[m]] /\ \A m \in Networks : df[m] = IF m = n THEN e ELSE cf[m]
            BY <1>2, <3>1 DEF CacheTrue
        <3>4. CacheTrue(df, ch, clk)
            BY <1>2, <1>5, <3>2, <3>3 DEF CacheTrue
        <3>5. cacheFile' = df
            BY <1>1, <1>4, <2>2, <3>1 DEF CacheStore, CacheKey
        <3>. QED BY <3>4, <3>5
    <2>. QED BY <2>1, <2>2
<1>15. \A t \in Shells : ShellTrue(shell'[t], conf, ch, clk)
    BY <1>1, <1>12, <1>13 DEF CliInv
<1>. QED BY <1>2, <1>13, <1>14, <1>15 DEF CliInv

------------------------------------------------------------------------------
(* run_query: the page goes on from the cursor and not past the index. *)
LEMMA PageInv == ASSUME CliInv, NEW s \in Shells, Page(s) PROVE CliInv'
<1>1. PICK conf, ch, clk, r, n :
        conf = configFile /\ ch = chain /\ clk = clock /\ r = shell[s] /\ n = shell[s].url
    OBVIOUS
<1>2. /\ clk \in Nat /\ ChainTrue(ch, clk) /\ ShellTrue(r, conf, ch, clk) /\ DOMAIN r = ShellFields
      /\ r.todo # <<>> /\ Head(r.todo) = "page" /\ n = r.url /\ UNCHANGED Surroundings /\ Ordered(r.todo)
    BY <1>1 DEF CliInv, ShellTrue, ShellTyped, Page, Doing, Surroundings
<1>3. n \in Networks /\ n # Unset
    <2>1. "page" \in Online /\ Doing(s, "page")
        BY DEF Online, Page
    <2>. QED BY <1>1, <2>1, OnlineShell, CliAssumption
<1>4. CASE Refuse(s)
    BY <1>1, <1>2, <1>4, EndsInv DEF Refuse
<1>5. CASE Becomes(s, [Onward(s) EXCEPT !.page = Window(Len(shell[s].pages), shell[s].url)])
    <2>1. PICK c \in Nat, h \in Nat : c = Len(r.pages) /\ h = ch[n].history
        BY <1>2, <1>3 DEF ShellTrue, ShellTyped, ChainTrue
    <2>22. PICK upto \in Nat : upto = IF c + page_limit < h THEN c + page_limit ELSE h
        BY CliAssumption
    <2>2. PICK k \in Nat : k = IF upto > c THEN upto - c ELSE 0
        <3>1. CASE upto > c
            <4>1. upto - c \in Nat
                BY <3>1
            <4>. QED BY <3>1, <4>1
        <3>2. CASE ~(upto > c)
            BY <3>2
        <3>. QED BY <3>1, <3>2
    <2>3. PICK w : w = [i \in 1..k |-> c + i]
        OBVIOUS
    <2>4. w = Window(Len(shell[s].pages), shell[s].url)
        BY <1>1, <2>1, <2>2, <2>22, <2>3 DEF Window
    <2>5. w \in Seq(Nat) /\ Len(w) = k /\ \A i \in 1..k : w[i] = c + i
        BY <2>3
    <2>6. c <= h
        <3>1. PICK l \in Nat : l = Len(r.page)
            BY <1>2 DEF ShellTrue, ShellTyped
        <3>2. Len(r.pages) + Len(r.page) <= ch[r.url].history
            BY <1>2, <1>3 DEF ShellTrue, PagesTrue
        <3>3. c + l <= h
            BY <1>2, <2>1, <3>1, <3>2
        <3>. QED BY <3>3
    <2>7. c + k <= h
        BY <2>2, <2>22, <2>6, CliAssumption
    <2>8. PICK mid : mid = [r EXCEPT !.todo = Tail(@)]
        OBVIOUS
    <2>9. ShellTrue(mid, conf, ch, clk)
        BY <1>1, <1>2, <2>8, OnwardShell DEF Onward
    <2>10. PICK q : q = [mid EXCEPT !.page = w]
        OBVIOUS
    <2>11. /\ DOMAIN q = ShellFields /\ q.todo = mid.todo /\ q.flags = mid.flags /\ q.url = mid.url
           /\ q.pass = mid.pass /\ q.answer = mid.answer /\ q.value = mid.value /\ q.as_of = mid.as_of
           /\ q.lag = mid.lag /\ q.at = mid.at /\ q.pages = mid.pages /\ q.seen = mid.seen
           /\ q.landed = mid.landed /\ q.moved = mid.moved /\ q.page = w
        BY <2>9, <2>10 DEF ShellTrue, ShellTyped, ShellFields
    <2>12. mid.url = n /\ mid.pages = r.pages /\ mid.answer = "none"
        BY <1>2, <2>8 DEF ShellFields, ShellTrue, AtWork
    <2>13. ShellTyped(q) /\ AtWork(q) /\ LandedTrue(q)
        BY <2>5, <2>9, <2>11 DEF ShellTrue, ShellTyped, AtWork, LandedTrue
    <2>14. SettingsTrue(q, conf)
        BY <2>9, <2>11 DEF ShellTrue, SettingsTrue, Excused
    <2>15. FetchedTrue(q, ch, clk)
        BY <2>9, <2>11 DEF ShellTrue, FetchedTrue
    <2>16. AnswerTrue(q, ch, clk)
        BY <2>11, <2>12 DEF AnswerTrue
    <2>17. \A i \in 1..Len(r.pages) : r.pages[i] = i
        BY <1>2 DEF ShellTrue, PagesTrue
    <2>18. PagesTrue(q, ch)
        <3>1. q.url = n /\ q.pages = r.pages /\ q.page = w /\ q.answer = "none"
            BY <2>11, <2>12
        <3>2. \A i \in 1..Len(q.pages) : q.pages[i] = i
            BY <2>17, <3>1
        <3>3. \A i \in 1..Len(q.page) : q.page[i] = Len(q.pages) + i
            BY <2>1, <2>5, <3>1
        <3>4. Len(q.pages) + Len(q.page) <= ch[q.url].history
            BY <2>1, <2>5, <2>7, <3>1
        <3>. QED BY <1>3, <3>1, <3>2, <3>3, <3>4 DEF PagesTrue
    <2>19. ShellTrue(q, conf, ch, clk)
        BY <2>13, <2>14, <2>15, <2>16, <2>18 DEF ShellTrue
    <2>20. Becomes(s, q)
        BY <1>1, <1>5, <2>4, <2>8, <2>10 DEF Onward
    <2>. QED BY <1>1, <1>2, <2>19, <2>20, OneShell
<1>. QED BY <1>4, <1>5 DEF Page

(* The page is added to the pages; the script ends when it has the total.  *)
LEMMA CountInv ==
    ASSUME CliInv, NEW s \in Shells, NEW good \in BOOLEAN, Count(s, good) PROVE CliInv'
<1>1. PICK conf, ch, clk, r, n :
        conf = configFile /\ ch = chain /\ clk = clock /\ r = shell[s] /\ n = shell[s].url
    OBVIOUS
<1>2. /\ clk \in Nat /\ ChainTrue(ch, clk) /\ ShellTrue(r, conf, ch, clk) /\ DOMAIN r = ShellFields
      /\ r.todo # <<>> /\ Head(r.todo) = "count" /\ n = r.url /\ UNCHANGED Surroundings
    BY <1>1 DEF CliInv, ShellTrue, ShellTyped, Count, Doing, Surroundings
<1>3. n \in Networks /\ n # Unset
    <2>1. "count" \in Online /\ Doing(s, "count")
        BY DEF Online, Count
    <2>. QED BY <1>1, <2>1, OnlineShell, CliAssumption
<1>4. CASE ~good
    BY <1>1, <1>2, <1>4, EndsInv DEF Count, Refuse
<1>5. CASE good
    <2>1. PICK a, b : a = r.pages /\ b = r.page
        OBVIOUS
    <2>2. /\ a \in Seq(Nat) /\ b \in Seq(Nat) /\ Len(a) \in Nat /\ Len(b) \in Nat /\ ch[n].history \in Nat
        BY <1>2, <1>3, <2>1 DEF ShellTrue, ShellTyped, ChainTrue
    <2>3. PICK c \in Nat, l \in Nat, total \in Nat : c = Len(a) /\ l = Len(b) /\ total = ch[n].history
        BY <2>2
    <2>4. /\ \A i \in 1..c : a[i] = i
          /\ \A i \in 1..l : b[i] = c + i
        BY <1>2, <2>1, <2>3 DEF ShellTrue, PagesTrue
    <2>5. c + l <= total
        BY <1>2, <1>3, <2>1, <2>3 DEF ShellTrue, PagesTrue
    <2>6. PICK got : got = a \o b
        OBVIOUS
    <2>7. /\ got \in Seq(Nat) /\ Len(got) = c + l
          /\ \A i \in 1..(c + l) : got[i] = IF i <= c THEN a[i] ELSE b[i - c]
        BY <2>2, <2>3, <2>6
    <2>8. \A i \in 1..(c + l) : got[i] = i
        <3>. SUFFICES ASSUME NEW i \in 1..(c + l) PROVE got[i] = i
            OBVIOUS
        <3>1. CASE i <= c
            BY <2>4, <2>7, <3>1
        <3>2. CASE ~(i <= c)
            <4>1. i - c \in 1..l /\ c + (i - c) = i
                BY <3>2
            <4>. QED BY <2>4, <2>7, <3>2, <4>1
        <3>. QED BY <3>1, <3>2
    <2>9. PICK next, todo, answer :
            /\ next = NextCursor(c, b, total)
            /\ todo = IF next = Unset THEN <<>> ELSE <<"page", "count">>
            /\ answer = IF next = Unset THEN "listed" ELSE r.answer
        OBVIOUS
    <2>10. PICK q : q = [r EXCEPT !.pages = got, !.page = <<>>, !.value = total, !.todo = todo, !.answer = answer]
        OBVIOUS
    <2>11. /\ DOMAIN q = ShellFields /\ q.todo = todo /\ q.flags = r.flags /\ q.url = n /\ q.pass = r.pass
           /\ q.answer = answer /\ q.value = total /\ q.pages = got /\ q.page = <<>> /\ q.landed = r.landed
           /\ q.moved = r.moved
        BY <1>2, <2>10 DEF ShellFields
    <2>12. r.answer = "none" /\ r.landed = Unset /\ r.flags.rpc_url \in Networks \cup {Unset}
        BY <1>2 DEF ShellTrue, AtWork
    <2>13. Ordered(todo) /\ \A j \in 1..Len(todo) : todo[j] \notin {"url", "truncate"}
        <3>1. Ordered(<<>>) /\ \A j \in 1..Len(<<>>) : <<>>[j] \notin {"url", "truncate"}
            BY DEF Ordered, Words
        <3>2. PICK p : p = <<"page", "count">>
            OBVIOUS
        <3>3. Ordered(p) /\ \A j \in 1..Len(p) : p[j] \notin {"url", "truncate"}
            BY <3>2 DEF Ordered, Words
        <3>4. CASE todo = <<>>
            BY <3>1, <3>4, Zenon
        <3>5. CASE todo = p
            BY <3>3, <3>5, Zenon
        <3>. QED BY <2>9, <3>2, <3>4, <3>5, Zenon
    <2>14. todo # <<>> => todo[1] = "page" /\ answer = "none"
        BY <2>9, <2>12
    <2>15. ShellTyped(q)
        BY <1>3, <2>7, <2>11, <2>13 DEF ShellTyped
    <2>16. AtWork(q)
        BY <1>3, <2>11, <2>12, <2>13, <2>14 DEF AtWork, Located
    <2>17. SettingsTrue(q, conf)
        BY <1>2, <2>11 DEF ShellTrue, SettingsTrue, Excused
    <2>18. LandedTrue(q) /\ AnswerTrue(q, ch, clk)
        BY <2>9, <2>11, <2>12 DEF LandedTrue, AnswerTrue
    <2>19. FetchedTrue(q, ch, clk)
        BY <2>11, <2>14 DEF FetchedTrue
    <2>20. answer = "listed" => c + l = total
        <3>1. answer = "listed" => next = Unset
            BY <2>9, <2>12
        <3>2. next = IF c + l < total THEN c + l ELSE Unset
            BY <2>3, <2>9 DEF NextCursor
        <3>3. ASSUME c + l < total, next = Unset PROVE answer # "listed"
            <4>1. c + l \in Nat
                OBVIOUS
            <4>. QED BY <3>2, <3>3, <4>1, CliAssumption
        <3>. QED BY <2>5, <3>1, <3>2, <3>3
    <2>21. PagesTrue(q, ch)
        BY <1>3, <2>3, <2>5, <2>7, <2>8, <2>11, <2>20 DEF PagesTrue
    <2>22. ShellTrue(q, conf, ch, clk)
        BY <2>15, <2>16, <2>17, <2>18, <2>19, <2>21 DEF ShellTrue
    <2>23. Becomes(s, q)
        BY <1>1, <1>5, <2>1, <2>3, <2>6, <2>9, <2>10 DEF Count
    <2>. QED BY <1>1, <1>2, <2>22, <2>23, OneShell
<1>. QED BY <1>4, <1>5

------------------------------------------------------------------------------
(* perform_online_verification: the attestation is read, *)
LEMMA FetchAttestationInv == ASSUME CliInv, NEW s \in Shells, FetchAttestation(s) PROVE CliInv'
<1>1. PICK conf, ch, clk, r, n :
        conf = configFile /\ ch = chain /\ clk = clock /\ r = shell[s] /\ n = shell[s].url
    OBVIOUS
<1>2. /\ clk \in Nat /\ ChainTrue(ch, clk) /\ ShellTrue(r, conf, ch, clk) /\ DOMAIN r = ShellFields
      /\ r.todo # <<>> /\ Head(r.todo) = "attestation" /\ UNCHANGED Surroundings /\ Ordered(r.todo)
    BY <1>1 DEF CliInv, ShellTrue, ShellTyped, FetchAttestation, Doing, Surroundings
<1>3. n \in Networks
    <2>1. "attestation" \in Online /\ Doing(s, "attestation")
        BY DEF Online, FetchAttestation
    <2>. QED BY <1>1, <2>1, OnlineShell
<1>4. PICK status : status = ch[n].attestation /\ status \in {"none", "live", "revoked"}
    BY <1>2, <1>3 DEF ChainTrue
<1>5. PICK seen : seen = [found |-> status # "none", revoked |-> status = "revoked", expired |-> FALSE,
                          holds |-> status = "live" /\ (expiration = 0 \/ clk < expiration)]
    OBVIOUS
<1>6. Refuse(s) \/ Becomes(s, [Onward(s) EXCEPT !.seen = seen])
    BY <1>1, <1>4, <1>5 DEF FetchAttestation
<1>7. CASE Refuse(s)
    BY <1>1, <1>2, <1>7, EndsInv DEF Refuse
<1>8. CASE Becomes(s, [Onward(s) EXCEPT !.seen = seen])
    <2>1. PICK q : q = [[r EXCEPT !.todo = Tail(@)] EXCEPT !.seen = seen]
        OBVIOUS
    <2>2. Alongside(q, r) /\ q.todo = Tail(r.todo) /\ q.seen = seen
        BY <1>2, <2>1 DEF Alongside, ShellFields
    <2>3. seen \in Sights
        BY <1>5 DEF Sights
    <2>4. seen.found /\ ~seen.revoked => seen.holds \/ (expiration # 0 /\ expiration <= clk)
        BY <1>2, <1>4, <1>5, CliAssumption
    <2>5. FetchedTrue(q, ch, clk)
        <3>1. PICK p : p = r.todo
            OBVIOUS
        <3>2. Tail(p) # <<>> => Tail(p)[1] \notin {"store", "schema"}
            BY <1>2, <3>1, Follows
        <3>. QED BY <2>2, <2>3, <2>4, <3>1, <3>2 DEF FetchedTrue
    <2>6. ShellTrue(q, conf, ch, clk)
        BY <1>2, <2>2, <2>5, GoesOn
    <2>7. Becomes(s, q)
        BY <1>1, <1>8, <2>1 DEF Onward
    <2>. QED BY <1>1, <1>2, <2>6, <2>7, OneShell
<1>. QED BY <1>6, <1>7, <1>8

(* then the time, *)
LEMMA FetchLedgerTimeInv ==
    ASSUME CliInv, NEW s \in Shells, NEW good \in BOOLEAN, FetchLedgerTime(s, good) PROVE CliInv'
<1>1. PICK conf, ch, clk, r : conf = configFile /\ ch = chain /\ clk = clock /\ r = shell[s]
    OBVIOUS
<1>2. /\ clk \in Nat /\ ShellTrue(r, conf, ch, clk) /\ DOMAIN r = ShellFields
      /\ r.todo # <<>> /\ Head(r.todo) = "ledgerTime" /\ UNCHANGED Surroundings /\ Ordered(r.todo)
    BY <1>1 DEF CliInv, ShellTrue, ShellTyped, FetchLedgerTime, Doing, Surroundings
<1>3. PICK old : old = r.seen
    OBVIOUS
<1>4. /\ old \in Sights
      /\ old.found /\ ~old.revoked => old.holds \/ (expiration # 0 /\ expiration <= clk)
    <2>1. r.todo[1] = "ledgerTime"
        BY <1>2, RestOrdered
    <2>. QED BY <1>2, <1>3, <2>1 DEF ShellTrue, FetchedTrue
<1>5. ASSUME NEW seen \in Sights, seen.found /\ ~seen.expired /\ ~seen.revoked => seen.holds,
             NEW q, q = [[r EXCEPT !.todo = Tail(@)] EXCEPT !.seen = seen], Becomes(s, q)
      PROVE  CliInv'
    <2>2. Alongside(q, r) /\ q.todo = Tail(r.todo) /\ q.seen = seen
        BY <1>2, <1>5 DEF Alongside, ShellFields
    <2>5. FetchedTrue(q, ch, clk)
        <3>1. PICK p : p = r.todo
            OBVIOUS
        <3>2. Tail(p) # <<>> => Tail(p)[1] \notin {"store", "ledgerTime"}
            BY <1>2, <3>1, Follows
        <3>. QED BY <1>5, <2>2, <3>1, <3>2 DEF FetchedTrue
    <2>6. ShellTrue(q, conf, ch, clk)
        BY <1>2, <2>2, <2>5, GoesOn
    <2>. QED BY <1>1, <1>2, <1>5, <2>6, OneShell
<1>6. CASE ~old.found
    <2>1. PICK q : q = [[r EXCEPT !.todo = Tail(@)] EXCEPT !.seen = old]
        OBVIOUS
    <2>2. q = [r EXCEPT !.todo = Tail(@)]
        BY <1>2, <1>3, <2>1
    <2>3. Becomes(s, q)
        BY <1>1, <1>3, <1>6, <2>2 DEF FetchLedgerTime, Onward
    <2>. QED BY <1>4, <1>5, <1>6, <2>1, <2>3
<1>7. CASE old.found /\ good
    <2>1. PICK x \in BOOLEAN : x = Expired(clk)
        BY DEF Expired
    <2>2. PICK seen : seen = [old EXCEPT !.expired = x]
        OBVIOUS
    <2>3. /\ seen \in Sights /\ seen.found = old.found /\ seen.revoked = old.revoked
          /\ seen.holds = old.holds /\ seen.expired = x
        BY <1>4, <2>2 DEF Sights
    <2>4. seen.found /\ ~seen.expired /\ ~seen.revoked => seen.holds
        BY <1>2, <1>4, <2>1, <2>3, CliAssumption DEF Expired
    <2>5. PICK q : q = [[r EXCEPT !.todo = Tail(@)] EXCEPT !.seen = seen]
        OBVIOUS
    <2>6. Becomes(s, [Onward(s) EXCEPT !.seen.expired = x])
        BY <1>1, <1>3, <1>7, <2>1 DEF FetchLedgerTime
    <2>7. [Onward(s) EXCEPT !.seen.expired = x] = q
        BY <1>1, <1>2, <1>3, <2>2, <2>5 DEF Onward, ShellFields
    <2>8. Becomes(s, q)
        BY <2>6, <2>7
    <2>. QED BY <1>5, <2>3, <2>4, <2>5, <2>8
<1>8. CASE old.found /\ ~good
    BY <1>1, <1>2, <1>3, <1>8, EndsInv DEF FetchLedgerTime, Refuse
<1>. QED BY <1>6, <1>7, <1>8

(* and the verdict. *)
LEMMA VerdictInv ==
    ASSUME CliInv, NEW s \in Shells, NEW schema \in {"available", "not_found", "not_checked", "error"},
           NEW contract \in BOOLEAN, Verdict(s, schema, contract)
    PROVE  CliInv'
<1>1. PICK conf, ch, clk, r : conf = configFile /\ ch = chain /\ clk = clock /\ r = shell[s]
    OBVIOUS
<1>2. /\ clk \in Nat /\ ShellTrue(r, conf, ch, clk) /\ DOMAIN r = ShellFields
      /\ r.todo # <<>> /\ Head(r.todo) = "schema" /\ UNCHANGED Surroundings /\ Ordered(r.todo)
    BY <1>1 DEF CliInv, ShellTrue, ShellTyped, Verdict, Doing, Surroundings
<1>3. r.seen.found /\ ~r.seen.expired /\ ~r.seen.revoked => r.seen.holds
    <2>1. r.todo[1] = "schema"
        BY <1>2, RestOrdered
    <2>. QED BY <1>2, <2>1 DEF ShellTrue, FetchedTrue
<1>4. CASE schema = "error"
    BY <1>1, <1>2, <1>4, EndsInv DEF Verdict, Refuse
<1>5. CASE schema # "error"
    <2>1. PICK valid : valid = (/\ r.flags.file = r.pass /\ contract
                               /\ r.seen.found /\ ~r.seen.expired /\ ~r.seen.revoked
                               /\ schema # "not_found")
        OBVIOUS
    <2>2. PICK word : word = IF valid THEN "valid" ELSE "notValid"
        OBVIOUS
    <2>3. PICK q : q = [r EXCEPT !.todo = <<>>, !.answer = word]
        OBVIOUS
    <2>4. Becomes(s, q)
        BY <1>1, <1>5, <2>1, <2>2, <2>3 DEF Verdict, Ends, Flags
    <2>5. /\ DOMAIN q = ShellFields /\ q.todo = <<>> /\ q.flags = r.flags /\ q.url = r.url /\ q.pass = r.pass
          /\ q.page = r.page /\ q.pages = r.pages /\ q.moved = r.moved /\ q.answer = word
          /\ q.landed = r.landed /\ q.seen = r.seen
        BY <1>2, <2>3 DEF ShellFields
    <2>6. LandedTrue(q) /\ word \notin {"listed", "answer", "success"}
        BY <1>2, <2>2, <2>5 DEF ShellTrue, AtWork, LandedTrue
    <2>7. word = "valid" => r.seen.holds /\ r.flags.file = r.pass
        BY <1>3, <2>1, <2>2
    <2>8. AnswerTrue(q, ch, clk)
        BY <2>5, <2>6, <2>7 DEF AnswerTrue
    <2>9. ShellTrue(q, conf, ch, clk)
        BY <1>2, <2>5, <2>6, <2>8, FinalShell
    <2>. QED BY <1>1, <1>2, <2>4, <2>9, OneShell
<1>. QED BY <1>4, <1>5

------------------------------------------------------------------------------
(* Every step of a shell keeps the invariant. *)
LEMMA ShellStepInv == ASSUME CliInv, NEW s \in Shells, ShellStep(s) PROVE CliInv'
<1>1. ASSUME NEW good \in BOOLEAN,
             \/ Local(s, good) \/ Parties(s, good) \/ SignedFile(s, good) \/ SignFile(s, good)
             \/ Decode(s, good) \/ Prompts(s, good) \/ Device(s, good)
             \/ Key(s, good) \/ LoadConfig(s, good) \/ LedgerClock(s, good) \/ ExpirationCheck(s, good)
             \/ ReadOnce(s, good)
      PROVE  CliInv'
    BY <1>1, LocalInv
<1>2. ASSUME NEW good \in BOOLEAN, DryRun(s, good) \/ Export(s, good) \/ Confirm(s, good)
      PROVE  CliInv'
    BY <1>2, AbortsInv
<1>3. ASSUME NEW good \in BOOLEAN,
             CacheFetch(s, good) \/ CacheStore(s, good) \/ Count(s, good) \/ FetchLedgerTime(s, good)
      PROVE  CliInv'
    BY <1>3, CacheFetchInv, CacheStoreInv, CountInv, FetchLedgerTimeInv
<1>4. CASE Software(s) \/ OnlyLedger(s) \/ Estimate(s)
    <2>1. TRUE \in BOOLEAN
        OBVIOUS
    <2>. QED BY <1>4, <2>1, LocalInv
<1>5. CASE Url(s) \/ Pass(s) \/ FilePass(s) \/ Truncate(s)
    BY <1>5, UrlInv, PassInv, TruncateInv
<1>6. ASSUME NEW name \in DOMAIN Profiles, Write(s, name) PROVE CliInv'
    BY <1>6, WriteInv
<1>7. CASE Landed(s) \/ NotLanded(s) \/ CacheLookup(s) \/ Page(s) \/ FetchAttestation(s) \/ Kill(s)
    BY <1>7, LandedInv, NotLandedInv, CacheLookupInv, PageInv, FetchAttestationInv
<1>8. ASSUME NEW schema \in {"available", "not_found", "not_checked", "error"}, NEW contract \in BOOLEAN,
             Verdict(s, schema, contract)
      PROVE  CliInv'
    BY <1>8, VerdictInv
<1>. QED BY <1>1, <1>2, <1>3, <1>4, <1>5, <1>6, <1>7, <1>8 DEF ShellStep

(* Every step keeps the invariant. *)
LEMMA CliNextInv == CliInv /\ [CliNext]_cliVars => CliInv'
<1>. SUFFICES ASSUME CliInv, [CliNext]_cliVars PROVE CliInv'
    OBVIOUS
<1>1. ASSUME NEW s \in Shells, NEW m \in Menu[s], Launch(s, m.steps, m.flags) PROVE CliInv'
    BY <1>1, LaunchInv
<1>2. ASSUME NEW s \in Shells, ShellStep(s) PROVE CliInv'
    BY <1>2, ShellStepInv
<1>3. ASSUME NEW n \in Busy, OthersWrite(n) \/ OthersAttest(n) \/ OthersRevoke(n) PROVE CliInv'
    BY <1>3, OthersInv
<1>4. CASE ClockTicks
    BY <1>4, ClockInv
<1>5. CASE UNCHANGED cliVars
    BY <1>5 DEF cliVars, CliInv
<1>. QED BY <1>1, <1>2, <1>3, <1>4, <1>5 DEF CliNext

(* The invariant holds of every behaviour of the command line. *)
LEMMA CliInvariant == CliSpec => []CliInv
<1>1. CliInit => CliInv
    BY CliInitInv
<1>2. CliInv /\ [CliNext]_cliVars => CliInv'
    BY CliNextInv
<1>. QED BY <1>1, <1>2, PTL DEF CliSpec

(* For any shells, networks, profiles and flags, and however the commands  *)
(* that look up the configuration interleave with config use and with its  *)
(* being killed in the middle of the file: a write lands only where both   *)
(* its endpoint and its passphrase and the user's flags point, and nothing *)
(* but a landed write is reported as a success (resolve_rpc_url,           *)
(* resolve_network_passphrase, save_config and the submitting commands).   *)
THEOREM WritesLandOnTarget == CliSpec => []WritesOnTarget
<1>1. CliInv => WritesOnTarget
    <2>. SUFFICES ASSUME CliInv, NEW s \in Shells
                  PROVE  LET r == shell[s]
                             f == r.flags
                         IN  /\ r.landed # Unset =>
                                  /\ r.answer \in {"success", "unsure"} /\ r.url = r.landed /\ r.pass = r.landed
                                  /\ f.rpc_url = Unset => r.landed \in Chosen(f, "rpc_url")
                             /\ r.answer = "success" => r.landed # Unset
                             /\ r.url # Unset /\ r.pass # Unset /\ r.url # r.pass =>
                                  \/ r.moved \/ f.rpc_url # Unset \/ f.network_passphrase # Unset
                                  \/ f.file = r.pass
                                  \/ \E p \in DOMAIN Profiles : Profiles[p].rpc_url # Profiles[p].network_passphrase
        BY DEF WritesOnTarget
    <2>1. PICK r, conf : r = shell[s] /\ conf = configFile
        OBVIOUS
    <2>2. SettingsTrue(r, conf) /\ LandedTrue(r)
        BY <2>1 DEF CliInv, ShellTrue
    <2>. QED BY <2>1, <2>2 DEF SettingsTrue, LandedTrue, Excused
<1>. QED BY <1>1, CliInvariant, PTL

(* And what commands print was true: a cached answer no older than the     *)
(* TTL and its fetch allow, though other shells fill the cache; pages that *)
(* follow each other without gap or repetition up to the total, though the *)
(* index grows between page and count; VALID only of an attestation that   *)
(* stood during the command, though it is read before the clock            *)
(* (cached_or, run_query, perform_online_verification).                    *)
THEOREM ReadsAlwaysTrue == CliSpec => []ReadsTrue
<1>1. CliInv => ReadsTrue
    <2>. SUFFICES ASSUME CliInv, NEW s \in Shells
                  PROVE  LET r == shell[s]
                         IN  /\ r.answer = "answer" =>
                                  /\ CurrentAt(r.url, r.value, r.as_of)
                                  /\ r.at - r.as_of <= cache_ttl + r.lag
                             /\ \A i \in 1..Len(r.pages) : r.pages[i] = i
                             /\ r.answer = "listed" => Len(r.pages) = r.value
                             /\ r.answer = "valid" => r.seen.holds /\ r.flags.file = r.pass
        BY DEF ReadsTrue
    <2>1. PICK r, ch, clk, n : r = shell[s] /\ ch = chain /\ clk = clock /\ n = r.url
        OBVIOUS
    <2>2. PagesTrue(r, ch) /\ AnswerTrue(r, ch, clk) /\ ShellTyped(r) /\ ChainTrue(ch, clk)
        BY <2>1 DEF CliInv, ShellTrue
    <2>3. ASSUME r.answer = "answer" PROVE CurrentAt(r.url, r.value, r.as_of)
        <3>1. n \in Networks /\ Current(ch, n, r.value, r.as_of)
            BY <2>1, <2>2, <2>3 DEF AnswerTrue, ShellTyped
        <3>2. DOMAIN ch[n].since = 1..Len(ch[n].since)
            BY <2>2, <3>1 DEF ChainTrue
        <3>. QED BY <2>1, <3>1, <3>2 DEF Current, CurrentAt
    <2>. QED BY <2>1, <2>2, <2>3 DEF PagesTrue, AnswerTrue
<1>. QED BY <1>1, CliInvariant, PTL

------------------------------------------------------------------------------
(* Issuing from a file.                                                    *)

BulkStages == {"validate", "submit", "failed", "preview", "done", "unsaved"}

BulkTypeOK ==
    /\ command \in {"bulk", "import"} /\ rows \in Seq(RowKinds)
    /\ dry_run \in BOOLEAN /\ continue_on_error \in BOOLEAN /\ chunk_size \in Nat \ {0}
    /\ output \in {"Human", "Json"} /\ stage \in BulkStages
    /\ work \in Seq(RowSet) /\ alone = <<>>
    /\ result \in [RowSet -> {"none", "ok", "error"}]
    /\ shown \in [RowSet -> {"none", "ok", "error"}]
    /\ issued \subseteq RowSet /\ open \subseteq RowSet /\ sent \in [RowSet -> Nat]

(* bulk refuses a file with such a row. *)
Spoiled == command = "bulk" /\ \E r \in RowSet : rows[r] = "invalid"

(* What is left to submit: in the order of the file, and nothing of it has *)
(* gone out or been noted.  Without it a second transaction for a row      *)
(* could not be excluded.                                                  *)
WorkPending ==
    /\ stage # "submit" => work = <<>>
    /\ \A i, j \in 1..Len(work) : i < j => work[i] < work[j]
    /\ \A i \in 1..Len(work) : result[work[i]] = "none"
    /\ \A r \in RowSet : result[r] = "none" => sent[r] = 0 /\ r \notin issued

(* bulk goes through the file from the top. *)
BulkInTurn ==
    command = "bulk" =>
      /\ \A r \in RowSet : \A i \in 1..Len(work) : result[r] # "none" => r < work[i]
      /\ ~continue_on_error =>
           \A r \in RowSet : result[r] = "error" =>
             work = <<>> /\ \A q \in RowSet : r < q => result[q] = "none"

(* import forgets no row. *)
ImportWhole ==
    command = "import" /\ stage \in {"submit", "done", "unsaved"} =>
      \A r \in RowSet : result[r] # "none" \/ \E i \in 1..Len(work) : work[i] = r

(* What was noted of the rows is what became of them. *)
NotesTrue ==
    /\ \A r \in RowSet : sent[r] <= 1 /\ (result[r] = "ok" => r \in issued)
    /\ \A r \in issued : result[r] = "ok" \/ r \in open
    /\ Spoiled => stage # "submit" /\ \A r \in RowSet : sent[r] = 0
    /\ stage \in {"validate", "failed", "preview"} =>
         \A r \in RowSet : result[r] = "none" /\ sent[r] = 0 /\ r \notin issued

(* The operator is shown the notes at the end, or nothing. *)
ReportTrue ==
    \/ shown = result /\ stage = "done"
    \/ (\A r \in RowSet : shown[r] = "none") /\ (stage = "done" => Unlisted)

BulkInv == BulkTypeOK /\ WorkPending /\ BulkInTurn /\ ImportWhole /\ NotesTrue /\ ReportTrue

LEMMA BulkInitInv == BulkInit => BulkInv
<1>. SUFFICES ASSUME BulkInit PROVE BulkInv
    OBVIOUS
<1>1. PICK n \in 0..MaxRows : rows \in [1..n -> RowKinds]
    BY DEF BulkInit
<1>2. rows \in Seq(RowKinds) /\ n \in Nat
    BY <1>1, BulkAssumption
<1>3. /\ chunk_size \in Nat \ {0} /\ continue_on_error \in BOOLEAN /\ dry_run \in BOOLEAN
      /\ output \in {"Human", "Json"}
    <2>1. command \in {"bulk", "import"} /\ chunk_size \in ChunkSizes \cup {1} /\ dry_run \in BOOLEAN
        BY DEF BulkInit
    <2>2. continue_on_error \in (IF command = "bulk" THEN BOOLEAN ELSE {FALSE})
        BY DEF BulkInit
    <2>3. chunk_size \in Nat \ {0}
        BY <2>1, BulkAssumption
    <2>4. continue_on_error \in BOOLEAN
        BY <2>2
    <2>5. output \in {"Human", "Json"}
        BY DEF BulkInit
    <2>. QED BY <2>1, <2>3, <2>4, <2>5
<1>4. /\ stage = "validate" /\ work = <<>> /\ alone = <<>> /\ command \in {"bulk", "import"}
      /\ result = [r \in RowSet |-> "none"] /\ shown = [r \in RowSet |-> "none"]
      /\ issued = {} /\ open = {} /\ sent = [r \in RowSet |-> 0]
    BY DEF BulkInit, RowSet
<1>5. BulkTypeOK
    <2>0. work \in Seq(RowSet) /\ stage \in BulkStages
        BY <1>4 DEF BulkStages
    <2>1. issued \subseteq RowSet /\ open \subseteq RowSet
        BY <1>4
    <2>2. /\ sent \in [RowSet -> Nat] /\ result \in [RowSet -> {"none", "ok", "error"}]
          /\ shown \in [RowSet -> {"none", "ok", "error"}]
        BY <1>4
    <2>. QED BY <1>2, <1>3, <1>4, <2>0, <2>1, <2>2 DEF BulkTypeOK
<1>6. Len(work) = 0
    BY <1>4
<1>. QED BY <1>4, <1>5, <1>6
     DEF BulkInv, WorkPending, BulkInTurn, ImportWhole, NotesTrue, ReportTrue

(* The rows of a file are finitely many numbers. *)
LEMMA RowsFinite ==
    ASSUME BulkTypeOK, NEW S \in SUBSET RowSet
    PROVE  S \in SUBSET Nat /\ IsFiniteSet(S)
<1>1. Len(rows) \in Nat
    BY DEF BulkTypeOK
<1>2. IsFiniteSet(RowSet) /\ RowSet \subseteq Nat
    BY <1>1, FS_Interval DEF RowSet
<1>. QED BY <1>2, FS_Subset

(* Validation lists the rows S for submission. *)
LEMMA Listed ==
    ASSUME BulkTypeOK, NEW S \in SUBSET RowSet
    PROVE  /\ InOrder(S) \in Seq(RowSet)
           /\ \A i \in 1..Len(InOrder(S)) : InOrder(S)[i] \in S
           /\ \A r \in S : \E i \in 1..Len(InOrder(S)) : InOrder(S)[i] = r
           /\ \A i, j \in 1..Len(InOrder(S)) : i < j => InOrder(S)[i] < InOrder(S)[j]
<1>. DEFINE s == InOrder(S)
<1>1. S \in SUBSET Nat /\ IsFiniteSet(S)
    BY RowsFinite
<1>2. /\ s \in Seq(S) /\ \A x \in S : \E i \in 1..Len(s) : s[i] = x
      /\ \A i, j \in 1..Len(s) : i < j => s[i] < s[j]
    BY <1>1, InOrderLists
<1>. HIDE DEF s
<1>3. s \in Seq(RowSet)
    BY <1>2
<1>4. \A i \in 1..Len(s) : s[i] \in S
    BY <1>2
<1>. QED BY <1>2, <1>3, <1>4 DEF s

(* A run that ends before its first submission. *)
LEMMA EndsEarlyInv ==
    ASSUME BulkInv, stage = "validate", stage' \in {"failed", "preview"}, work' = <<>>,
           UNCHANGED <<inputs, alone, result, shown, issued, sent, open>>
    PROVE  BulkInv'
<1>1. /\ BulkTypeOK /\ work = <<>> /\ Len(work') = 0 /\ stage' # "submit" /\ stage' # "done"
      /\ stage' # "unsaved"
      /\ \A r \in RowSet : result[r] = "none" /\ sent[r] = 0 /\ r \notin issued
      /\ \A r \in RowSet : shown[r] = "none"
    BY DEF BulkInv, WorkPending, NotesTrue, ReportTrue
<1>2. RowSet' = RowSet /\ (Spoiled' <=> Spoiled)
    BY DEF inputs, RowSet, Spoiled
<1>3. BulkTypeOK'
    BY <1>1, <1>2 DEF BulkTypeOK, inputs, BulkStages
<1>4. WorkPending' /\ BulkInTurn' /\ ImportWhole' /\ ReportTrue'
    BY <1>1, <1>2 DEF WorkPending, BulkInTurn, ImportWhole, ReportTrue, inputs
<1>5. NotesTrue'
    BY <1>1, <1>2 DEF NotesTrue, BulkTypeOK, inputs
<1>. QED BY <1>3, <1>4, <1>5 DEF BulkInv

LEMMA ValidateBulkInv ==
    ASSUME BulkInv, NEW trouble \in Troubles, ValidateBulk(trouble) PROVE BulkInv'
<1>1. /\ BulkTypeOK /\ work = <<>> /\ stage = "validate" /\ command = "bulk"
      /\ UNCHANGED <<inputs, alone, result, shown, issued, sent, open>>
      /\ \A r \in RowSet : result[r] = "none" /\ sent[r] = 0 /\ r \notin issued
      /\ \A r \in RowSet : shown[r] = "none"
    BY DEF BulkInv, WorkPending, NotesTrue, ReportTrue, ValidateBulk
<1>2. RowSet' = RowSet /\ (Spoiled' <=> Spoiled)
    BY <1>1 DEF inputs, RowSet, Spoiled
<1>3. stage' \in {"failed", "preview", "submit"} /\ (stage' = "submit" => ~Spoiled)
    BY <1>1 DEF ValidateBulk, StageAfter, Spoiled
<1>4. CASE stage' # "submit"
    <2>1. stage' \in {"failed", "preview"} /\ work' = <<>>
        BY <1>3, <1>4 DEF ValidateBulk
    <2>. QED BY <1>1, <2>1, EndsEarlyInv
<1>5. CASE stage' = "submit"
    <2>1. work' = InOrder(RowSet) /\ ~Spoiled
        BY <1>3, <1>5 DEF ValidateBulk
    <2>2. /\ work' \in Seq(RowSet)
          /\ \A i \in 1..Len(work') : work'[i] \in RowSet
          /\ \A i, j \in 1..Len(work') : i < j => work'[i] < work'[j]
        BY <1>1, <2>1, Listed
    <2>3. BulkTypeOK'
        BY <1>1, <1>2, <1>5, <2>2 DEF BulkTypeOK, inputs, BulkStages
    <2>4. WorkPending' /\ BulkInTurn' /\ ImportWhole' /\ ReportTrue'
        BY <1>1, <1>2, <1>5, <2>2 DEF WorkPending, BulkInTurn, ImportWhole, ReportTrue, inputs
    <2>5. NotesTrue'
        BY <1>1, <1>2, <1>5, <2>1 DEF NotesTrue, BulkTypeOK, inputs
    <2>. QED BY <2>3, <2>4, <2>5 DEF BulkInv
<1>. QED BY <1>4, <1>5

LEMMA ValidateImportInv ==
    ASSUME BulkInv, NEW trouble \in Troubles, ValidateImport(trouble) PROVE BulkInv'
<1>. DEFINE bad == {r \in RowSet : rows[r] \in {"invalid", "duplicate"}}
<1>1. /\ BulkTypeOK /\ work = <<>> /\ stage = "validate" /\ command = "import"
      /\ UNCHANGED <<inputs, alone, shown, issued, sent, open>>
      /\ \A r \in RowSet : result[r] = "none" /\ sent[r] = 0 /\ r \notin issued
      /\ \A r \in RowSet : shown[r] = "none"
    BY DEF BulkInv, WorkPending, NotesTrue, ReportTrue, ValidateImport
<1>2. RowSet' = RowSet /\ ~Spoiled /\ ~Spoiled'
    BY <1>1 DEF inputs, RowSet, Spoiled
<1>3. stage' \in {"failed", "preview", "submit"}
    BY <1>1 DEF ValidateImport, StageAfter
<1>4. CASE stage' # "submit"
    <2>1. stage' \in {"failed", "preview"} /\ work' = <<>> /\ UNCHANGED result
        BY <1>3, <1>4 DEF ValidateImport
    <2>. QED BY <1>1, <2>1, EndsEarlyInv
<1>5. CASE stage' = "submit"
    <2>1. /\ work' = InOrder(RowSet \ bad)
          /\ result' = [r \in RowSet |-> IF r \in bad THEN "error" ELSE "none"]
        BY <1>1, <1>5 DEF ValidateImport
    <2>. HIDE DEF bad
    <2>2. /\ work' \in Seq(RowSet)
          /\ \A i \in 1..Len(work') : work'[i] \in RowSet \ bad
          /\ \A r \in RowSet \ bad : \E i \in 1..Len(work') : work'[i] = r
          /\ \A i, j \in 1..Len(work') : i < j => work'[i] < work'[j]
        <3>. DEFINE S == RowSet \ bad
        <3>1. S \in SUBSET RowSet /\ work' = InOrder(S)
            BY <2>1
        <3>. HIDE DEF S
        <3>2. /\ work' \in Seq(RowSet)
              /\ \A i \in 1..Len(work') : work'[i] \in S
              /\ \A r \in S : \E i \in 1..Len(work') : work'[i] = r
              /\ \A i, j \in 1..Len(work') : i < j => work'[i] < work'[j]
            BY <1>1, <3>1, Listed
        <3>. QED BY <3>2 DEF S
    <2>3. BulkTypeOK'
        BY <1>1, <1>2, <1>5, <2>1, <2>2 DEF BulkTypeOK, inputs, BulkStages
    <2>4. \A r \in RowSet : result'[r] # "ok" /\ (r \in bad => result'[r] = "error")
                            /\ (r \notin bad => result'[r] = "none")
        BY <2>1
    <2>5. WorkPending' /\ BulkInTurn' /\ ReportTrue'
        BY <1>1, <1>2, <1>5, <2>2, <2>4 DEF WorkPending, BulkInTurn, ReportTrue, inputs
    <2>6. ImportWhole'
        BY <1>2, <2>2, <2>4 DEF ImportWhole
    <2>7. NotesTrue'
        BY <1>1, <1>2, <1>5, <2>4 DEF NotesTrue, BulkTypeOK, inputs
    <2>. QED BY <2>3, <2>5, <2>6, <2>7 DEF BulkInv
<1>. QED BY <1>4, <1>5

(* The first k of the rows go out together; m - k more are given up. *)
LEMMA SubmittedInv ==
    ASSUME BulkInv, stage = "submit", NEW k \in 1..Len(work), NEW m \in k..Len(work),
           NEW group, group = {work[i] : i \in 1..k}, NEW fate \in Fates, NEW took \in BOOLEAN,
           Outcome(group, fate, took), Note(group, Word(fate)),
           work' \in Seq(RowSet), Len(work') = Len(work) - m,
           \A i \in 1..Len(work') : work'[i] = work[m + i],
           UNCHANGED <<inputs, stage, alone, shown>>,
           command = "bulk" => k = 1 /\ (Word(fate) # "ok" /\ ~continue_on_error => m = Len(work)),
           command = "import" => m = k
    PROVE  BulkInv'
<1>1. BulkTypeOK /\ WorkPending /\ BulkInTurn /\ ImportWhole /\ NotesTrue /\ ReportTrue
    BY DEF BulkInv
<1>2. /\ Len(work) \in Nat /\ k \in Nat /\ m \in Nat /\ k >= 1 /\ k <= m /\ m <= Len(work)
      /\ \A i \in 1..Len(work) : work[i] \in RowSet /\ work[i] \in Nat
    <2>1. work \in Seq(RowSet) /\ \A r \in RowSet : r \in Nat
        BY <1>1 DEF BulkTypeOK, RowSet
    <2>2. Len(work) \in Nat /\ \A i \in 1..Len(work) : work[i] \in RowSet
        BY <2>1
    <2>3. \A i \in 1..Len(work) : work[i] \in RowSet /\ work[i] \in Nat
        BY <2>1, <2>2
    <2>4. k \in Nat /\ m \in Nat /\ k >= 1 /\ k <= m /\ m <= Len(work)
        BY <2>2
    <2>. QED BY <2>2, <2>3, <2>4
<1>3. RowSet' = RowSet /\ ~Spoiled /\ ~Spoiled'
    BY <1>1 DEF inputs, RowSet, Spoiled, NotesTrue
<1>4. /\ issued' = (IF took THEN issued \cup group ELSE issued)
      /\ sent' = [r \in RowSet |->
                    IF r \in group /\ fate \in {"SUCCESS", "open"} THEN sent[r] + 1 ELSE sent[r]]
      /\ open' = (IF fate = "open" THEN open \cup group ELSE open)
      /\ result' = [r \in RowSet |-> IF r \in group THEN Word(fate) ELSE result[r]]
      /\ fate = "SUCCESS" => took
      /\ took => fate \in {"SUCCESS", "open"}
    BY DEF Outcome, Note
<1>. /\ Word(fate) \in {"ok", "error"} /\ (Word(fate) = "ok" <=> fate = "SUCCESS")
    BY DEF Word, Receipt
<1>5. \A r \in group : r \in RowSet /\ sent[r] = 0 /\ r \notin issued /\ result[r] = "none"
                       /\ \E i \in 1..k : r = work[i]
    BY <1>1, <1>2 DEF WorkPending
<1>6. BulkTypeOK'
    <2>1. issued' \subseteq RowSet /\ open' \subseteq RowSet
        BY <1>1, <1>4, <1>5 DEF BulkTypeOK
    <2>2. sent' \in [RowSet -> Nat] /\ result' \in [RowSet -> {"none", "ok", "error"}]
        BY <1>1, <1>4 DEF BulkTypeOK
    <2>. QED BY <1>1, <1>3, <2>1, <2>2 DEF BulkTypeOK, inputs
<1>7. \A i \in 1..Len(work') : m + i \in 1..Len(work) /\ m + i > k /\ work'[i] = work[m + i]
                               /\ work'[i] \notin group /\ work'[i] \in RowSet
    <2>. TAKE i \in 1..Len(work')
    <2>1. m + i \in 1..Len(work) /\ m + i > k /\ work'[i] = work[m + i]
        BY <1>2
    <2>2. ASSUME NEW j \in 1..k PROVE work[j] < work[m + i]
        <3>1. j \in 1..Len(work) /\ j < m + i
            BY <1>2, <2>1
        <3>. QED BY <1>1, <2>1, <3>1 DEF WorkPending
    <2>3. \A j \in 1..k : work[j] # work[m + i]
        <3>. SUFFICES ASSUME NEW j \in 1..k PROVE work[j] # work[m + i]
            OBVIOUS
        <3>1. j \in 1..Len(work) /\ work[j] \in Nat /\ work[m + i] \in Nat
            BY <1>2, <2>1
        <3>2. work[j] < work[m + i]
            BY <2>2
        <3>. QED BY <3>1, <3>2
    <2>. QED BY <1>2, <1>5, <2>1, <2>3
<1>8. WorkPending'
    <2>1. ASSUME NEW i \in 1..Len(work'), NEW j \in 1..Len(work'), i < j PROVE work'[i] < work'[j]
        <3>1. m + i \in 1..Len(work) /\ m + j \in 1..Len(work) /\ m + i < m + j
            BY <1>2, <1>7, <2>1
        <3>. QED BY <1>1, <1>7, <3>1 DEF WorkPending
    <2>2. ASSUME NEW i \in 1..Len(work') PROVE result'[work'[i]] = "none"
        <3>1. result[work'[i]] = "none" /\ work'[i] \in RowSet /\ work'[i] \notin group
            BY <1>1, <1>7 DEF WorkPending
        <3>. QED BY <1>4, <3>1
    <2>3. ASSUME NEW r \in RowSet, result'[r] = "none" PROVE sent'[r] = 0 /\ r \notin issued'
        <3>1. r \notin group /\ result[r] = "none"
            BY <1>4, <2>3
        <3>. QED BY <1>1, <1>4, <3>1 DEF WorkPending
    <2>. QED BY <1>3, <2>1, <2>2, <2>3 DEF WorkPending
<1>9. BulkInTurn'
    <2>. SUFFICES ASSUME command = "bulk" PROVE BulkInTurn'
        BY DEF BulkInTurn, inputs
    <2>1. k = 1 /\ group = {work[1]} /\ 1 \in 1..Len(work)
        BY <1>2
    <2>2. ASSUME NEW r \in RowSet, NEW i \in 1..Len(work'), result'[r] # "none" PROVE r < work'[i]
        <3>1. 1 < m + i /\ work[1] < work[m + i]
            BY <1>1, <1>2, <1>7, <2>1 DEF WorkPending
        <3>2. CASE r = work[1]
            BY <1>7, <3>1, <3>2
        <3>3. CASE r # work[1]
            <4>1. result[r] # "none"
                BY <1>4, <2>1, <2>2, <3>3
            <4>. QED BY <1>1, <1>7, <4>1 DEF BulkInTurn
        <3>. QED BY <3>2, <3>3
    <2>3. ASSUME ~continue_on_error, NEW r \in RowSet, result'[r] = "error"
          PROVE  work' = <<>> /\ \A q \in RowSet : r < q => result'[q] = "none"
        <3>1. work # <<>>
            BY <1>2
        <3>2. result[r] # "error"
            BY <1>1, <2>3, <3>1 DEF BulkInTurn
        <3>3. r = work[1] /\ Word(fate) # "ok"
            BY <1>4, <2>1, <2>3, <3>2
        <3>4. Len(work') = 0
            BY <1>2, <2>3, <3>3
        <3>5. ASSUME NEW q \in RowSet, r < q PROVE result'[q] = "none"
            <4>1. r \in Nat /\ q \in Nat /\ q # work[1] /\ ~(q < work[1])
                BY <3>3, <3>5, <1>1 DEF RowSet
            <4>2. result[q] = "none"
                BY <1>1, <2>1, <4>1 DEF BulkInTurn
            <4>. QED BY <1>4, <2>1, <4>1, <4>2
        <3>. QED BY <3>4, <3>5
    <2>. QED BY <1>3, <2>2, <2>3 DEF BulkInTurn, inputs
<1>10. ImportWhole'
    <2>. SUFFICES ASSUME command = "import" PROVE ImportWhole'
        BY DEF ImportWhole, inputs
    <2>1. ASSUME NEW r \in RowSet PROVE result'[r] # "none" \/ \E i \in 1..Len(work') : work'[i] = r
        <3>1. CASE r \in group
            BY <1>4, <3>1
        <3>2. CASE result[r] # "none"
            BY <1>4, <3>2
        <3>3. CASE r \notin group /\ result[r] = "none"
            <4>1. PICK j \in 1..Len(work) : work[j] = r
                BY <1>1, <3>3 DEF ImportWhole
            <4>2. j > m /\ m = k
                BY <1>2, <3>3, <4>1
            <4>3. (j - m) \in 1..Len(work') /\ m + (j - m) = j
                BY <1>2, <4>2
            <4>4. work'[j - m] = work[m + (j - m)]
                BY <4>3
            <4>5. work'[j - m] = r
                BY <4>1, <4>3, <4>4
            <4>. QED BY <4>3, <4>5
        <3>. QED BY <3>1, <3>2, <3>3
    <2>. QED BY <1>3, <2>1 DEF ImportWhole
<1>11. NotesTrue'
    <2>1. ASSUME NEW r \in RowSet PROVE sent'[r] <= 1 /\ (result'[r] = "ok" => r \in issued')
        <3>1. CASE r \in group
            BY <1>4, <1>5, <3>1
        <3>2. CASE r \notin group
            BY <1>1, <1>4, <3>2 DEF NotesTrue
        <3>. QED BY <3>1, <3>2
    <2>2. ASSUME NEW r \in issued' PROVE result'[r] = "ok" \/ r \in open'
        <3>1. CASE r \in group
            BY <1>4, <1>5, <2>2, <3>1
        <3>2. CASE r \notin group
            <4>1. r \in issued /\ r \in RowSet
                BY <1>1, <1>4, <2>2, <3>2 DEF BulkTypeOK
            <4>. QED BY <1>1, <1>4, <3>2, <4>1 DEF NotesTrue
        <3>. QED BY <3>1, <3>2
    <2>3. stage' = "submit"
        OBVIOUS
    <2>. QED BY <1>3, <2>1, <2>2, <2>3 DEF NotesTrue
<1>12. ReportTrue'
    BY <1>1, <1>3 DEF ReportTrue
<1>. QED BY <1>6, <1>8, <1>9, <1>10, <1>11, <1>12 DEF BulkInv

LEMMA SubmitRowInv ==
    ASSUME BulkInv, NEW s \in Fates, NEW took \in BOOLEAN, SubmitRow(s, took)
    PROVE  BulkInv'
<1>. DEFINE n == Len(work)
<1>1. /\ command = "bulk" /\ stage = "submit" /\ work # <<>> /\ work \in Seq(RowSet) /\ n \in Nat /\ n >= 1
      /\ UNCHANGED <<inputs, stage, alone, shown>>
    BY DEF BulkInv, BulkTypeOK, SubmitRow
<1>2. Head(work) = work[1] /\ {Head(work)} = {work[i] : i \in 1..1}
    BY <1>1
<1>3. /\ Outcome({work[i] : i \in 1..1}, s, took)
      /\ Note({work[i] : i \in 1..1}, Word(s))
      /\ work' = IF Word(s) = "ok" \/ continue_on_error THEN Tail(work) ELSE <<>>
    BY <1>2 DEF SubmitRow
<1>4. CASE Word(s) = "ok" \/ continue_on_error
    <2>1. work' \in Seq(RowSet) /\ Len(work') = n - 1 /\ \A i \in 1..Len(work') : work'[i] = work[1 + i]
        BY <1>1, <1>3, <1>4
    <2>2. 1 \in 1..n
        BY <1>1
    <2>. QED BY <1>1, <1>3, <1>4, <2>1, <2>2, SubmittedInv
<1>5. CASE ~(Word(s) = "ok" \/ continue_on_error)
    <2>1. work' \in Seq(RowSet) /\ Len(work') = n - n /\ \A i \in 1..Len(work') : work'[i] = work[n + i]
        BY <1>1, <1>3, <1>5
    <2>2. 1 \in 1..n /\ n \in 1..n
        BY <1>1
    <2>. QED BY <1>1, <1>3, <1>5, <2>1, <2>2, SubmittedInv
<1>. QED BY <1>4, <1>5

(* No receipt of the SDK makes import try the rows of a chunk alone. *)
LEMMA SubmitChunkInv ==
    ASSUME BulkInv, NEW s \in Fates, NEW took \in BOOLEAN, SubmitChunk(s, took)
    PROVE  BulkInv'
<1>. DEFINE n == Len(work)
            k == IF n < chunk_size THEN n ELSE chunk_size
<1>1. /\ command = "import" /\ stage = "submit" /\ alone = <<>> /\ work \in Seq(RowSet) /\ n \in Nat
      /\ chunk_size \in Nat \ {0}
    BY DEF BulkInv, BulkTypeOK, SubmitChunk
<1>2. ~TryAlone(Receipt(s))
    BY DEF Receipt, TryAlone
<1>3. /\ Members(Chunk) # {} /\ Outcome(Members(Chunk), s, took)
      /\ Note(Members(Chunk), Word(s))
      /\ work' = Rest /\ UNCHANGED <<inputs, stage, alone, shown>>
    BY <1>1, <1>2 DEF SubmitChunk
<1>4. k \in 0..n /\ k \in Nat
    BY <1>1
<1>5. Chunk = SubSeq(work, 1, k)
    BY DEF Chunk
<1>. HIDE DEF k
<1>6. Chunk \in Seq(RowSet) /\ Len(Chunk) = k /\ \A i \in 1..k : Chunk[i] = work[i]
    BY <1>1, <1>4, <1>5
<1>7. Members(Chunk) = {work[i] : i \in 1..k}
    BY <1>6 DEF Members
<1>8. k \in 1..n
    BY <1>3, <1>4, <1>7
<1>9. Rest = SubSeq(work, k + 1, n)
    BY <1>6 DEF Rest
<1>10. work' \in Seq(RowSet) /\ Len(work') = n - k /\ \A i \in 1..Len(work') : work'[i] = work[k + i]
    BY <1>1, <1>3, <1>8, <1>9
<1>11. k \in k..n
    BY <1>8
<1>. QED BY <1>1, <1>3, <1>7, <1>8, <1>10, <1>11, SubmittedInv

(* A run ends with a report, of its rows or of less. *)
LEMMA ReportedInv ==
    ASSUME BulkInv, stage = "submit", stage' \in {"done", "unsaved"}, work = <<>>,
           UNCHANGED <<inputs, work, alone, result, issued, sent, open>>,
           \/ shown' = result /\ stage' = "done"
           \/ UNCHANGED shown /\ (stage' = "done" => Unlisted')
    PROVE  BulkInv'
<1>1. /\ BulkTypeOK /\ WorkPending /\ BulkInTurn /\ ImportWhole /\ NotesTrue /\ ReportTrue
      /\ UNCHANGED <<command, rows, dry_run, continue_on_error, chunk_size, output>>
    BY DEF BulkInv, inputs
<1>2. RowSet' = RowSet /\ ~Spoiled /\ ~Spoiled'
    BY <1>1 DEF RowSet, Spoiled, NotesTrue
<1>3. BulkTypeOK'
    BY <1>1, <1>2 DEF BulkTypeOK, BulkStages
<1>4. WorkPending' /\ BulkInTurn' /\ ImportWhole'
    BY <1>1, <1>2 DEF WorkPending, BulkInTurn, ImportWhole
<1>5. NotesTrue'
    BY <1>1, <1>2 DEF NotesTrue
<1>6. ReportTrue'
    BY <1>1, <1>2 DEF ReportTrue
<1>. QED BY <1>3, <1>4, <1>5, <1>6 DEF BulkInv

LEMMA ReportBulkInv == ASSUME BulkInv, ReportBulk PROVE BulkInv'
<1>1. /\ stage = "submit" /\ work = <<>> /\ stage' = "done" /\ command = "bulk"
      /\ UNCHANGED <<inputs, work, alone, result, issued, sent, open>>
    BY DEF ReportBulk
<1>2. Failures' = Failures /\ command' = "bulk" /\ output' = output
    BY <1>1 DEF Failures, inputs, RowSet
<1>3. shown' = result \/ (UNCHANGED shown /\ Failures # {} /\ output # "Json")
    BY DEF ReportBulk
<1>4. output \in {"Human", "Json"}
    BY <1>1 DEF BulkInv, BulkTypeOK
<1>5. shown' = result \/ (UNCHANGED shown /\ Unlisted')
    BY <1>2, <1>3, <1>4 DEF Unlisted
<1>. QED BY <1>1, <1>5, ReportedInv

LEMMA ReportImportInv == ASSUME BulkInv, NEW saved \in BOOLEAN, ReportImport(saved) PROVE BulkInv'
BY ReportedInv DEF ReportImport

LEMMA BulkNextInv == BulkInv /\ [BulkNext]_bulkVars => BulkInv'
<1>. SUFFICES ASSUME BulkInv, [BulkNext]_bulkVars PROVE BulkInv'
    OBVIOUS
<1>1. CASE UNCHANGED bulkVars
    BY <1>1 DEF bulkVars, BulkInv, BulkTypeOK, WorkPending, BulkInTurn, ImportWhole, NotesTrue,
                ReportTrue, Spoiled, Unlisted, Failures, RowSet
<1>2. CASE BulkNext
    BY <1>2, ValidateBulkInv, ValidateImportInv, SubmitRowInv, SubmitChunkInv, ReportBulkInv,
       ReportImportInv DEF BulkNext
<1>. QED BY <1>1, <1>2

(* Whatever fails in a run of attest bulk or attest import: a row shown as *)
(* issued is issued, a run that lists its rows shows every issued row as   *)
(* issued unless its transaction got no answer, and import lists all of    *)
(* them; no row is in two transactions that may both take effect, though   *)
(* import has a branch that submits a chunk again row by row; bulk sends   *)
(* nothing of a file with an invalid row and nothing after a failure it    *)
(* stops at.  For any file, chunk size and any failures.                   *)
THEOREM BulkAccounted == BulkSpec => []RowsAccounted
<1>1. BulkInv => RowsAccounted
    <2>. SUFFICES ASSUME BulkInv PROVE RowsAccounted
        OBVIOUS
    <2>0. BulkTypeOK /\ WorkPending /\ BulkInTurn /\ ImportWhole /\ NotesTrue /\ ReportTrue
        BY DEF BulkInv
    <2>1. \A r \in RowSet : sent[r] <= 1 /\ (shown[r] = "ok" => r \in issued)
        BY <2>0 DEF NotesTrue, ReportTrue
    <2>2. ASSUME stage = "done", ~Unlisted
          PROVE  /\ \A r \in issued : shown[r] = "ok" \/ r \in open
                 /\ command = "import" => \A r \in RowSet : shown[r] # "none"
        <3>1. shown = result /\ Len(work) = 0
            BY <2>0, <2>2 DEF ReportTrue, WorkPending
        <3>. QED BY <2>0, <2>2, <3>1 DEF NotesTrue, ImportWhole
    <2>3. stage \in {"failed", "preview"} => issued = {} /\ \A r \in RowSet : sent[r] = 0
        BY <2>0 DEF NotesTrue, BulkTypeOK
    <2>4. command = "bulk" /\ (\E r \in RowSet : rows[r] = "invalid") => \A r \in RowSet : sent[r] = 0
        BY <2>0 DEF NotesTrue, Spoiled
    <2>5. command = "bulk" /\ ~continue_on_error =>
            \A r, q \in RowSet : r < q /\ result[r] = "error" => sent[q] = 0
        BY <2>0 DEF BulkInTurn, WorkPending
    <2>. QED BY <2>1, <2>2, <2>3, <2>4, <2>5 DEF RowsAccounted
<1>. QED BY <1>1, BulkInitInv, BulkNextInv, PTL DEF BulkSpec

------------------------------------------------------------------------------
(* Migration from EAS.                                                     *)

(* The first n of the files `env` hold 1..upto, each once. *)
Laid(env, n, upto) ==
    /\ \A b \in 1..n : env[b] \in Seq(Nat) /\ Len(env[b]) <= MaxRecords
    /\ \A b \in 1..n : \A i \in 1..Len(env[b]) : env[b][i] \in 1..upto
    /\ \A k \in 1..upto : \E b \in 1..n : \E i \in 1..Len(env[b]) : env[b][i] = k
    /\ \A b, c \in 1..n : \A i \in 1..Len(env[b]), j \in 1..Len(env[c]) :
         env[b][i] = env[c][j] => b = c /\ i = j

Fetching == [phase : {"fetch"}, resume : BOOLEAN, size : Nat \ {0}, attempts : Nat]

Running ==
    [phase : {"off", "records", "batch", "last", "save", "final", "report"}, size : Nat \ {0},
     idx : Nat, batches : Nat, migrated : Nat, batch : Seq(Nat), series : Nat]

CheckpointType ==
    [last_index : Nat, batches_emitted : Nat, attestations_migrated : Nat, series : Nat]

MigrationTypeOK ==
    /\ source \in 0..MaxRecords /\ found \in Nat /\ series \in Nat
    /\ envelopes \in [1..(MaxRecords + 1) -> Seq(Nat) \cup {Torn, NoFile}]
    /\ checkpoint \in CheckpointType \cup {NoFile, Torn}
    /\ run \in Fetching \cup Running

(* The checkpoint continues the latest start. *)
Latest(cp) == cp \notin {NoFile, Torn} /\ cp.series = series

(* What a checkpoint of the latest start says has been written. *)
CheckpointTrue ==
    checkpoint \notin {NoFile, Torn} =>
      /\ series >= 1 /\ checkpoint.series <= series
      /\ checkpoint.series = series =>
           /\ Laid(envelopes, checkpoint.batches_emitted, checkpoint.last_index)
           /\ checkpoint.attestations_migrated = checkpoint.last_index
           /\ checkpoint.last_index <= source
           /\ checkpoint.batches_emitted <= checkpoint.last_index

(* A run that continues the latest start: its batch goes on where its      *)
(* files end.                                                              *)
RunTrue ==
    /\ found = source /\ run.idx <= found /\ run.migrated = run.idx
    /\ Len(run.batch) <= run.idx
    /\ \A i \in 1..Len(run.batch) : run.batch[i] = run.idx - Len(run.batch) + i
    /\ Laid(envelopes, run.batches, run.idx - Len(run.batch))
    /\ run.batches <= run.idx - Len(run.batch)
    /\ run.phase \in {"batch", "last"} => run.batch # <<>>
    /\ run.phase \in {"save", "final", "report"} => run.batch = <<>>
    /\ run.phase \in {"last", "final", "report"} => run.idx = found
    /\ Latest(checkpoint) => checkpoint.batches_emitted <= run.batches

(* Any other run: either no checkpoint of the latest start is left to      *)
(* spoil, or it was given no records and writes no file.                   *)
RunHarmless ==
    \/ ~Latest(checkpoint)
    \/ found = 0 /\ run.batch = <<>> /\ run.phase \in {"records", "final", "report"}

RunGoes ==
    run.phase \notin {"off", "fetch"} =>
      /\ series >= 1 /\ run.series <= series
      /\ IF run.series = series THEN RunTrue ELSE RunHarmless

MigrationInv == MigrationTypeOK /\ CheckpointTrue /\ RunGoes

LEMMA NotRunningType == NotRunning \in Running /\ NotRunning.phase = "off"
BY DEF NotRunning, Running

LEMMA MigrationInitInv == MigrationInit => MigrationInv
BY MigrationAssumption, NotRunningType
   DEF MigrationInit, MigrationInv, MigrationTypeOK, CheckpointTrue, RunGoes

(* No file is laid out as no record. *)
LEMMA LaidNothing == ASSUME NEW env PROVE Laid(env, 0, 0)
BY DEF Laid

(* Files beyond the first n do not matter. *)
LEMMA LaidKept ==
    ASSUME NEW env, NEW new, NEW n \in Nat, NEW upto \in Nat, Laid(env, n, upto),
           \A b \in 1..n : new[b] = env[b]
    PROVE  Laid(new, n, upto)
<1>1. \A b \in 1..n : new[b] \in Seq(Nat) /\ Len(new[b]) <= MaxRecords
    BY DEF Laid
<1>2. ASSUME NEW b \in 1..n, NEW i \in 1..Len(new[b]) PROVE new[b][i] \in 1..upto
    <2>1. i \in 1..Len(env[b]) /\ new[b][i] = env[b][i]
        OBVIOUS
    <2>. QED BY <2>1 DEF Laid
<1>3. ASSUME NEW k \in 1..upto PROVE \E b \in 1..n : \E i \in 1..Len(new[b]) : new[b][i] = k
    <2>1. PICK b \in 1..n : \E i \in 1..Len(env[b]) : env[b][i] = k
        BY DEF Laid
    <2>2. new[b] = env[b]
        OBVIOUS
    <2>. QED BY <2>1, <2>2
<1>4. ASSUME NEW b \in 1..n, NEW c \in 1..n, NEW i \in 1..Len(new[b]), NEW j \in 1..Len(new[c]),
             new[b][i] = new[c][j]
      PROVE  b = c /\ i = j
    <2>1. new[b] = env[b] /\ new[c] = env[c]
        OBVIOUS
    <2>2. i \in 1..Len(env[b]) /\ j \in 1..Len(env[c]) /\ env[b][i] = env[c][j]
        BY <1>4, <2>1
    <2>. QED BY <2>2 DEF Laid
<1>. QED BY <1>1, <1>2, <1>3, <1>4 DEF Laid

(* One more file with the records that follow. *)
LEMMA LaidMore ==
    ASSUME NEW env, NEW new, NEW n \in Nat, NEW upto \in Nat, Laid(env, n, upto),
           \A b \in 1..n : new[b] = env[b],
           NEW s \in Seq(Nat), new[n + 1] = s, Len(s) <= MaxRecords,
           \A i \in 1..Len(s) : s[i] = upto + i
    PROVE  Laid(new, n + 1, upto + Len(s))
<1>. DEFINE m == n + 1
<1>0. Len(s) \in Nat /\ \A b \in 1..m : b \in 1..n \/ b = m
    OBVIOUS
<1>k. Laid(new, n, upto)
    BY LaidKept
<1>1. \A b \in 1..m : new[b] \in Seq(Nat) /\ Len(new[b]) <= MaxRecords
    <2>1. \A b \in 1..n : new[b] \in Seq(Nat) /\ Len(new[b]) <= MaxRecords
        BY <1>k DEF Laid
    <2>. QED BY <1>0, <2>1
<1>2. \A b \in 1..n : \A i \in 1..Len(new[b]) : new[b][i] \in 1..upto
    BY <1>k DEF Laid
<1>3. \A i \in 1..Len(new[m]) : new[m][i] = upto + i /\ new[m][i] \in Nat
    OBVIOUS
<1>4. \A b \in 1..m : \A i \in 1..Len(new[b]) : new[b][i] \in 1..(upto + Len(s))
    BY <1>0, <1>2, <1>3
<1>5. ASSUME NEW k \in 1..(upto + Len(s))
      PROVE  \E b \in 1..m : \E i \in 1..Len(new[b]) : new[b][i] = k
    <2>1. CASE k <= upto
        <3>1. k \in 1..upto
            BY <2>1
        <3>2. PICK b \in 1..n : \E i \in 1..Len(new[b]) : new[b][i] = k
            BY <1>k, <3>1 DEF Laid
        <3>3. b \in 1..m
            OBVIOUS
        <3>. QED BY <3>2, <3>3
    <2>2. CASE k > upto
        <3>1. (k - upto) \in 1..Len(new[m]) /\ new[m][k - upto] = k /\ m \in 1..m
            BY <1>0, <1>3, <2>2
        <3>. QED BY <3>1
    <2>. QED BY <2>1, <2>2
<1>6. ASSUME NEW b \in 1..m, NEW c \in 1..m, NEW i \in 1..Len(new[b]), NEW j \in 1..Len(new[c]),
             new[b][i] = new[c][j]
      PROVE  b = c /\ i = j
    <2>1. CASE b \in 1..n /\ c \in 1..n
        BY <1>k, <1>6, <2>1 DEF Laid
    <2>2. CASE b = m /\ c = m
        <3>1. new[m][i] = upto + i /\ new[m][j] = upto + j
            BY <1>3, <2>2
        <3>. QED BY <1>6, <2>2, <3>1
    <2>3. CASE b \in 1..n /\ c = m
        <3>1. new[b][i] \in 1..upto /\ new[c][j] = upto + j
            BY <1>2, <1>3, <2>3
        <3>. QED BY <1>6, <3>1
    <2>4. CASE b = m /\ c \in 1..n
        <3>1. new[c][j] \in 1..upto /\ new[b][i] = upto + i
            BY <1>2, <1>3, <2>4
        <3>. QED BY <1>6, <3>1
    <2>. QED BY <1>0, <2>1, <2>2, <2>3, <2>4
<1>. QED BY <1>1, <1>4, <1>5, <1>6 DEF Laid

(* Files laid out so are exact. *)
LEMMA LaidExact ==
    ASSUME MigrationTypeOK, NEW n \in Nat, NEW upto \in Nat, Laid(envelopes, n, upto)
    PROVE  Exact(n, upto)
<1>. DEFINE f == [p \in Filled(n) |-> envelopes[p[1]][p[2]]]
<1>1. \A p \in Filled(n) : p[1] \in 1..n /\ p[2] \in 1..Len(envelopes[p[1]]) /\ p = <<p[1], p[2]>>
    BY DEF Filled, Laid
<1>2. \A b \in 1..n : \A i \in 1..Len(envelopes[b]) : <<b, i>> \in Filled(n)
    BY MigrationAssumption DEF Filled, Laid
<1>3. f \in [Filled(n) -> 1..upto]
    BY <1>1 DEF Laid
<1>4. ASSUME NEW p \in Filled(n), NEW q \in Filled(n), f[p] = f[q] PROVE p = q
    <2>1. envelopes[p[1]][p[2]] = envelopes[q[1]][q[2]]
        BY <1>4
    <2>2. /\ p[1] \in 1..n /\ p[2] \in 1..Len(envelopes[p[1]])
          /\ q[1] \in 1..n /\ q[2] \in 1..Len(envelopes[q[1]])
        BY <1>1
    <2>. DEFINE b == p[1]
                c == q[1]
                i == p[2]
                j == q[2]
    <2>3. \A x, y \in 1..n : \A k \in 1..Len(envelopes[x]), l \in 1..Len(envelopes[y]) :
            envelopes[x][k] = envelopes[y][l] => x = y /\ k = l
        BY DEF Laid
    <2>4. /\ b \in 1..n /\ c \in 1..n /\ i \in 1..Len(envelopes[b]) /\ j \in 1..Len(envelopes[c])
          /\ envelopes[b][i] = envelopes[c][j]
        BY <2>1, <2>2
    <2>. HIDE DEF f, b, c, i, j
    <2>5. b = c /\ i = j
        BY <2>3, <2>4
    <2>. QED BY <1>1, <2>5 DEF b, c, i, j
<1>5. \A k \in 1..upto : \E p \in Filled(n) : f[p] = k
    <2>. TAKE k \in 1..upto
    <2>0. PICK b \in 1..n : \E i \in 1..Len(envelopes[b]) : envelopes[b][i] = k
        BY DEF Laid
    <2>1. PICK i \in 1..Len(envelopes[b]) : envelopes[b][i] = k
        BY <2>0
    <2>2. <<b, i>> \in Filled(n) /\ f[<<b, i>>] = k
        BY <1>2, <2>1
    <2>. QED BY <2>2
<1>. HIDE DEF f
<1>6. f \in Injection(Filled(n), 1..upto) /\ f \in Surjection(Filled(n), 1..upto)
    BY <1>3, <1>4, <1>5 DEF Injection, Surjection, IsInjective
<1>7. Cardinality(Filled(n)) = upto
    <2>1. IsFiniteSet(1..upto) /\ Cardinality(1..upto) = upto
        BY FS_Interval
    <2>. QED BY <1>6, <2>1, FS_Injection
<1>8. \A b \in 1..n : envelopes[b] \notin {NoFile, Torn}
    BY MigrationAssumption DEF Laid
<1>9. {envelopes[p[1]][p[2]] : p \in Filled(n)} = 1..upto
    BY <1>3, <1>5 DEF f
<1>. QED BY <1>7, <1>8, <1>9 DEF Exact

(* The run moves and writes nothing. *)
LEMMA RunMigrateInv ==
    ASSUME MigrationInv, NEW resume \in BOOLEAN, NEW size \in BatchSizes, RunMigrate(resume, size)
    PROVE  MigrationInv'
<1>1. run' \in Fetching /\ run'.phase = "fetch"
    BY MigrationAssumption DEF RunMigrate, Fetching
<1>. QED BY <1>1 DEF RunMigrate, MigrationInv, MigrationTypeOK, CheckpointTrue, RunGoes

LEMMA EvmNodeFailsInv ==
    ASSUME MigrationInv, NEW transient \in BOOLEAN, EvmNodeFails(transient)
    PROVE  MigrationInv'
<1>1. run \in Fetching
    BY DEF MigrationInv, MigrationTypeOK, EvmNodeFails, Running
<1>2. run' \in Fetching \cup Running /\ run'.phase \in {"off", "fetch"}
    BY <1>1, NotRunningType DEF EvmNodeFails, Fetching
<1>. QED BY <1>2 DEF EvmNodeFails, MigrationInv, MigrationTypeOK, CheckpointTrue, RunGoes

LEMMA StartRunInv ==
    ASSUME MigrationInv, NEW blank \in BOOLEAN, StartRun(blank)
    PROVE  MigrationInv'
<1>1. run \in Fetching /\ MigrationTypeOK /\ CheckpointTrue
    BY DEF MigrationInv, MigrationTypeOK, StartRun, Running
<1>2. CASE Resumes(run.resume)
    <2>1. checkpoint \in CheckpointType /\ checkpoint \notin {NoFile, Torn}
        BY <1>1, <1>2 DEF Resumes, MigrationTypeOK
    <2>2. run' = [phase |-> "records", size |-> run.size, idx |-> checkpoint.last_index,
                  batches |-> checkpoint.batches_emitted,
                  migrated |-> checkpoint.attestations_migrated, batch |-> <<>>,
                  series |-> IF blank THEN 0 ELSE checkpoint.series]
          /\ series' = series /\ found' = (IF blank THEN 0 ELSE source)
          /\ UNCHANGED <<source, envelopes, checkpoint>>
        BY <1>2 DEF StartRun
    <2>3. run' \in Running
        BY <1>1, <2>1, <2>2 DEF Running, Fetching, CheckpointType
    <2>4. MigrationTypeOK' /\ CheckpointTrue'
        BY <1>1, <2>2, <2>3 DEF MigrationTypeOK, CheckpointTrue
    <2>5. series >= 1 /\ checkpoint.series <= series /\ series \in Nat /\ source \in Nat
        BY <1>1, <2>1 DEF CheckpointTrue, MigrationTypeOK
    <2>6. CASE ~blank /\ checkpoint.series = series
        <3>1. /\ Laid(envelopes, checkpoint.batches_emitted, checkpoint.last_index)
              /\ checkpoint.attestations_migrated = checkpoint.last_index
              /\ checkpoint.last_index <= source
              /\ checkpoint.batches_emitted <= checkpoint.last_index
              /\ checkpoint.last_index \in Nat /\ checkpoint.batches_emitted \in Nat
            BY <1>1, <2>1, <2>6 DEF CheckpointTrue, CheckpointType
        <3>2. Len(run'.batch) = 0 /\ run'.phase = "records" /\ run'.idx = checkpoint.last_index
              /\ run'.idx - Len(run'.batch) = checkpoint.last_index
              /\ run'.batches = checkpoint.batches_emitted /\ run'.series = series
              /\ run'.migrated = checkpoint.attestations_migrated
            BY <2>2, <2>6, <3>1
        <3>3. RunTrue'
            BY <2>2, <2>6, <3>1, <3>2 DEF RunTrue, Latest
        <3>. QED BY <2>2, <2>4, <2>5, <3>2, <3>3 DEF MigrationInv, RunGoes
    <2>7. CASE blank \/ checkpoint.series # series
        <3>1. run'.series # series /\ run'.series <= series
            BY <2>2, <2>5, <2>7
        <3>2. RunHarmless'
            BY <2>2, <2>7 DEF RunHarmless, Latest
        <3>. QED BY <2>2, <2>4, <2>5, <3>1, <3>2 DEF MigrationInv, RunGoes
    <2>. QED BY <2>6, <2>7
<1>3. CASE ~Resumes(run.resume)
    <2>2. run' = [phase |-> "records", size |-> run.size, idx |-> 0, batches |-> 0, migrated |-> 0,
                  batch |-> <<>>, series |-> IF blank THEN 0 ELSE series + 1]
          /\ series' = series + 1 /\ found' = (IF blank THEN 0 ELSE source)
          /\ UNCHANGED <<source, envelopes, checkpoint>>
        BY <1>3 DEF StartRun, NotRunning
    <2>3. run' \in Running /\ series \in Nat /\ source \in Nat
        BY <1>1, <2>2 DEF Running, Fetching, MigrationTypeOK
    <2>4. MigrationTypeOK'
        BY <1>1, <2>2, <2>3 DEF MigrationTypeOK
    <2>5. checkpoint \notin {NoFile, Torn} => checkpoint.series <= series /\ checkpoint.series \in Nat
        BY <1>1 DEF CheckpointTrue, MigrationTypeOK, CheckpointType
    <2>6. CheckpointTrue' /\ ~Latest(checkpoint)'
        BY <2>2, <2>3, <2>5 DEF CheckpointTrue, Latest
    <2>7. Laid(envelopes, 0, 0)
        BY LaidNothing
    <2>8. ~blank => RunTrue'
        BY <2>2, <2>3, <2>6, <2>7 DEF RunTrue
    <2>9. RunHarmless'
        BY <2>6 DEF RunHarmless
    <2>. QED BY <2>2, <2>3, <2>4, <2>6, <2>8, <2>9 DEF MigrationInv, RunGoes
<1>. QED BY <1>2, <1>3

LEMMA NextRecordInv == ASSUME MigrationInv, NextRecord PROVE MigrationInv'
<1>1. run \in Running /\ MigrationTypeOK /\ CheckpointTrue /\ RunGoes /\ run.phase = "records"
    BY DEF MigrationInv, MigrationTypeOK, NextRecord, Fetching
<1>2. UNCHANGED <<source, found, envelopes, checkpoint, series>>
    BY DEF NextRecord
<1>3. CheckpointTrue'
    BY <1>1, <1>2 DEF CheckpointTrue
<1>4. found \in Nat /\ run.idx \in Nat /\ run.batch \in Seq(Nat) /\ run.batches \in Nat /\ run.migrated \in Nat
      /\ run.size \in Nat \ {0} /\ run.series \in Nat /\ Len(run.batch) \in Nat
    BY <1>1 DEF MigrationTypeOK, Running
<1>5. CASE run.idx < found
    <2>. DEFINE b == Append(run.batch, run.idx + 1)
    <2>1. run' = [run EXCEPT !.idx = run.idx + 1, !.migrated = run.migrated + 1, !.batch = b,
                             !.phase = IF Len(b) >= run.size THEN "batch" ELSE "records"]
        BY <1>5 DEF NextRecord
    <2>0. run.idx + 1 \in Nat /\ run.migrated + 1 \in Nat
        BY <1>4
    <2>a. b \in Seq(Nat) /\ Len(b) = Len(run.batch) + 1
        BY <1>4, <2>0
    <2>b. \A i \in 1..Len(b) : b[i] = IF i = Len(b) THEN run.idx + 1 ELSE run.batch[i]
        BY <1>4, <2>0, <2>a
    <2>2. b \in Seq(Nat) /\ Len(b) = Len(run.batch) + 1 /\ b # <<>>
          /\ \A i \in 1..Len(b) : b[i] = IF i = Len(b) THEN run.idx + 1 ELSE run.batch[i]
        BY <1>4, <2>a, <2>b
    <2>. HIDE DEF b
    <2>3. run' \in Running /\ run'.idx = run.idx + 1 /\ run'.migrated = run.migrated + 1
          /\ run'.batch = b /\ run'.phase \in {"batch", "records"} /\ run'.batches = run.batches
          /\ run'.series = run.series
        BY <1>1, <2>0, <2>1, <2>a DEF Running
    <2>4. MigrationTypeOK'
        BY <1>1, <1>2, <2>3 DEF MigrationTypeOK
    <2>5. ASSUME RunTrue PROVE RunTrue'
        <3>0. Len(b) = Len(run.batch) + 1 /\ run'.idx = run.idx + 1 /\ run'.batch = b
              /\ run.idx \in Nat /\ Len(run.batch) \in Nat
            BY <1>4, <2>a, <2>3
        <3>1. run'.idx - Len(run'.batch) = run.idx - Len(run.batch)
            BY <3>0
        <3>2. \A i \in 1..Len(b) : b[i] = run'.idx - Len(b) + i
            <4>1. \A i \in 1..Len(run.batch) : run.batch[i] = run.idx - Len(run.batch) + i
                BY <2>5 DEF RunTrue
            <4>2. ASSUME NEW i \in 1..Len(b), i # Len(b) PROVE b[i] = run'.idx - Len(b) + i
                <5>1. i \in 1..Len(run.batch) /\ b[i] = run.batch[i]
                    BY <2>b, <3>0, <4>2
                <5>2. b[i] = run.idx - Len(run.batch) + i
                    BY <4>1, <5>1
                <5>. QED BY <3>0, <4>2, <5>2
            <4>3. Len(b) \in 1..Len(b) /\ b[Len(b)] = run.idx + 1
                BY <2>b, <3>0
            <4>4. b[Len(b)] = run'.idx - Len(b) + Len(b)
                BY <3>0, <4>3
            <4>. QED BY <4>2, <4>4
        <3>3. Len(run'.batch) <= run'.idx /\ run'.idx <= found /\ run'.migrated = run'.idx
            BY <1>4, <1>5, <2>2, <2>3, <2>5 DEF RunTrue
        <3>. QED BY <1>2, <2>2, <2>3, <2>5, <3>1, <3>2, <3>3 DEF RunTrue, Latest
    <2>6. ASSUME RunHarmless PROVE RunHarmless'
        BY <1>2, <1>4, <1>5, <2>6 DEF RunHarmless, Latest
    <2>. QED BY <1>1, <1>2, <1>3, <2>3, <2>4, <2>5, <2>6 DEF MigrationInv, RunGoes
<1>6. CASE ~(run.idx < found)
    <2>1. run' = [run EXCEPT !.phase = IF run.batch = <<>> THEN "final" ELSE "last"]
        BY <1>6 DEF NextRecord
    <2>2. run' \in Running /\ run'.idx = run.idx /\ run'.migrated = run.migrated
          /\ run'.batch = run.batch /\ run'.batches = run.batches /\ run'.series = run.series
          /\ run'.phase = (IF run.batch = <<>> THEN "final" ELSE "last")
        BY <1>1, <2>1 DEF Running
    <2>3. MigrationTypeOK'
        BY <1>1, <1>2, <2>2 DEF MigrationTypeOK
    <2>4. ASSUME RunTrue PROVE RunTrue'
        <3>1. run.idx = found
            BY <1>4, <1>6, <2>4 DEF RunTrue
        <3>. QED BY <1>2, <2>2, <2>4, <3>1 DEF RunTrue, Latest
    <2>5. ASSUME RunHarmless PROVE RunHarmless'
        BY <1>2, <2>2, <2>5 DEF RunHarmless, Latest
    <2>. QED BY <1>1, <1>2, <1>3, <2>2, <2>3, <2>4, <2>5 DEF MigrationInv, RunGoes
<1>. QED BY <1>5, <1>6

(* The batch file is written, in full or torn: files a checkpoint of the   *)
(* latest start counts are not touched.                                    *)
LEMMA FileWritten ==
    ASSUME MigrationInv, run.phase \in {"batch", "last"}, NEW file \in Seq(Nat) \cup {Torn},
           envelopes' = [envelopes EXCEPT ![run.batches + 1] = file],
           UNCHANGED <<source, checkpoint, series>>
    PROVE  /\ run \in Running
           /\ envelopes' \in [1..(MaxRecords + 1) -> Seq(Nat) \cup {Torn, NoFile}]
           /\ \A b \in 1..run.batches : envelopes'[b] = envelopes[b]
           /\ CheckpointTrue'
<1>1. run \in Running /\ MigrationTypeOK /\ CheckpointTrue /\ RunGoes
    BY DEF MigrationInv, MigrationTypeOK, Fetching
<1>2. envelopes' \in [1..(MaxRecords + 1) -> Seq(Nat) \cup {Torn, NoFile}]
    BY <1>1 DEF MigrationTypeOK
<1>3. run.batches \in Nat /\ run.batches + 1 \in Nat
    BY <1>1 DEF Running
<1>4. ASSUME NEW b \in 1..run.batches PROVE envelopes'[b] = envelopes[b]
    <2>1. b # run.batches + 1
        BY <1>3
    <2>2. CASE b \in 1..(MaxRecords + 1)
        BY <1>1, <2>1, <2>2 DEF MigrationTypeOK
    <2>3. CASE b \notin 1..(MaxRecords + 1)
        <3>. QED BY <1>1, <2>1, <2>3 DEF MigrationTypeOK
    <2>. QED BY <2>2, <2>3
<1>5. CheckpointTrue'
    <2>. SUFFICES ASSUME checkpoint \notin {NoFile, Torn}, checkpoint.series = series
                  PROVE  Laid(envelopes', checkpoint.batches_emitted, checkpoint.last_index)
        BY <1>1 DEF CheckpointTrue
    <2>1. Latest(checkpoint) /\ run.phase \notin {"off", "fetch", "records", "final", "report"}
        BY DEF Latest
    <2>2. RunTrue
        BY <1>1, <2>1 DEF RunGoes, RunHarmless
    <2>3. checkpoint.batches_emitted <= run.batches /\ checkpoint \in CheckpointType
        BY <1>1, <2>1, <2>2 DEF RunTrue, MigrationTypeOK
    <2>4. \A b \in 1..checkpoint.batches_emitted : envelopes'[b] = envelopes[b]
        BY <1>3, <1>4, <2>3 DEF CheckpointType
    <2>. QED BY <1>1, <2>3, <2>4, LaidKept DEF CheckpointTrue, CheckpointType
<1>. QED BY <1>1, <1>2, <1>4, <1>5

LEMMA WriteBatchInv == ASSUME MigrationInv, WriteBatch PROVE MigrationInv'
<1>1. run \in Running /\ MigrationTypeOK /\ RunGoes /\ run.phase \in {"batch", "last"}
    BY DEF MigrationInv, MigrationTypeOK, WriteBatch, Fetching
<1>2. UNCHANGED <<source, found, checkpoint, series>>
      /\ envelopes' = [envelopes EXCEPT ![run.batches + 1] = run.batch]
    BY DEF WriteBatch
<1>3. /\ run.batch \in Seq(Nat) /\ run.idx \in Nat /\ run.batches \in Nat /\ Len(run.batch) \in Nat
      /\ source \in 0..MaxRecords /\ MaxRecords \in Nat
    BY <1>1, MigrationAssumption DEF MigrationTypeOK, Running
<1>4. /\ envelopes' \in [1..(MaxRecords + 1) -> Seq(Nat) \cup {Torn, NoFile}]
      /\ \A b \in 1..run.batches : envelopes'[b] = envelopes[b]
      /\ CheckpointTrue'
    BY <1>1, <1>2, <1>3, FileWritten
<1>5. run' = [run EXCEPT !.batches = run.batches + 1, !.batch = <<>>,
                         !.phase = IF run.phase = "batch" THEN "save" ELSE "final"]
    BY DEF WriteBatch
<1>6. /\ run' \in Running /\ run'.idx = run.idx /\ run'.migrated = run.migrated /\ run'.batch = <<>>
      /\ run'.batches = run.batches + 1 /\ run'.series = run.series
      /\ run'.phase = (IF run.phase = "batch" THEN "save" ELSE "final")
    <2>1. run.batches + 1 \in Nat /\ <<>> \in Seq(Nat)
        BY <1>3
    <2>. QED BY <1>1, <1>5, <2>1 DEF Running
<1>7. MigrationTypeOK'
    BY <1>1, <1>2, <1>4, <1>6 DEF MigrationTypeOK
<1>8. ASSUME RunTrue PROVE RunTrue'
    <2>1. /\ Len(run.batch) <= run.idx /\ run.idx <= source /\ run.batches <= run.idx - Len(run.batch)
          /\ \A i \in 1..Len(run.batch) : run.batch[i] = (run.idx - Len(run.batch)) + i
          /\ Laid(envelopes, run.batches, run.idx - Len(run.batch)) /\ run.batch # <<>>
          /\ run.idx - Len(run.batch) \in Nat
        BY <1>1, <1>3, <1>8 DEF RunTrue
    <2>2. Len(run.batch) > 0 /\ Len(run.batch) <= MaxRecords /\ run.batches + 1 \in 1..(MaxRecords + 1)
        BY <1>3, <2>1
    <2>3. envelopes'[run.batches + 1] = run.batch
        BY <1>1, <1>2, <2>2 DEF MigrationTypeOK
    <2>4. Laid(envelopes', run.batches + 1, (run.idx - Len(run.batch)) + Len(run.batch))
        BY <1>3, <1>4, <2>1, <2>2, <2>3, LaidMore
    <2>5. (run.idx - Len(run.batch)) + Len(run.batch) = run.idx /\ Len(run'.batch) = 0
          /\ run.idx - 0 = run.idx /\ run.batches + 1 <= run.idx
        BY <1>3, <1>6, <2>1, <2>2
    <2>6. Laid(envelopes', run'.batches, run'.idx - Len(run'.batch))
        BY <1>6, <2>4, <2>5
    <2>7. Latest(checkpoint) => checkpoint.batches_emitted <= run.batches + 1
        BY <1>1, <1>3, <1>8 DEF RunTrue, Latest, MigrationTypeOK, CheckpointType
    <2>8. /\ found = source /\ run.idx <= found /\ run.migrated = run.idx
          /\ run.phase = "last" => run.idx = found
        BY <1>8 DEF RunTrue
    <2>9. /\ run'.idx - Len(run'.batch) = run.idx /\ Len(run'.batch) <= run'.idx
          /\ \A i \in 1..Len(run'.batch) : FALSE
        BY <1>3, <1>6, <2>5
    <2>10. Latest(checkpoint)' <=> Latest(checkpoint)
        BY <1>2 DEF Latest
    <2>. QED BY <1>1, <1>2, <1>6, <2>5, <2>6, <2>7, <2>8, <2>9, <2>10 DEF RunTrue
<1>9. ASSUME RunHarmless PROVE RunHarmless'
    BY <1>1, <1>2, <1>9 DEF RunHarmless, Latest
<1>. QED BY <1>1, <1>2, <1>4, <1>6, <1>7, <1>8, <1>9 DEF MigrationInv, RunGoes

LEMMA SaveCheckpointInv == ASSUME MigrationInv, SaveCheckpoint PROVE MigrationInv'
<1>1. run \in Running /\ MigrationTypeOK /\ RunGoes /\ run.phase \in {"save", "final"}
    BY DEF MigrationInv, MigrationTypeOK, SaveCheckpoint, Fetching
<1>2. /\ UNCHANGED <<source, found, envelopes, series>>
      /\ checkpoint' = [last_index |-> IF run.phase = "save" THEN run.idx ELSE found,
                        batches_emitted |-> run.batches, attestations_migrated |-> run.migrated,
                        series |-> run.series]
      /\ run' = [run EXCEPT !.phase = IF run.phase = "save" THEN "records" ELSE "report"]
    BY DEF SaveCheckpoint, Saved
<1>3. /\ run' \in Running /\ run'.idx = run.idx /\ run'.migrated = run.migrated /\ run'.batch = run.batch
      /\ run'.batches = run.batches /\ run'.series = run.series
      /\ run'.phase = (IF run.phase = "save" THEN "records" ELSE "report")
    BY <1>1, <1>2 DEF Running
<1>4. checkpoint' \in CheckpointType /\ checkpoint'.series = run.series
      /\ checkpoint'.batches_emitted = run.batches /\ checkpoint'.attestations_migrated = run.migrated
      /\ checkpoint'.last_index = (IF run.phase = "save" THEN run.idx ELSE found)
    BY <1>1, <1>2 DEF CheckpointType, Running, MigrationTypeOK
<1>5. MigrationTypeOK'
    BY <1>1, <1>2, <1>3, <1>4 DEF MigrationTypeOK
<1>6. series >= 1 /\ run.series <= series
    BY <1>1 DEF RunGoes
<1>7. CASE run.series = series
    <2>1. RunTrue
        BY <1>1, <1>7 DEF RunGoes
    <2>2. Len(run.batch) = 0 /\ run.idx - Len(run.batch) = run.idx /\ run.idx \in Nat /\ run.batches \in Nat
        BY <1>1, <2>1 DEF RunTrue, Running
    <2>3. checkpoint'.last_index = run.idx /\ run.idx <= source
        BY <1>1, <1>4, <2>1 DEF RunTrue
    <2>4. CheckpointTrue'
        BY <1>2, <1>4, <1>6, <2>1, <2>2, <2>3 DEF CheckpointTrue, RunTrue
    <2>5. RunTrue'
        BY <1>2, <1>1, <1>3, <1>4, <2>1, <2>2 DEF RunTrue
    <2>. QED BY <1>2, <1>3, <1>5, <1>6, <1>7, <2>4, <2>5 DEF MigrationInv, RunGoes
<1>8. CASE run.series # series
    <2>1. ~Latest(checkpoint)'
        BY <1>2, <1>4, <1>8 DEF Latest
    <2>2. CheckpointTrue'
        BY <1>2, <1>4, <1>6, <1>8 DEF CheckpointTrue
    <2>. QED BY <1>2, <1>3, <1>5, <1>6, <1>8, <2>1, <2>2 DEF MigrationInv, RunGoes, RunHarmless
<1>. QED BY <1>7, <1>8

LEMMA RunEndsInv ==
    ASSUME MigrationInv, WriteReport \/ ProcessDies
    PROVE  MigrationInv'
<1>1. run' = NotRunning /\ UNCHANGED <<source, found, series>>
    BY DEF WriteReport, ProcessDies
<1>2. run' \in Running /\ run'.phase = "off" /\ MigrationTypeOK /\ CheckpointTrue
    BY <1>1, NotRunningType DEF MigrationInv
<1>3. CASE UNCHANGED <<envelopes, checkpoint>>
    BY <1>1, <1>2, <1>3 DEF MigrationInv, MigrationTypeOK, CheckpointTrue, RunGoes
<1>4. CASE /\ run.phase \in {"batch", "last"}
           /\ envelopes' = [envelopes EXCEPT ![run.batches + 1] = Torn]
           /\ UNCHANGED checkpoint
    <2>1. /\ envelopes' \in [1..(MaxRecords + 1) -> Seq(Nat) \cup {Torn, NoFile}]
          /\ CheckpointTrue'
        BY <1>1, <1>4, FileWritten
    <2>. QED BY <1>1, <1>2, <1>4, <2>1 DEF MigrationInv, MigrationTypeOK, RunGoes
<1>5. CASE checkpoint' = Torn /\ UNCHANGED envelopes
    BY <1>1, <1>2, <1>5 DEF MigrationInv, MigrationTypeOK, CheckpointTrue, RunGoes
<1>. QED BY <1>3, <1>4, <1>5 DEF WriteReport, ProcessDies

LEMMA SourceGrowsInv == ASSUME MigrationInv, SourceGrows PROVE MigrationInv'
<1>1. /\ MigrationTypeOK /\ CheckpointTrue
      /\ source \in 0..MaxRecords /\ source' = source + 1 /\ source' \in 0..MaxRecords
      /\ UNCHANGED <<found, envelopes, checkpoint, run, series>> /\ run.phase = "off"
    BY MigrationAssumption DEF SourceGrows, MigrationInv, MigrationTypeOK
<1>2. CheckpointTrue'
    BY <1>1 DEF CheckpointTrue, MigrationTypeOK, CheckpointType
<1>. QED BY <1>1, <1>2 DEF MigrationInv, MigrationTypeOK, RunGoes

LEMMA MigrationNextInv == MigrationInv /\ [MigrationNext]_migrationVars => MigrationInv'
<1>. SUFFICES ASSUME MigrationInv, [MigrationNext]_migrationVars PROVE MigrationInv'
    OBVIOUS
<1>1. CASE UNCHANGED migrationVars
    BY <1>1 DEF migrationVars, MigrationInv, MigrationTypeOK, CheckpointTrue, RunGoes, RunTrue,
                RunHarmless, Latest
<1>2. CASE MigrationNext
    BY <1>2, RunMigrateInv, EvmNodeFailsInv, StartRunInv, NextRecordInv, WriteBatchInv,
       SaveCheckpointInv, RunEndsInv, SourceGrowsInv DEF MigrationNext
<1>. QED BY <1>1, <1>2

(* A migration that is about to report has written every attestation it    *)
(* discovered to exactly one place of the batch files it counts, over runs *)
(* killed between a batch and its checkpoint, torn files, resumption with  *)
(* another batch size and a source that grows meanwhile, except where it   *)
(* resumed from the checkpoint of an earlier start.  For any records,      *)
(* batch sizes and number of runs.                                         *)
THEOREM MigrationsExact == MigrationSpec => []BatchesExact
<1>1. MigrationInv => BatchesExact
    <2>. SUFFICES ASSUME MigrationInv, run.phase = "report", run.series = series
                  PROVE  run.migrated = found /\ Exact(run.batches, found)
        BY DEF BatchesExact
    <2>1. RunTrue /\ MigrationTypeOK /\ run \in Running
        BY DEF MigrationInv, RunGoes, MigrationTypeOK, Fetching
    <2>2. Len(run.batch) = 0 /\ run.idx - Len(run.batch) = found /\ run.batches \in Nat /\ found \in Nat
        BY <2>1 DEF RunTrue, Running, MigrationTypeOK
    <2>. QED BY <2>1, <2>2, LaidExact DEF RunTrue
<1>. QED BY <1>1, MigrationInitInv, MigrationNextInv, PTL DEF MigrationSpec
==============================================================================
