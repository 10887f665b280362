------------------------------- MODULE SASCli -------------------------------
(***************************************************************************)
(* The sas command line (packages/soroban-sas-cli/src/main.rs, with        *)
(* config.rs, network.rs, cache.rs and offchain.rs): how a command finds   *)
(* its signer, RPC endpoint and passphrase, what it refuses locally, its   *)
(* dry runs, its on-disk cache of reads, its paged queries and its online  *)
(* verification.                                                           *)
(*                                                                         *)
(* Commands run in shells side by side, over one configuration file and    *)
(* one cache directory, and may be killed.  A command is the sequence of   *)
(* the steps its function takes.  The networks are external: other users   *)
(* write to them.  How one write is submitted is the subject of SASClient; *)
(* bulk, import, migrate, watch and deploy-all have modules of their own.  *)
(***************************************************************************)
EXTENDS Naturals, Sequences, FiniteSets

CONSTANTS
    Shells,
    Networks,
    Profiles,     \* profile name -> [rpc_url, network_passphrase]
    Busy,         \* the networks other users write to
    Menu,         \* per shell, what it may run: [steps, flags]
    Unset,        \* a flag, setting, cache entry or answer that is not there
    TornFile,     \* a configuration file that is being written
    cache_ttl,    \* SAS_CACHE_TTL_SECS
    expiration,   \* expiration_time of the attestation that is verified; 0: none
    page_limit,   \* --limit
    MaxClock,     \* bound: the clock
    MaxWrites     \* bound: changes of a network

ASSUME CliAssumption ==
    /\ IsFiniteSet(Networks) /\ Unset \notin Networks \cup Nat /\ Busy \subseteq Networks
    /\ DOMAIN Menu = Shells
    /\ \A n \in DOMAIN Profiles :
         Profiles[n] \in [rpc_url : Networks \cup {Unset}, network_passphrase : Networks \cup {Unset}]
    /\ {Unset, TornFile} \cap DOMAIN Profiles = {}
    /\ cache_ttl \in Nat /\ expiration \in Nat /\ page_limit \in Nat \ {0}
    /\ MaxClock \in Nat /\ MaxWrites \in Nat

VARIABLES
    configFile,  \* the active profile in config.toml; TornFile; Unset: no file
    clock,       \* seconds, of the ledgers and of the machine
    chain,       \* per network: since[v], when its v-th state became current;
                 \* history, the length of the index; attestation, its status
    cacheFile,   \* per cache key: cached_at, answer; history: as_of
    shell        \* what each shell runs

cliVars == <<configFile, clock, chain, cacheFile, shell>>

Version(n) == Len(chain[n].since)

Changeable(n) ==
    Version(n) - 1 + chain[n].history + (IF chain[n].attestation = "revoked" THEN 1 ELSE 0) < MaxWrites

------------------------------------------------------------------------------
(* The commands.                                                           *)

Command(cmds, steps) == [cmd : cmds, steps : {steps}]

ConfigReads ==
    Command({"config list", "config show"}, <<"config">>) \cup Command({"config path"}, <<"local">>)
ConfigUse == Command({"config use"}, <<"config", "truncate", "write">>)

SasDecode == Command({"sas decode"}, <<"url", "local", "read", "read", "decode">>)
SasFees ==
    Command({"sas get"}, <<"url", "cached">>)
    \cup Command({"sas set"}, <<"local", "key", "url", "dryRun", "pass", "submit">>)
    \cup Command({"sas clear"}, <<"key", "url", "dryRun", "pass", "submit">>)

AttestOne == Command({"attest attest"}, <<"key", "pass", "url", "parties", "ledgerClock", "submit">>)
AttestFile ==
    Command({"attest create"}, <<"key", "pass", "url", "local", "parties", "expiration", "submit">>)
AttestRevoke == Command({"attest revoke"}, <<"key", "pass", "url", "local", "submit">>)
AttestVerify == Command({"attest verify"}, <<"url", "local", "read">>)
AttestReplace ==
    Command({"attest replace"}, <<"key", "pass", "url", "local", "parties", "expiration", "submit">>)

(* With --cursor or --limit a page, then the count; the whole history      *)
(* without them.                                                           *)
Queries ==
    LET cmds == {"query by-recipient", "query by-attester", "query by-schema"}
    IN  Command(cmds, <<"local", "url", "page", "count">>)
        \cup Command(cmds, <<"local", "url", "read">>)

DelegateSign == Command({"delegate sign-revoke"}, <<"software", "key", "pass", "local", "sign">>)
DelegateSubmit ==
    Command({"delegate submit-attest"},
            <<"software", "key", "url", "signedFile", "parties", "filePass", "submit">>)
    \cup Command({"delegate submit-revoke"}, <<"software", "key", "url", "local", "filePass", "submit">>)

SchemaLint == Command({"schema lint"}, <<"local">>)
SchemaRegister ==
    Command({"schema register"}, <<"local", "key", "url", "dryRun", "pass", "submit">>)
SchemaInteractive ==
    Command({"schema interactive"}, <<"prompts", "export", "prompts", "key", "pass", "url", "submit">>)
SchemaWizard ==
    Command({"schema wizard"}, <<"key", "url", "pass", "prompts", "estimate", "confirm", "submit">>)
SchemaGets == Command({"schema get", "schema get-by-content"}, <<"url", "cached">>)
SchemaRegisterWithValue ==
    Command({"schema register-with-value"}, <<"local", "key", "url", "dryRun", "pass", "submit">>)
SchemaFees ==
    Command({"schema set-fee", "schema clear-fee"}, <<"key", "url", "dryRun", "pass", "submit">>)
SchemaTreasury ==
    Command({"schema set-treasury"}, <<"key", "url", "dryRun", "pass", "submit">>)
    \cup Command({"schema withdraw-fees"}, <<"local", "key", "url", "dryRun", "pass", "submit">>)
SchemaFeeGets == Command({"schema get-fee", "schema get-treasury"}, <<"url", "cached">>)

OffchainSign == Command({"offchain sign"}, <<"software", "key", "pass", "local", "sign">>)
OffchainVerify ==
    Command({"offchain verify"}, <<"software", "signedFile">>)
    \cup Command({"offchain verify --online"},
                 <<"software", "signedFile", "pass", "url", "local", "attestation", "ledgerTime", "schema">>)

LedgerSign == Command({"ledger-sign"}, <<"ledger", "pass", "local", "device", "sign">>)

Commands ==
    UNION {ConfigReads, ConfigUse, SasDecode, SasFees, AttestOne, AttestFile, AttestRevoke,
           AttestVerify, AttestReplace, Queries, DelegateSign, DelegateSubmit, SchemaLint,
           SchemaRegister, SchemaInteractive, SchemaWizard, SchemaGets, SchemaRegisterWithValue,
           SchemaFees, SchemaTreasury, SchemaFeeGets, OffchainSign, OffchainVerify, LedgerSign}

(* A shell runs these, with endpoints and passphrases of networks.         *)
ASSUME MenuAssumption ==
    \A s \in Shells : \A m \in Menu[s] :
      /\ m.steps \in {c.steps : c \in Commands}
      /\ m.flags.rpc_url \in Networks \cup {Unset}
      /\ m.flags.network_passphrase \in Networks \cup {Unset}

Programs(cmds) == {c.steps : c \in {d \in Commands : d.cmd \in cmds}}

------------------------------------------------------------------------------
(* A shell: what is left to do, the flags, the settings found so far, and  *)
(* the outcome; cursor and pages are those of a script that queries page   *)
(* after page.                                                             *)

AtRest ==
    [todo |-> <<>>, flags |-> Unset, url |-> Unset, pass |-> Unset, answer |-> "none",
     value |-> 0, as_of |-> 0, lag |-> 0, at |-> 0, page |-> <<>>, pages |-> <<>>,
     seen |-> Unset, landed |-> Unset, moved |-> FALSE]

Flags(s) == shell[s].flags
Doing(s, step) == shell[s].todo # <<>> /\ Head(shell[s].todo) = step

Becomes(s, r) == shell' = [shell EXCEPT ![s] = r]
Onward(s) == [shell[s] EXCEPT !.todo = Tail(@)]
Ends(s, answer) == [shell[s] EXCEPT !.todo = <<>>, !.answer = answer]

(* A command that has ended with nothing to show but its word. *)
EndsWith(s, word) == Becomes(s, [AtRest EXCEPT !.answer = word, !.landed = shell[s].landed])
Refuse(s) == EndsWith(s, "refused")

Continues(s, r) == IF r.todo = <<>> THEN EndsWith(s, "done") ELSE Becomes(s, r)

(* main: the flags and the command. *)
Launch(s, program, f) ==
    /\ shell[s] = AtRest
    /\ Becomes(s, [AtRest EXCEPT !.todo = program, !.flags = f])
    /\ UNCHANGED <<configFile, clock, chain, cacheFile>>

Passes(s, step, good) ==
    /\ Doing(s, step)
    /\ IF good THEN Continues(s, Onward(s)) ELSE Refuse(s)
    /\ UNCHANGED <<configFile, clock, chain, cacheFile>>

(* The arguments parse and the input files are read, or the command ends. *)
Local(s, good) == Passes(s, "local", good)

(* The signer is the attester, and validate_attestation_parties accepts    *)
(* the parties.                                                            *)
Parties(s, good) == Passes(s, "parties", good)

(* verify_offchain_attestation: attester, digest and signature agree. *)
SignedFile(s, good) == Passes(s, "signedFile", good)

(* The result is put in its place in one link, never over another file. *)
SignFile(s, free) == Passes(s, "sign", free)

(* decode_payload: one value of the right type per field of the schema. *)
Decode(s, matches) == Passes(s, "decode", matches)

(* The questions of the builder and of the wizard: a bad answer is asked   *)
(* for again, the end of the input ends the command.                       *)
Prompts(s, answered) == Passes(s, "prompts", answered)

(* sign_xdr: the device's envelope has the same transaction and a good     *)
(* signature of the chosen account.                                        *)
Device(s, signed) == Passes(s, "device", signed)

Wallets == {"ledger", "ledgerAndSecret", "otherWallet"}

(* Off-chain payloads are never signed by a hardware wallet. *)
Software(s) == Passes(s, "software", Flags(s).key \notin Wallets)

(* ledger-sign takes nothing else. *)
OnlyLedger(s) == Passes(s, "ledger", Flags(s).key = "ledger")

(* resolve_secret_key, signer_seed, signer_address and sdk_client: the     *)
(* Ledger alone, an explicit key, or the identity's file if it is there.   *)
Key(s, works) ==
    Passes(s, "key", works /\ Flags(s).key \in {"secret", "identity", "secretAndIdentity", "ledger"})

------------------------------------------------------------------------------
(* Settings.                                                               *)

(* Config::resolve on load_config or load_existing_config: the override,   *)
(* which also works on the default configuration, or the active profile.   *)
FromProfile(f, field) ==
    LET name == IF f.profile # Unset THEN f.profile ELSE configFile
    IN  IF configFile = TornFile \/ name \notin DOMAIN Profiles THEN Unset ELSE Profiles[name][field]

(* Mutant: the active profile is asked before --network. *)
Resolve_ProfileFirst(f, explicit, field) ==
    IF explicit # Unset THEN explicit
    ELSE IF FromProfile(f, field) # Unset THEN FromProfile(f, field)
    ELSE f.network

(* resolve_rpc_url and resolve_network_passphrase: the flag, then the      *)
(* --network shorthand, then the profile.                                  *)
Resolve(f, explicit, field) ==
    IF explicit # Unset THEN explicit
    ELSE IF f.network # Unset THEN (IF f.network \in Networks THEN f.network ELSE Unset)
    ELSE FromProfile(f, field)

Url(s) ==
    /\ Doing(s, "url")
    /\ LET n == Resolve(Flags(s), Flags(s).rpc_url, "rpc_url")
       IN  IF n = Unset THEN Refuse(s) ELSE Continues(s, [Onward(s) EXCEPT !.url = n])
    /\ UNCHANGED <<configFile, clock, chain, cacheFile>>

Pass(s) ==
    /\ Doing(s, "pass")
    /\ LET n == Resolve(Flags(s), Flags(s).network_passphrase, "network_passphrase")
       IN  IF n = Unset THEN Refuse(s) ELSE Continues(s, [Onward(s) EXCEPT !.pass = n])
    /\ UNCHANGED <<configFile, clock, chain, cacheFile>>

(* The submit commands take the passphrase of the signed file. *)
FilePass(s) ==
    /\ Doing(s, "filePass")
    /\ Continues(s, [Onward(s) EXCEPT !.pass = Flags(s).file])
    /\ UNCHANGED <<configFile, clock, chain, cacheFile>>

(* run_config: load_config, which a torn file fails, and for use and show  *)
(* a profile that exists.                                                  *)
LoadConfig(s, known) == Passes(s, "config", known /\ configFile # TornFile)

(* save_config: fs::write truncates the file, then fills it.  History: the *)
(* configuration moves under the commands that are running.                *)
Moved(r) == IF r.todo = <<>> THEN r ELSE [r EXCEPT !.moved = TRUE]

Truncate(s) ==
    /\ Doing(s, "truncate")
    /\ configFile' = TornFile
    /\ shell' = [[t \in Shells |-> Moved(shell[t])] EXCEPT ![s] = Onward(s)]
    /\ UNCHANGED <<clock, chain, cacheFile>>

Write(s, name) ==
    /\ Doing(s, "write") /\ name \in DOMAIN Profiles
    /\ configFile' = name
    /\ shell' = [[t \in Shells |-> Moved(shell[t])] EXCEPT ![s] = [AtRest EXCEPT !.answer = "done"]]
    /\ UNCHANGED <<clock, chain, cacheFile>>

------------------------------------------------------------------------------
(* Writes.                                                                 *)

(* print_dry_run_result ends the command after a simulation. *)
DryRun(s, good) ==
    /\ Doing(s, "dryRun")
    /\ IF ~Flags(s).dry_run THEN Continues(s, Onward(s))
       ELSE IF good THEN EndsWith(s, "simulated") ELSE Refuse(s)
    /\ UNCHANGED <<configFile, clock, chain, cacheFile>>

(* The interactive builder may write the schema to a file instead of      *)
(* asking whether to submit it.                                            *)
Export(s, wanted) ==
    /\ Doing(s, "export")
    /\ IF wanted THEN EndsWith(s, "simulated") ELSE Continues(s, Onward(s))
    /\ UNCHANGED <<configFile, clock, chain, cacheFile>>

(* The wizard's fee estimate is shown or reported as unavailable. *)
Estimate(s) == Passes(s, "estimate", TRUE)

(* The wizard's last question: no ends it without an error. *)
Confirm(s, yes) ==
    /\ Doing(s, "confirm")
    /\ IF yes THEN Continues(s, Onward(s)) ELSE EndsWith(s, "simulated")
    /\ UNCHANGED <<configFile, clock, chain, cacheFile>>

(* resolve_cli_issuance_time: the ledger's clock if it is fetched and      *)
(* within the skew, the local one only with --allow-local-time.            *)
LedgerClock(s, fetched) == Passes(s, "ledgerClock", fetched \/ Flags(s).allow_local_time)

(* validate_expiration_before_submit. *)
ExpirationCheck(s, fetched) ==
    Passes(s, "expiration", expiration = 0 \/ (fetched /\ expiration > clock))

(* The write reaches the network of the URL.  A network takes only what is *)
(* signed under its own passphrase.  The caller may be left without an     *)
(* answer whether it landed or not.                                        *)
Landed(s) ==
    /\ Doing(s, "submit")
    /\ LET n == shell[s].url
       IN  /\ n = shell[s].pass /\ Changeable(n)
           /\ chain' = [chain EXCEPT ![n].since = Append(@, clock)]
           /\ \E answer \in {"success", "unsure"} :
                Becomes(s, [Ends(s, answer) EXCEPT !.landed = n])
    /\ UNCHANGED <<configFile, clock, cacheFile>>

NotLanded(s) ==
    /\ Doing(s, "submit")
    /\ \E word \in {"refused", "unsure"} : EndsWith(s, word)
    /\ UNCHANGED <<configFile, clock, chain, cacheFile>>

------------------------------------------------------------------------------
(* Reads.                                                                  *)

ReadOnce(s, good) == Passes(s, "read", good)

(* cache_key: of the function, the endpoint, the contract and the          *)
(* arguments; only the endpoint differs here.                              *)
CacheKey(s) == shell[s].url

Answer(s, v, as_of, lag) ==
    [Ends(s, "answer") EXCEPT !.value = v, !.as_of = as_of, !.lag = lag, !.at = clock]

(* cached_or: an entry younger than the TTL answers, unless --no-cache. *)
CacheLookup(s) ==
    /\ Doing(s, "cached")
    /\ LET e == cacheFile[CacheKey(s)]
       IN  IF /\ ~Flags(s).no_cache /\ cache_ttl > 0
              /\ e # Unset /\ clock - e.cached_at < cache_ttl
             THEN Becomes(s, Answer(s, e.answer, e.as_of, e.cached_at - e.as_of))
             ELSE Becomes(s, [shell[s] EXCEPT !.todo = <<"fetch", "store">>])
    /\ UNCHANGED <<configFile, clock, chain, cacheFile>>

CacheFetch(s, good) ==
    /\ Doing(s, "fetch")
    /\ IF good
         THEN Becomes(s, [Onward(s) EXCEPT !.value = Version(shell[s].url), !.as_of = clock])
         ELSE Refuse(s)
    /\ UNCHANGED <<configFile, clock, chain, cacheFile>>

(* The result is written to the cache, with --no-cache too; that this      *)
(* fails is ignored.                                                       *)
CacheStore(s, stored) ==
    /\ Doing(s, "store")
    /\ cacheFile' = IF stored
         THEN [cacheFile EXCEPT ![CacheKey(s)] =
                 [cached_at |-> clock, answer |-> shell[s].value, as_of |-> shell[s].as_of]]
         ELSE cacheFile
    /\ Becomes(s, Answer(s, shell[s].value, shell[s].as_of, clock - shell[s].as_of))
    /\ UNCHANGED <<configFile, clock, chain>>

(* run_query with --cursor and --limit: the page, then the count. *)
Window(cursor, n) ==
    LET upto == IF cursor + page_limit < chain[n].history THEN cursor + page_limit ELSE chain[n].history
    IN  [i \in 1..(IF upto > cursor THEN upto - cursor ELSE 0) |-> cursor + i]

Page(s) ==
    /\ Doing(s, "page")
    /\ \/ Becomes(s, [Onward(s) EXCEPT !.page = Window(Len(shell[s].pages), shell[s].url)])
       \/ Refuse(s)
    /\ UNCHANGED <<configFile, clock, chain, cacheFile>>

(* Mutant: a page that is not full is taken for the last one. *)
NextCursor_Full(cursor, page, total) ==
    IF Len(page) = page_limit /\ cursor + Len(page) < total THEN cursor + Len(page) ELSE Unset

(* format_page: next_cursor is given while entries remain. *)
NextCursor(cursor, page, total) ==
    IF cursor + Len(page) < total THEN cursor + Len(page) ELSE Unset

(* A script goes on with the next command until next_cursor is null; the   *)
(* cursor it passes is the length of what it has.                          *)
Count(s, good) ==
    /\ Doing(s, "count")
    /\ LET r == shell[s]
           total == chain[r.url].history
           next == NextCursor(Len(r.pages), r.page, total)
           got == r.pages \o r.page
       IN  IF ~good THEN Refuse(s)
           ELSE Becomes(s, [r EXCEPT !.pages = got, !.page = <<>>,
                              !.value = total,
                              !.todo = IF next = Unset THEN <<>> ELSE <<"page", "count">>,
                              !.answer = IF next = Unset THEN "listed" ELSE @])
    /\ UNCHANGED <<configFile, clock, chain, cacheFile>>

------------------------------------------------------------------------------
(* perform_online_verification, on the trusted endpoint.                   *)

Expired(t) == expiration # 0 /\ t >= expiration

(* History: holds is whether the attestation stood at this moment. *)
FetchAttestation(s) ==
    /\ Doing(s, "attestation")
    /\ LET status == chain[shell[s].url].attestation
       IN  \/ Becomes(s, [Onward(s) EXCEPT !.seen =
                            [found |-> status # "none", revoked |-> status = "revoked",
                             expired |-> FALSE,
                             holds |-> status = "live" /\ (expiration = 0 \/ clock < expiration)]])
           \/ Refuse(s)
    /\ UNCHANGED <<configFile, clock, chain, cacheFile>>

(* fetch_current_ledger_time, if the attestation was found. *)
FetchLedgerTime(s, good) ==
    /\ Doing(s, "ledgerTime")
    /\ IF ~shell[s].seen.found THEN Becomes(s, Onward(s))
       ELSE IF good THEN Becomes(s, [Onward(s) EXCEPT !.seen.expired = Expired(clock)])
       ELSE Refuse(s)
    /\ UNCHANGED <<configFile, clock, chain, cacheFile>>

(* The schema, if a registry is named, and the verdict: the file's own     *)
(* network and contract are compared with the trusted ones.                *)
Verdict(s, schema, contract) ==
    /\ Doing(s, "schema")
    /\ LET r == shell[s]
           valid == /\ Flags(s).file = r.pass /\ contract
                    /\ r.seen.found /\ ~r.seen.expired /\ ~r.seen.revoked
                    /\ schema # "not_found"
       IN  IF schema = "error" THEN Refuse(s) ELSE Becomes(s, Ends(s, IF valid THEN "valid" ELSE "notValid"))
    /\ UNCHANGED <<configFile, clock, chain, cacheFile>>

------------------------------------------------------------------------------
(* Surroundings.                                                           *)

(* The process is killed. *)
Kill(s) ==
    /\ shell[s].todo # <<>>
    /\ EndsWith(s, "killed")
    /\ UNCHANGED <<configFile, clock, chain, cacheFile>>

(* Others change what a read answers, add to the index, attest and revoke. *)
OthersWrite(n) ==
    /\ Changeable(n)
    /\ chain' = [chain EXCEPT ![n].since = Append(@, clock)]
    /\ UNCHANGED <<configFile, clock, cacheFile, shell>>

OthersAttest(n) ==
    /\ Changeable(n)
    /\ chain' = [chain EXCEPT ![n].history = @ + 1,
                              ![n].attestation = IF @ = "none" THEN "live" ELSE @]
    /\ UNCHANGED <<configFile, clock, cacheFile, shell>>

OthersRevoke(n) ==
    /\ chain[n].attestation = "live" /\ Changeable(n)
    /\ chain' = [chain EXCEPT ![n].attestation = "revoked"]
    /\ UNCHANGED <<configFile, clock, cacheFile, shell>>

ClockTicks ==
    /\ clock < MaxClock
    /\ clock' = clock + 1
    /\ UNCHANGED <<configFile, chain, cacheFile, shell>>

CliInit ==
    /\ configFile \in {Unset} \cup DOMAIN Profiles
    /\ clock = 0
    /\ chain = [n \in Networks |-> [since |-> <<0>>, history |-> 0, attestation |-> "none"]]
    /\ cacheFile = [n \in Networks |-> Unset]
    /\ shell = [s \in Shells |-> AtRest]

ShellStep(s) ==
    \/ \E good \in BOOLEAN :
         \/ Local(s, good) \/ Parties(s, good) \/ SignedFile(s, good) \/ SignFile(s, good)
         \/ Decode(s, good) \/ Prompts(s, good) \/ Device(s, good)
         \/ Key(s, good) \/ LoadConfig(s, good) \/ DryRun(s, good)
         \/ Export(s, good) \/ Confirm(s, good) \/ LedgerClock(s, good) \/ ExpirationCheck(s, good)
         \/ ReadOnce(s, good) \/ CacheFetch(s, good) \/ CacheStore(s, good) \/ Count(s, good)
         \/ FetchLedgerTime(s, good)
    \/ Software(s) \/ OnlyLedger(s) \/ Url(s) \/ Pass(s) \/ FilePass(s) \/ Truncate(s) \/ Estimate(s)
    \/ \E name \in DOMAIN Profiles : Write(s, name)
    \/ Landed(s) \/ NotLanded(s) \/ CacheLookup(s) \/ Page(s) \/ FetchAttestation(s)
    \/ \E schema \in {"available", "not_found", "not_checked", "error"}, contract \in BOOLEAN :
         Verdict(s, schema, contract)
    \/ Kill(s)

CliNext ==
    \/ \E s \in Shells : \E m \in Menu[s] : Launch(s, m.steps, m.flags)
    \/ \E s \in Shells : ShellStep(s)
    \/ \E n \in Busy : OthersWrite(n) \/ OthersAttest(n) \/ OthersRevoke(n)
    \/ ClockTicks

CliSpec == CliInit /\ [][CliNext]_cliVars

------------------------------------------------------------------------------
(* Properties.                                                             *)

(* The network a source of settings that the user chose for this command   *)
(* names: --network, or the profile that --profile names.                  *)
Chosen(f, field) ==
    IF f.network # Unset THEN {f.network}
    ELSE IF f.profile # Unset THEN {Profiles[f.profile][field]}
    ELSE {Profiles[p][field] : p \in DOMAIN Profiles}

(* A write lands on one network, the one that both its endpoint and its    *)
(* passphrase name and that the user's flags stand for, though the         *)
(* configuration is read once for each and another shell may switch the    *)
(* profile in between or be killed writing it: a mixture is refused by the *)
(* network, and arises in no other way than from explicit flags or such a  *)
(* switch.  Refused, simulated and aborted commands, and reads, leave no   *)
(* trace.                                                                  *)
WritesOnTarget ==
    \A s \in Shells :
      LET r == shell[s]
          f == r.flags
      IN  /\ r.landed # Unset =>
               /\ r.answer \in {"success", "unsure"} /\ r.url = r.landed /\ r.pass = r.landed
               /\ f.rpc_url = Unset => r.landed \in Chosen(f, "rpc_url")
          /\ r.answer = "success" => r.landed # Unset
          /\ r.url # Unset /\ r.pass # Unset /\ r.url # r.pass =>
               \/ r.moved \/ f.rpc_url # Unset \/ f.network_passphrase # Unset
               \/ f.file = r.pass
               \/ \E p \in DOMAIN Profiles : Profiles[p].rpc_url # Profiles[p].network_passphrase

CurrentAt(n, v, t) ==
    /\ v \in DOMAIN chain[n].since /\ chain[n].since[v] <= t
    /\ v + 1 \in DOMAIN chain[n].since => t <= chain[n].since[v + 1]

(* What the commands print was so.  An answer, from the network or from    *)
(* the cache other shells filled, was current on the network of the        *)
(* command's own endpoint, less than the TTL plus the duration of its      *)
(* fetch before.  A script that follows next_cursor to its end has every   *)
(* entry once and in order, up to the last total it was shown, though page *)
(* and count are read apart.  VALID means that at one moment of the        *)
(* command the attestation was there, neither revoked nor expired, and     *)
(* that the file was signed for the trusted network.                       *)
ReadsTrue ==
    \A s \in Shells :
      LET r == shell[s]
      IN  /\ r.answer = "answer" =>
               /\ CurrentAt(r.url, r.value, r.as_of)
               /\ r.at - r.as_of <= cache_ttl + r.lag
          /\ \A i \in 1..Len(r.pages) : r.pages[i] = i
          /\ r.answer = "listed" => Len(r.pages) = r.value
          /\ r.answer = "valid" => r.seen.holds /\ r.flags.file = r.pass
==============================================================================
