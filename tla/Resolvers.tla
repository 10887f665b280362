------------------------------ MODULE Resolvers ------------------------------
(***************************************************************************)
(* The resolver contracts a schema can name: time-window, token-gated,     *)
(* blacklist, multisig (and its alias endorsement) and permissive.  SAS    *)
(* calls on_attest before it stores an attestation and on_revoke after a   *)
(* revocation, and a resolver that refuses undoes the whole invocation, so *)
(* an accepted issuance is one step here and a refused one is none.        *)
(*                                                                         *)
(* A behaviour is about one schema: `kind` is the resolver it names.  The  *)
(* token of the gate is external.  Amounts and times are naturals up to    *)
(* MAX_U64, where the code's additions saturate.                           *)
(***************************************************************************)
EXTENDS Naturals, Sequences, FiniteSets, Functions

CONSTANTS
    Users,       \* accounts
    Cooldowns,   \* cooldown_period_seconds values
    Balances,    \* min_balance values
    Fees,        \* fee_amount values
    Tokens,      \* token contracts a gate can name (external)
    Supply,      \* units of each token an account starts with
    Signers,     \* ed25519 public keys
    SignerLists, \* sequences of keys a policy can name (duplicates allowed)
    Payloads,    \* sequences of [signer, good], the endorsements of a request
    MAX_U64,     \* largest timestamp
    NoOne,       \* absent
    MaxNow,      \* bound: last ledger timestamp
    MaxIssued    \* bound: accepted issuances

ResolverKinds == {"window", "token", "blacklist", "multisig", "permissive"}
Disposals == {"None", "Transfer", "Burn"}

ASSUME ResolverAssumption ==
    /\ IsFiniteSet(Users) /\ NoOne \notin Users \cup (0..MAX_U64)
    /\ Cooldowns \subseteq 0..MAX_U64 /\ Balances \subseteq Nat /\ Fees \subseteq Nat
    /\ Supply \in Nat /\ MAX_U64 \in Nat /\ MaxNow \in 1..(MAX_U64 - 1) /\ MaxIssued \in Nat
    /\ SignerLists \subseteq Seq(Signers)
    /\ Payloads \subseteq Seq([signer : Signers, good : BOOLEAN])

VARIABLES
    kind,        \* the resolver of the schema
    time,         \* ledger timestamp
    window,      \* TimeWindowConfig, or NoOne
    last,        \* LastAttested, per recipient
    gate,        \* the token gate's Config, or NoOne
    held,        \* balances, per token and account
    burned,      \* units burned, per token
    guard,       \* the blacklist's Admin, or NoOne
    blocked,     \* Blocked
    rule,        \* the multisig ResolverConfig, or NoOne
    issued,      \* history: accepted issuances, in order
    fees         \* history: fees due at issuance, and what was taken

resolverVars == <<kind, time, window, last, gate, held, burned, guard, blocked, rule, issued, fees>>
configVars == <<window, gate, guard, blocked, rule>>

------------------------------------------------------------------------------
(* Configuration.                                                          *)

Configured == UNCHANGED <<kind, time, last, held, burned, issued, fees>>

WindowInit(a, c) ==
    /\ kind = "window" /\ window = NoOne
    /\ window' = [admin |-> a, period |-> c]
    /\ Configured /\ UNCHANGED <<gate, guard, blocked, rule>>

SetCooldownPeriodSeconds(a, c) ==
    /\ kind = "window" /\ window # NoOne
    /\ a = window.admin
    /\ window' = [window EXCEPT !.period = c]
    /\ Configured /\ UNCHANGED <<gate, guard, blocked, rule>>

(* The fee checks of initialize and set_fee. *)
FeeConfig(fee, disposal) == fee > 0 => disposal # "None"

GateInit(a, t, min, fee, disposal) ==
    /\ kind = "token" /\ gate = NoOne
    /\ FeeConfig(fee, disposal)
    /\ gate' = [admin |-> a, token |-> t, min |-> min, fee |-> fee, disposal |-> disposal]
    /\ Configured /\ UNCHANGED <<window, guard, blocked, rule>>

(* The writes of set_admin, set_token, set_min_balance and set_fee. *)
GateChange(g) ==
    /\ gate' = g
    /\ Configured /\ UNCHANGED <<window, guard, blocked, rule>>

SetAdmin(a) == kind = "token" /\ gate # NoOne /\ GateChange([gate EXCEPT !.admin = a])

SetToken(t) == kind = "token" /\ gate # NoOne /\ GateChange([gate EXCEPT !.token = t])

SetMinBalance(min) == kind = "token" /\ gate # NoOne /\ GateChange([gate EXCEPT !.min = min])

SetGateFee(fee, disposal) ==
    /\ kind = "token" /\ gate # NoOne
    /\ FeeConfig(fee, disposal)
    /\ GateChange([gate EXCEPT !.fee = fee, !.disposal = disposal])

BlacklistInit(a) ==
    /\ kind = "blacklist" /\ guard = NoOne
    /\ guard' = a
    /\ Configured /\ UNCHANGED <<window, gate, blocked, rule>>

SetBlacklist(a, S, b) ==
    /\ kind = "blacklist" /\ guard # NoOne
    /\ a = guard
    /\ blocked' = IF b THEN blocked \cup S ELSE blocked \ S
    /\ Configured /\ UNCHANGED <<window, gate, guard, rule>>

(* validate_config counts the listed keys, not the distinct ones. *)
ValidConfig(threshold, signers) == threshold \in 1..Len(signers)

(* init, initialize, configure and set_policy, by any caller. *)
SetPolicy(threshold, signers) ==
    /\ kind = "multisig"
    /\ ValidConfig(threshold, signers)
    /\ rule' = [threshold |-> threshold, signers |-> signers]
    /\ Configured /\ UNCHANGED <<window, gate, guard, blocked>>

SetThreshold(threshold) == rule # NoOne /\ SetPolicy(threshold, rule.signers)

SetSigners(signers) == rule # NoOne /\ SetPolicy(rule.threshold, signers)

------------------------------------------------------------------------------
(* on_attest.                                                              *)

SaturatingAdd(t, c) == IF t + c > MAX_U64 THEN MAX_U64 ELSE t + c

(* Mutant: the addition wraps. *)
CooldownOver_Wraps(recipient) ==
    window.period # 0 /\ last[recipient] # NoOne =>
        time >= (last[recipient] + window.period) % (MAX_U64 + 1)

CooldownOver(recipient) ==
    window.period # 0 /\ last[recipient] # NoOne =>
        time >= SaturatingAdd(last[recipient], window.period)

(* The attester pays the gate's fee, to its admin or to nobody. *)
Paid(attester) ==
    LET taken == [held EXCEPT ![gate.token][attester] = @ - gate.fee]
    IN  IF gate.disposal = "Transfer"
          THEN [taken EXCEPT ![gate.token][gate.admin] = @ + gate.fee]
          ELSE taken

(* resolve_valid_count: a signer's first endorsement decides, and one that *)
(* is unknown or does not verify refuses the attestation.                  *)
Endorsed(payload) ==
    LET first == {i \in DOMAIN payload : \A j \in 1..(i - 1) : payload[j].signer # payload[i].signer}
    IN  /\ \A i \in first : payload[i].signer \in Range(rule.signers) /\ payload[i].good
        /\ Cardinality(first) >= rule.threshold

(* The resolver's verdict on an attestation. *)
Accepts(attester, recipient, payload) ==
    CASE kind = "window" -> window # NoOne /\ CooldownOver(recipient)
      [] kind = "token" ->
           /\ gate # NoOne
           /\ held[gate.token][recipient] >= gate.min /\ held[gate.token][attester] >= gate.fee
      [] kind = "blacklist" -> guard # NoOne /\ blocked \cap {attester, recipient} = {}
      [] kind = "multisig" -> rule # NoOne /\ Endorsed(payload)
      [] kind = "permissive" -> TRUE

(* An issuance through SAS, which refuses self-attestation. *)
OnAttest(attester, recipient, payload) ==
    /\ attester # recipient
    /\ Accepts(attester, recipient, payload)
    /\ last' = IF kind = "window" THEN [last EXCEPT ![recipient] = time] ELSE last
    /\ LET charged == kind = "token" /\ gate.fee > 0 /\ gate.disposal # "None"
       IN  /\ held' = IF charged THEN Paid(attester) ELSE held
           /\ burned' = IF charged /\ gate.disposal = "Burn"
                           THEN [burned EXCEPT ![gate.token] = @ + gate.fee] ELSE burned
           /\ fees' = IF kind # "token" THEN fees
                      ELSE [due |-> fees.due + gate.fee,
                            taken |-> IF charged THEN fees.taken + gate.fee ELSE fees.taken]
    /\ issued' = Append(issued, [attester |-> attester, recipient |-> recipient, at |-> time,
                                 wait |-> IF kind = "window" THEN window.period ELSE 0])
    /\ UNCHANGED <<kind, time, configVars>>

(* on_revoke of every resolver but the multisig one, which asks for the    *)
(* endorsements again.                                                     *)
RevokeAccepted(attester, recipient) ==
    kind = "blacklist" => guard # NoOne

------------------------------------------------------------------------------
(* Token transfers between accounts (external), and time.                  *)

TokenTransfer(t, a, b) ==
    /\ kind = "token" /\ held[t][a] > 0 /\ a # b
    /\ held' = [held EXCEPT ![t][a] = @ - 1, ![t][b] = @ + 1]
    /\ UNCHANGED <<kind, time, last, burned, configVars, issued, fees>>

ResolverTick ==
    /\ kind = "window" /\ time < MaxNow
    /\ time' = time + 1
    /\ UNCHANGED <<kind, last, held, burned, configVars, issued, fees>>

ResolverInit ==
    /\ kind \in ResolverKinds
    /\ time = 1
    /\ window = NoOne /\ gate = NoOne /\ guard = NoOne /\ rule = NoOne
    /\ last = [a \in Users |-> NoOne] /\ blocked = {}
    /\ held = [t \in Tokens |-> [a \in Users |-> Supply]] /\ burned = [t \in Tokens |-> 0]
    /\ issued = <<>> /\ fees = [due |-> 0, taken |-> 0]

ConfigStep ==
    \/ \E a \in Users, c \in Cooldowns : WindowInit(a, c)
    \/ \E a \in Users, c \in Cooldowns : SetCooldownPeriodSeconds(a, c)
    \/ \E a \in Users, t \in Tokens, min \in Balances, fee \in Fees, d \in Disposals :
         GateInit(a, t, min, fee, d)
    \/ \E t \in Tokens : SetToken(t)
    \/ \E a \in Users : SetAdmin(a)
    \/ \E min \in Balances : SetMinBalance(min)
    \/ \E fee \in Fees, d \in Disposals : SetGateFee(fee, d)
    \/ \E a \in Users : BlacklistInit(a)
    \/ \E a \in Users, S \in (SUBSET Users) \ {{}}, b \in BOOLEAN : SetBlacklist(a, S, b)
    \/ \E n \in 1..3, q \in SignerLists : SetPolicy(n, q)
    \/ \E n \in 1..3 : SetThreshold(n)
    \/ \E q \in SignerLists : SetSigners(q)

IssueStep ==
    /\ Len(issued) < MaxIssued
    /\ \E a, r \in Users :
         IF kind = "multisig" THEN \E p \in Payloads : OnAttest(a, r, p) ELSE OnAttest(a, r, <<>>)

ResolverNext ==
    \/ ConfigStep \/ IssueStep \/ ResolverTick
    \/ \E t \in Tokens, a, b \in Users : TokenTransfer(t, a, b)

ResolverSpec == ResolverInit /\ [][ResolverNext]_resolverVars

------------------------------------------------------------------------------
(* Properties.                                                             *)

(* What a resolver enforces holds of every pair of issuances and over the  *)
(* whole run, not only of the call at hand.  Two issuances to one          *)
(* recipient with none between them are as far apart as the cooldown in    *)
(* force at the second, also when the restriction was off at the first and *)
(* when the cooldown reaches the end of time; every fee due was taken      *)
(* from the attester, and the gate neither makes nor loses tokens; and     *)
(* whatever is configured later, a resolver that takes no endorsements     *)
(* accepts the revocation of all it accepted ("already-issued attestations *)
(* must remain revocable after a recipient or issuer is blacklisted",      *)
(* blacklist-resolver).                                                    *)
ResolverRulesHold ==
    /\ \A i, j \in DOMAIN issued :
         /\ i < j /\ issued[i].recipient = issued[j].recipient
         /\ \A k \in (i + 1)..(j - 1) : issued[k].recipient # issued[j].recipient
         => issued[j].wait = 0 \/ issued[j].at - issued[i].at >= issued[j].wait
    /\ fees.taken = fees.due
    /\ \A t \in Tokens :
         burned[t] + SumFunctionOnSet(held[t], Users) = Supply * Cardinality(Users)
    /\ kind # "multisig" =>
         \A i \in DOMAIN issued : RevokeAccepted(issued[i].attester, issued[i].recipient)
==============================================================================
