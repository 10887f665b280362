----------------------------- MODULE SASTreasury -----------------------------
(***************************************************************************)
(* Fees and administration of the SAS contract (contracts/sas/src/lib.rs): *)
(* the two-step admin transfer and the upgrade counter, the fee schedule,  *)
(* paid issuance (attest_with_value), the books of treasury and creator    *)
(* fees, and the three ways of taking tokens out of the contract.          *)
(*                                                                         *)
(* Tokens are external: a transfer moves units between accounts and traps  *)
(* when the payer has too few.  The schema registry is external too: SAS   *)
(* asks it for the creator and the royalty of a schema at the moment of    *)
(* the payment, and both may change between two payments.                  *)
(*                                                                         *)
(* One action is one invocation that commits; who signs is its first       *)
(* argument where the code compares the signer with stored roles.          *)
(***************************************************************************)
EXTENDS Integers, FiniteSets, Functions

CONSTANTS
    Parties,       \* addresses of people
    Self,          \* the address of the contract
    FeeTokens,
    PaidSchemas,
    Claims,        \* attestations [schema, attester, size] that may be issued
    Unset,         \* no address, no configuration
    Funds,         \* token units every attester starts with
    FeeAmounts,    \* fee amounts an admin may set
    Rates,         \* per-byte amounts
    Bps,           \* basis points a creator may ask for
    Roles,         \* people a role may be handed to
    MaxVersion,    \* MAX_KNOWN_VERSION
    MaxChanges,    \* bound: number of changes of roles, prices and registry
    Amounts,       \* bound: amounts that are withdrawn
    Destinations   \* bound: accounts that receive withdrawals

ASSUME TreasuryAssumption ==
    /\ IsFiniteSet(Parties)
    /\ Self \notin Parties /\ Unset \notin Parties \cup {Self}
    /\ Roles \subseteq Parties
    /\ Claims \subseteq [schema : PaidSchemas, attester : Parties, size : Nat]
    /\ Funds \in Nat
    /\ FeeAmounts \subseteq Nat \ {0} /\ Rates \subseteq Nat
    /\ Bps \subseteq Nat
    /\ Amounts \subseteq Nat \ {0}
    /\ Destinations \subseteq Parties \cup {Self}
    /\ MaxVersion \in Nat \ {0}
    /\ MaxChanges \in Nat

BASE == 10000
MAX_CREATOR_BPS == 10000
MAX_ROYALTY_BPS == 5000

TokenAccounts == Parties \cup {Self}

VARIABLES
    admin,      \* SAS_ADMIN
    pending,    \* PENDING_ADMIN
    version,    \* SAS_VERSION
    treasury,   \* TREASURY
    fee,        \* FEE_CONFIG: [token, amount]
    perByte,    \* FEE_PER_BYTE
    zeroFee,    \* ZERO_FEE_SCHEMA: the exempt schemas
    feeAssets,   \* FEE_ASSET: amount per additional token, 0 when not feeAssets
    ceilings,   \* FEE_CEILINGS: [fixed, bps]
    schemaFee,  \* SCHEMA_FEE_CONFIG
    treasuryFees,  \* TREASURY_FEES
    creatorFees,   \* CREATOR_FEES
    balance,    \* the token ledgers
    creator,    \* registry: get_creator
    royalty,    \* registry: get_creator_royalty
    bought,     \* claims bought by attest_with_value
    swept,      \* history variable: tokens taken out by withdraw_tokens
    changes     \* number of changes so far

adminVars == <<admin, pending, version, treasury>>
priceVars == <<fee, perByte, zeroFee, feeAssets, ceilings, schemaFee>>
bookVars == <<treasuryFees, creatorFees>>
royaltyVars == <<creator, royalty>>
treasuryVars == <<adminVars, priceVars, bookVars, balance, royaltyVars, bought, swept, changes>>

------------------------------------------------------------------------------
(* Money.                                                                  *)

(* Token ledger b of token t after n units went from one account to       *)
(* another; a transfer to oneself changes nothing.                         *)
Moved(b, t, from, to, n) ==
    IF from = to THEN b
    ELSE [b EXCEPT ![t][from] = @ - n, ![t][to] = @ + n]

Covers(b, t, from, n) == b[t][from] >= n

(* fee_quote. *)
FeeQuote(s, size) ==
    IF s \in zeroFee THEN 0
    ELSE (IF fee = Unset THEN 0 ELSE fee.amount) + perByte * size

(* What the schema's own fee adds to a quote. *)
CreatorAmount(s, base) ==
    IF schemaFee[s] = Unset THEN 0
    ELSE IF schemaFee[s].fee_type = 1 THEN schemaFee[s].fixed_amount
    ELSE (base * schemaFee[s].basis_points) \div BASE

IsDefault(t) == fee # Unset /\ fee.token = t

(* The value attest_with_value accepts: the quote in the default token,    *)
(* the amount set for an additional token, and nothing when issuance is    *)
(* free.                                                                   *)
Payable(s, t, value, base, extra) ==
    /\ perByte > 0 => value >= base
    /\ \/ IsDefault(t) /\ value = base + extra
       \/ ~IsDefault(t) /\ feeAssets[t] > 0 /\ value = feeAssets[t] + extra
       \/ ~IsDefault(t) /\ feeAssets[t] = 0 /\ fee = Unset /\ value = 0 /\ base + extra = 0

(* distribute_attestation_fee on ledger b: the registry's royalty share of *)
(* the value goes to the creator and the rest to the treasury, out of the  *)
(* contract's own tokens.                                                  *)
RoyaltyShare(s, value) == (value * royalty[s]) \div BASE

Skipped(s, value) == treasury = Unset /\ RoyaltyShare(s, value) = 0

Distributable(b, s, t, value) ==
    Skipped(s, value) \/ (treasury # Unset /\ Covers(b, t, Self, value))

Distributed(b, s, t, value) ==
    LET share == RoyaltyShare(s, value)
        rest == Moved(b, t, Self, treasury, value - share)
    IN  IF Skipped(s, value) THEN b ELSE Moved(rest, t, Self, creator[s], share)

(* Where the attester's payment goes. *)
Destination(extra) == IF extra > 0 \/ treasury = Unset THEN Self ELSE treasury

------------------------------------------------------------------------------
(* Paid issuance.                                                          *)

(* Mutant: the treasury is credited with the whole payment. *)
Credits_Whole(c, t, value, base, extra) ==
    /\ treasuryFees' = [treasuryFees EXCEPT ![t] = @ + value]
    /\ creatorFees' = [creatorFees EXCEPT ![<<creator[c.schema], t>>] = @ + extra]

Credits(c, t, value, base, extra) ==
    /\ treasuryFees' = [treasuryFees EXCEPT ![t] = @ + base]
    /\ creatorFees' = [creatorFees EXCEPT ![<<creator[c.schema], t>>] = @ + extra]

AttestWithValue(c, t, value) ==
    LET base == FeeQuote(c.schema, c.size)
        extra == CreatorAmount(c.schema, base)
        paid == Moved(balance, t, c.attester, Destination(extra), value)
    IN  /\ admin # Unset
        /\ c \notin bought
        /\ Payable(c.schema, t, value, base, extra)
        /\ bought' = bought \cup {c}
        /\ IF value = 0 THEN UNCHANGED <<balance, bookVars>>
           ELSE /\ IsDefault(t) \/ treasury # Unset
                /\ Covers(balance, t, c.attester, value)
                /\ Distributable(paid, c.schema, t, value)
                /\ balance' = Distributed(paid, c.schema, t, value)
                /\ Credits(c, t, value, base, extra)
        /\ UNCHANGED <<adminVars, priceVars, royaltyVars, swept, changes>>

------------------------------------------------------------------------------
(* Withdrawals.                                                            *)

MayWithdraw(who) == admin # Unset /\ who \in {admin, treasury}

Pays(t, n, to) ==
    /\ Covers(balance, t, Self, n)
    /\ balance' = Moved(balance, t, Self, to, n)

WithdrawTokens(who, t, n, to) ==
    /\ MayWithdraw(who)
    /\ Pays(t, n, to)
    /\ swept' = swept \cup {t}
    /\ UNCHANGED <<adminVars, priceVars, bookVars, royaltyVars, bought, changes>>

WithdrawCreatorFees(who, t, n, to) ==
    /\ creatorFees[who, t] >= n
    /\ creatorFees' = [creatorFees EXCEPT ![<<who, t>>] = @ - n]
    /\ Pays(t, n, to)
    /\ UNCHANGED <<adminVars, priceVars, treasuryFees, royaltyVars, bought, swept, changes>>

WithdrawTreasuryFees(who, t, n, to) ==
    /\ MayWithdraw(who)
    /\ treasuryFees[t] >= n
    /\ treasuryFees' = [treasuryFees EXCEPT ![t] = @ - n]
    /\ Pays(t, n, to)
    /\ UNCHANGED <<adminVars, priceVars, creatorFees, royaltyVars, bought, swept, changes>>

------------------------------------------------------------------------------
(* Administration.                                                         *)

(* A change of roles, prices or registry touches no money. *)
Setting ==
    /\ changes < MaxChanges
    /\ changes' = changes + 1
    /\ UNCHANGED <<bookVars, balance, bought, swept>>

InitContract(a) ==
    /\ admin = Unset
    /\ admin' = a
    /\ version' = 1
    /\ UNCHANGED <<pending, treasury, priceVars, royaltyVars, bookVars, balance, bought,
                   swept, changes>>

(* validate_upgrade: the layout is readable, and the version is the next   *)
(* one and known.                                                          *)
ValidateUpgrade(new) == admin # Unset /\ new <= MaxVersion /\ new = version + 1

CommitUpgrade(new) ==
    version' = new /\ UNCHANGED <<admin, pending, treasury, priceVars, royaltyVars>>

Upgrade(new) ==
    /\ ValidateUpgrade(new)
    /\ CommitUpgrade(new)
    /\ Setting

ProposeAdmin(new) ==
    /\ admin # Unset
    /\ pending' = new
    /\ Setting /\ UNCHANGED <<admin, version, treasury, priceVars, royaltyVars>>

AcceptAdmin ==
    /\ pending # Unset /\ admin # Unset
    /\ admin' = pending
    /\ pending' = Unset
    /\ Setting /\ UNCHANGED <<version, treasury, priceVars, royaltyVars>>

SetTreasury(a) ==
    /\ admin # Unset
    /\ treasury' = a
    /\ Setting /\ UNCHANGED <<admin, pending, version, priceVars, royaltyVars>>

SetFee(t, n) ==
    /\ admin # Unset
    /\ fee' = [token |-> t, amount |-> n]
    /\ Setting
    /\ UNCHANGED <<adminVars, perByte, zeroFee, feeAssets, ceilings, schemaFee, royaltyVars>>

ClearFee ==
    /\ admin # Unset
    /\ fee' = Unset
    /\ perByte' = 0
    /\ Setting
    /\ UNCHANGED <<adminVars, zeroFee, feeAssets, ceilings, schemaFee, royaltyVars>>

SetFeePerByte(n) ==
    /\ admin # Unset
    /\ n > 0 => fee # Unset
    /\ perByte' = n
    /\ Setting
    /\ UNCHANGED <<adminVars, fee, zeroFee, feeAssets, ceilings, schemaFee, royaltyVars>>

SetSchemaZeroFee(s, enabled) ==
    /\ admin # Unset
    /\ zeroFee' = IF enabled THEN zeroFee \cup {s} ELSE zeroFee \ {s}
    /\ Setting
    /\ UNCHANGED <<adminVars, fee, perByte, feeAssets, ceilings, schemaFee, royaltyVars>>

SetAcceptedFee(t, n) ==
    /\ admin # Unset
    /\ feeAssets' = [feeAssets EXCEPT ![t] = n]
    /\ Setting
    /\ UNCHANGED <<adminVars, fee, perByte, zeroFee, ceilings, schemaFee, royaltyVars>>

RemoveAcceptedFee(t) ==
    /\ admin # Unset
    /\ feeAssets' = [feeAssets EXCEPT ![t] = 0]
    /\ Setting
    /\ UNCHANGED <<adminVars, fee, perByte, zeroFee, ceilings, schemaFee, royaltyVars>>

SetFeeCeilings(fixed, bps) ==
    /\ admin # Unset
    /\ bps <= MAX_CREATOR_BPS
    /\ ceilings' = [fixed |-> fixed, bps |-> bps]
    /\ Setting
    /\ UNCHANGED <<adminVars, fee, perByte, zeroFee, feeAssets, schemaFee, royaltyVars>>

(* The fee of a schema is set by its creator or the admin. *)
MayPrice(who, s) == admin # Unset /\ who \in {creator[s], admin}

FixedFee(n) == [fee_type |-> 1, fixed_amount |-> n, basis_points |-> 0]
ShareFee(b) == [fee_type |-> 2, fixed_amount |-> 0, basis_points |-> b]

(* get_fee_ceilings, applied to a schema's fee. *)
WithinCeilings(cfg) ==
    IF cfg.fee_type = 1 THEN ceilings # Unset => cfg.fixed_amount <= ceilings.fixed
    ELSE cfg.basis_points <= (IF ceilings = Unset THEN MAX_CREATOR_BPS ELSE ceilings.bps)

SetSchemaFee(who, s, cfg) ==
    /\ MayPrice(who, s)
    /\ WithinCeilings(cfg)
    /\ schemaFee' = [schemaFee EXCEPT ![s] = cfg]
    /\ Setting
    /\ UNCHANGED <<adminVars, fee, perByte, zeroFee, feeAssets, ceilings, royaltyVars>>

ClearSchemaFee(who, s) ==
    /\ MayPrice(who, s)
    /\ schemaFee[s] # Unset
    /\ schemaFee' = [schemaFee EXCEPT ![s] = Unset]
    /\ Setting
    /\ UNCHANGED <<adminVars, fee, perByte, zeroFee, feeAssets, ceilings, royaltyVars>>

(* The registry: a schema changes hands, its creator sets the royalty. *)
TransferSchema(s, to) ==
    /\ creator' = [creator EXCEPT ![s] = to]
    /\ Setting /\ UNCHANGED <<adminVars, priceVars, royalty>>

CreatorSetsRoyalty(s, bps) ==
    /\ bps <= MAX_ROYALTY_BPS
    /\ royalty' = [royalty EXCEPT ![s] = bps]
    /\ Setting /\ UNCHANGED <<adminVars, priceVars, creator>>

------------------------------------------------------------------------------
(* Specification.                                                          *)

TreasuryInit ==
    /\ admin = Unset /\ pending = Unset /\ version = 1 /\ treasury = Unset
    /\ fee = Unset /\ perByte = 0 /\ zeroFee = {} /\ ceilings = Unset
    /\ feeAssets = [t \in FeeTokens |-> 0]
    /\ schemaFee = [s \in PaidSchemas |-> Unset]
    /\ treasuryFees = [t \in FeeTokens |-> 0]
    /\ creatorFees = [p \in Parties \X FeeTokens |-> 0]
    /\ balance = [t \in FeeTokens |->
                    [a \in TokenAccounts |-> IF \E c \in Claims : c.attester = a THEN Funds ELSE 0]]
    /\ creator \in [PaidSchemas -> Roles]
    /\ royalty = [s \in PaidSchemas |-> 0]
    /\ bought = {}
    /\ swept = {}
    /\ changes = 0

AdminStep ==
    \/ \E a \in Roles : InitContract(a)
    \/ \E new \in 1..(MaxVersion + 1) : Upgrade(new)
    \/ \E a \in Roles : ProposeAdmin(a)
    \/ AcceptAdmin
    \/ \E a \in Roles : SetTreasury(a)

PriceStep ==
    \/ \E t \in FeeTokens, n \in FeeAmounts : SetFee(t, n)
    \/ ClearFee
    \/ \E n \in Rates : SetFeePerByte(n)
    \/ \E s \in PaidSchemas, b \in BOOLEAN : SetSchemaZeroFee(s, b)
    \/ \E t \in FeeTokens : RemoveAcceptedFee(t)
    \/ \E t \in FeeTokens, n \in FeeAmounts : SetAcceptedFee(t, n)
    \/ \E n \in FeeAmounts, b \in Bps : SetFeeCeilings(n, b)
    \/ \E who \in Roles, s \in PaidSchemas :
         \/ \E n \in FeeAmounts : SetSchemaFee(who, s, FixedFee(n))
         \/ \E b \in Bps : SetSchemaFee(who, s, ShareFee(b))
         \/ ClearSchemaFee(who, s)

RoyaltyStep ==
    \/ \E s \in PaidSchemas, a \in Roles : TransferSchema(s, a)
    \/ \E s \in PaidSchemas, b \in Bps : CreatorSetsRoyalty(s, b)

(* A payer offers any of the amounts it can afford. *)
PayStep ==
    \E c \in Claims, t \in FeeTokens : \E v \in 0..balance[t][c.attester] :
        AttestWithValue(c, t, v)

WithdrawStep ==
    \E who \in Roles, t \in FeeTokens, n \in Amounts, to \in Destinations :
        \/ WithdrawTokens(who, t, n, to)
        \/ WithdrawCreatorFees(who, t, n, to)
        \/ WithdrawTreasuryFees(who, t, n, to)

TreasuryNext == AdminStep \/ PriceStep \/ RoyaltyStep \/ PayStep \/ WithdrawStep

TreasurySpec == TreasuryInit /\ [][TreasuryNext]_treasuryVars

------------------------------------------------------------------------------
(* Properties.                                                             *)

(* What the books say the contract owes in token t. *)
Owed(t) == treasuryFees[t] + SumFunctionOnSet(creatorFees, Parties \X {t})

(* As long as no treasury address is set and the admin has not used        *)
(* withdraw_tokens, the tokens the contract holds cover what               *)
(* get_treasury_fee_balance and get_creator_fee_balance report, whatever   *)
(* prices, royalties, owners and payments came before: each creator can    *)
(* withdraw its credit in full whatever the others take.  And token units  *)
(* are neither made nor lost, with any of treasury, creator, attester and  *)
(* contract being one address.                                             *)
BooksBacked ==
    /\ treasury = Unset => \A t \in FeeTokens \ swept : balance[t][Self] >= Owed(t)
    /\ \A t \in FeeTokens :
         SumFunctionOnSet(balance[t], TokenAccounts)
           = Funds * Cardinality({c.attester : c \in Claims})
==============================================================================
