--------------------------- MODULE ContractProofs ----------------------------
(***************************************************************************)
(* Safety of the contracts for any number of accounts, messages, proofs,     *)
(* schemas, amounts and ledgers: the money of SAS, and around it the         *)
(* nullifiers of the ZK verifier, the remote verdicts of the cross-chain     *)
(* verifier, the rules of the resolvers, the roles, records and reads of     *)
(* the schema registry and the stored layouts of SAS.  The parts share no    *)
(* state, so each has its own inductive invariant.                           *)
(*                                                                           *)
(* The money: what leaves an attester's account buys an attestation, the     *)
(* books are backed by the tokens the contract holds, and no unit is made    *)
(* or lost.  Every movement of tokens is a composition of single             *)
(* transfers, so both arguments rest on what one transfer does: it takes     *)
(* from the payer only, and it leaves the total of each token as it was.     *)
(*                                                                           *)
(* The stored layouts: the entries of a UID make up the attestation last     *)
(* meant; and the leaves a live attestation commits to, no others, can be    *)
(* disclosed with Merkle proofs.                                             *)
(***************************************************************************)
EXTENDS SASTreasury, ZkVerifier, CrossChainVerifier, Resolvers, SchemaRegistry, SASStorage,
        CollectionTheorems

------------------------------------------------------------------------------
(* Payments.                                                               *)

Ledgers == [FeeTokens -> [TokenAccounts -> Int]]

(* What the payments need to know of the other state: who can be paid, and *)
(* that the registry never grants more than the whole payment.             *)
TreasuryInv ==
    /\ balance \in Ledgers
    /\ treasury \in Parties \cup {Unset}
    /\ creator \in [PaidSchemas -> Parties]
    /\ royalty \in [PaidSchemas -> 0..MAX_ROYALTY_BPS]

(* A transfer takes from the payer only. *)
LEMMA MovedTakesFromPayer ==
    ASSUME NEW b \in Ledgers, NEW t \in FeeTokens, NEW from \in TokenAccounts,
           NEW to \in TokenAccounts, NEW n \in Nat
    PROVE  /\ Moved(b, t, from, to, n) \in Ledgers
           /\ \A x \in FeeTokens, a \in TokenAccounts :
                a # from => Moved(b, t, from, to, n)[x][a] >= b[x][a]
<1>1. CASE from = to
    BY <1>1 DEF Moved, Ledgers
<1>2. CASE from # to
    <2>. DEFINE line == [b[t] EXCEPT ![from] = @ - n]
                line2 == [line EXCEPT ![to] = @ + n]
                paid == [b EXCEPT ![t] = line]
    <2>1. b[t] \in [TokenAccounts -> Int]
        BY DEF Ledgers
    <2>2. line \in [TokenAccounts -> Int] /\ line2 \in [TokenAccounts -> Int]
        BY <2>1
    <2>3. Moved(b, t, from, to, n) = [b EXCEPT ![t] = line2]
        BY <1>2 DEF Moved, Ledgers
    <2>4. \A a \in TokenAccounts : a # from => line2[a] >= b[t][a]
        BY <2>1
    <2>. HIDE DEF line, line2
    <2>5. [b EXCEPT ![t] = line2] \in Ledgers
        BY <2>2 DEF Ledgers
    <2>6. \A x \in FeeTokens, a \in TokenAccounts :
            a # from => [b EXCEPT ![t] = line2][x][a] >= b[x][a]
        <3>. SUFFICES ASSUME NEW x \in FeeTokens, NEW a \in TokenAccounts, a # from
                      PROVE  [b EXCEPT ![t] = line2][x][a] >= b[x][a]
            OBVIOUS
        <3>1. b[x][a] \in Int
            BY DEF Ledgers
        <3>2. CASE x = t
            BY <2>4, <3>2 DEF Ledgers
        <3>3. CASE x # t
            BY <3>1, <3>3 DEF Ledgers
        <3>. QED BY <3>2, <3>3
    <2>. QED BY <2>3, <2>5, <2>6
<1>. QED BY <1>1, <1>2

(* A royalty is a part of the payment. *)
LEMMA ShareOfValue ==
    ASSUME NEW value \in Nat, NEW r \in 0..MAX_ROYALTY_BPS
    PROVE  (value * r) \div BASE \in 0..value
<1>1. value * r \in Nat /\ value * r <= value * BASE
    BY DEF MAX_ROYALTY_BPS, BASE
<1>. QED BY <1>1 DEF BASE

(* distribute_attestation_fee pays out of the contract's tokens only. *)
LEMMA DistributedTakesFromSelf ==
    ASSUME TreasuryInv, NEW b \in Ledgers, NEW s \in PaidSchemas, NEW t \in FeeTokens,
           NEW value \in Nat, Distributable(b, s, t, value)
    PROVE  /\ Distributed(b, s, t, value) \in Ledgers
           /\ \A x \in FeeTokens, a \in TokenAccounts :
                a # Self => Distributed(b, s, t, value)[x][a] >= b[x][a]
<1>1. CASE Skipped(s, value)
    BY <1>1 DEF Distributed, Ledgers
<1>2. CASE ~Skipped(s, value)
    <2>. DEFINE share == RoyaltyShare(s, value)
                rest == Moved(b, t, Self, treasury, value - share)
                done == Moved(rest, t, Self, creator[s], share)
    <2>1. share \in 0..value
        BY ShareOfValue DEF RoyaltyShare, TreasuryInv
    <2>2. share \in Nat /\ value - share \in Nat
        BY <2>1
    <2>3. treasury \in TokenAccounts /\ creator[s] \in TokenAccounts /\ Self \in TokenAccounts
        BY <1>2 DEF Distributable, TreasuryInv, TokenAccounts
    <2>. HIDE DEF share
    <2>4. /\ rest \in Ledgers
          /\ \A x \in FeeTokens, a \in TokenAccounts : a # Self => rest[x][a] >= b[x][a]
        BY <2>2, <2>3, MovedTakesFromPayer
    <2>. HIDE DEF rest
    <2>5. /\ done \in Ledgers
          /\ \A x \in FeeTokens, a \in TokenAccounts : a # Self => done[x][a] >= rest[x][a]
        BY <2>2, <2>3, <2>4, MovedTakesFromPayer
    <2>6. Distributed(b, s, t, value) = done
        BY <1>2 DEF Distributed, done, rest, share
    <2>. HIDE DEF done
    <2>7. \A x \in FeeTokens, a \in TokenAccounts : a # Self => done[x][a] >= b[x][a]
        <3>. SUFFICES ASSUME NEW x \in FeeTokens, NEW a \in TokenAccounts, a # Self
                      PROVE  done[x][a] >= b[x][a]
            OBVIOUS
        <3>1. done[x][a] \in Int /\ rest[x][a] \in Int /\ b[x][a] \in Int
            BY <2>4, <2>5 DEF Ledgers
        <3>. QED BY <2>4, <2>5, <3>1
    <2>. QED BY <2>5, <2>6, <2>7
<1>. QED BY <1>1, <1>2

(* What a payment does to the ledgers: only the attester of a claim that   *)
(* was not bought before pays.                                             *)
LEMMA AttestTakesFromAttester ==
    ASSUME TreasuryInv, NEW c \in Claims, NEW t \in FeeTokens, NEW value \in Nat,
           AttestWithValue(c, t, value)
    PROVE  /\ balance' \in Ledgers
           /\ \A x \in FeeTokens, a \in Parties :
                a # c.attester => balance'[x][a] >= balance[x][a]
           /\ c \in bought' \ bought
<1>. DEFINE extra == CreatorAmount(c.schema, FeeQuote(c.schema, c.size))
            paid == Moved(balance, t, c.attester, Destination(extra), value)
<1>1. c.schema \in PaidSchemas /\ c.attester \in Parties
    BY TreasuryAssumption
<1>2. c \in bought' \ bought
    BY DEF AttestWithValue
<1>3. balance \in Ledgers /\ \A x \in FeeTokens, a \in TokenAccounts : balance[x][a] \in Int
    BY DEF TreasuryInv, Ledgers
<1>4. CASE value = 0
    <2>1. balance' = balance
        BY <1>4 DEF AttestWithValue
    <2>. QED BY <1>2, <1>3, <2>1 DEF TokenAccounts
<1>5. CASE value # 0
    <2>1. /\ Distributable(paid, c.schema, t, value)
          /\ balance' = Distributed(paid, c.schema, t, value)
        BY <1>5 DEF AttestWithValue
    <2>2. c.attester \in TokenAccounts /\ Destination(extra) \in TokenAccounts
        BY <1>1 DEF Destination, TokenAccounts, TreasuryInv
    <2>. HIDE DEF extra
    <2>3. /\ paid \in Ledgers
          /\ \A x \in FeeTokens, a \in TokenAccounts :
               a # c.attester => paid[x][a] >= balance[x][a]
        BY <1>3, <2>2, MovedTakesFromPayer
    <2>. HIDE DEF paid
    <2>4. /\ balance' \in Ledgers
          /\ \A x \in FeeTokens, a \in TokenAccounts : a # Self => balance'[x][a] >= paid[x][a]
        BY <1>1, <2>1, <2>3, DistributedTakesFromSelf
    <2>5. ASSUME NEW x \in FeeTokens, NEW a \in Parties, a # c.attester
          PROVE  balance'[x][a] >= balance[x][a]
        <3>1. a \in TokenAccounts /\ a # Self
            BY TreasuryAssumption DEF TokenAccounts
        <3>2. balance'[x][a] \in Int /\ paid[x][a] \in Int /\ balance[x][a] \in Int
            BY <1>3, <2>3, <2>4, <3>1 DEF Ledgers
        <3>. QED BY <2>3, <2>4, <2>5, <3>1, <3>2
    <2>. QED BY <1>2, <2>4, <2>5
<1>. QED BY <1>4, <1>5

(* A withdrawal takes from the contract. *)
LEMMA PaysTakesFromSelf ==
    ASSUME TreasuryInv, NEW t \in FeeTokens, NEW n \in Amounts, NEW to \in Destinations,
           Pays(t, n, to)
    PROVE  /\ balance' \in Ledgers
           /\ \A x \in FeeTokens, a \in Parties : balance'[x][a] >= balance[x][a]
<1>1. n \in Nat /\ to \in TokenAccounts /\ Self \in TokenAccounts
    BY TreasuryAssumption DEF TokenAccounts
<1>2. balance' = Moved(balance, t, Self, to, n) /\ balance \in Ledgers
    BY DEF Pays, TreasuryInv
<1>3. \A a \in Parties : a \in TokenAccounts /\ a # Self
    BY TreasuryAssumption DEF TokenAccounts
<1>. QED BY <1>1, <1>2, <1>3, MovedTakesFromPayer

(* Every step of the treasury keeps its types. *)
LEMMA TreasuryStep ==
    ASSUME TreasuryInv, [TreasuryNext]_treasuryVars
    PROVE  TreasuryInv'
<1>1. /\ \A c \in Claims : c.attester \in Parties
      /\ \A x \in FeeTokens, a \in Parties : balance[x][a] \in Int
      /\ Roles \subseteq Parties
    BY TreasuryAssumption DEF TreasuryInv, Ledgers, TokenAccounts
<1>3. ASSUME UNCHANGED <<balance, treasury, royaltyVars>> PROVE TreasuryInv'
    BY <1>3 DEF TreasuryInv, royaltyVars
<1>4. CASE AdminStep
    <2>1. ASSUME NEW a \in Roles, SetTreasury(a) PROVE TreasuryInv'
        BY <1>1, <2>1 DEF SetTreasury, Setting, TreasuryInv, royaltyVars
    <2>2. ASSUME ~\E a \in Roles : SetTreasury(a) PROVE UNCHANGED <<balance, treasury, royaltyVars>>
        BY <1>4, <2>2 DEF AdminStep, InitContract, Upgrade, CommitUpgrade, ProposeAdmin,
                          AcceptAdmin, Setting
    <2>. QED BY <1>3, <2>1, <2>2
<1>5. CASE PriceStep
    BY <1>3, <1>5 DEF PriceStep, SetFee, ClearFee, SetFeePerByte, SetSchemaZeroFee,
         RemoveAcceptedFee, SetAcceptedFee, SetFeeCeilings, SetSchemaFee, ClearSchemaFee,
         Setting, adminVars
<1>6. CASE RoyaltyStep
    <2>1. ASSUME NEW s \in PaidSchemas, NEW a \in Roles, TransferSchema(s, a)
          PROVE  TreasuryInv'
        BY <1>1, <2>1 DEF TransferSchema, Setting, TreasuryInv, adminVars
    <2>2. ASSUME NEW s \in PaidSchemas, NEW b \in Bps, CreatorSetsRoyalty(s, b)
          PROVE  TreasuryInv'
        <3>1. b \in 0..MAX_ROYALTY_BPS
            BY <2>2, TreasuryAssumption DEF CreatorSetsRoyalty, MAX_ROYALTY_BPS
        <3>. QED BY <2>2, <3>1 DEF CreatorSetsRoyalty, Setting, TreasuryInv, adminVars
    <2>. QED BY <1>6, <2>1, <2>2 DEF RoyaltyStep
<1>7. CASE PayStep
    <2>1. PICK c \in Claims, t \in FeeTokens : \E v \in 0..balance[t][c.attester] :
            AttestWithValue(c, t, v)
        BY <1>7 DEF PayStep
    <2>2. PICK v \in 0..balance[t][c.attester] : AttestWithValue(c, t, v)
        BY <2>1
    <2>3. v \in Nat
        BY <1>1
    <2>4. /\ balance' \in Ledgers
          /\ \A x \in FeeTokens, a \in Parties :
               a # c.attester => balance'[x][a] >= balance[x][a]
          /\ c \in bought' \ bought
        BY <2>2, <2>3, AttestTakesFromAttester
    <2>5. UNCHANGED <<treasury, royaltyVars>>
        BY <2>2 DEF AttestWithValue, adminVars
    <2>6. TreasuryInv'
        BY <2>4, <2>5 DEF TreasuryInv, royaltyVars
    <2>. QED BY <2>6
<1>8. CASE WithdrawStep
    <2>1. PICK who \in Roles, t \in FeeTokens, n \in Amounts, to \in Destinations :
            \/ WithdrawTokens(who, t, n, to)
            \/ WithdrawCreatorFees(who, t, n, to)
            \/ WithdrawTreasuryFees(who, t, n, to)
        BY <1>8 DEF WithdrawStep
    <2>2. Pays(t, n, to) /\ UNCHANGED <<treasury, royaltyVars>>
        BY <2>1 DEF WithdrawTokens, WithdrawCreatorFees, WithdrawTreasuryFees, adminVars
    <2>3. /\ balance' \in Ledgers
          /\ \A x \in FeeTokens, a \in Parties : balance'[x][a] >= balance[x][a]
        BY <2>2, PaysTakesFromSelf
    <2>4. TreasuryInv'
        BY <2>2, <2>3 DEF TreasuryInv, royaltyVars
    <2>. QED BY <2>4
<1>9. CASE UNCHANGED treasuryVars
    BY <1>3, <1>9 DEF treasuryVars, adminVars
<1>. QED
    BY <1>4, <1>5, <1>6, <1>7, <1>8, <1>9 DEF TreasuryNext

(* The treasury starts empty. *)
LEMMA TreasuryInitInv == TreasuryInit => TreasuryInv
<1>. SUFFICES ASSUME TreasuryInit PROVE TreasuryInv
    OBVIOUS
<1>1. balance \in Ledgers
    BY TreasuryAssumption DEF TreasuryInit, Ledgers
<1>2. 0 \in 0..MAX_ROYALTY_BPS
    BY DEF MAX_ROYALTY_BPS
<1>. QED BY <1>1, <1>2, TreasuryAssumption DEF TreasuryInit, TreasuryInv

------------------------------------------------------------------------------
(* No unit is made or lost.                                                *)

(* There are finitely many token accounts. *)
LEMMA AccountsFinite == IsFiniteSet(TokenAccounts)
    BY TreasuryAssumption, FS_AddElement DEF TokenAccounts

Totals(b) == [t \in FeeTokens |-> SumFunctionOnSet(b[t], TokenAccounts)]

(* A transfer keeps the total of every token. *)
LEMMA MovedKeepsTotals ==
    ASSUME NEW b \in Ledgers, NEW t \in FeeTokens, NEW from \in TokenAccounts,
           NEW to \in TokenAccounts, NEW n \in Nat
    PROVE  Totals(Moved(b, t, from, to, n)) = Totals(b)
<1>1. CASE from = to
    BY <1>1 DEF Moved
<1>2. CASE from # to
    <2>. DEFINE line == [b[t] EXCEPT ![from] = @ - n]
                line2 == [line EXCEPT ![to] = @ + n]
                S(f) == SumFunctionOnSet(f, TokenAccounts)
                m == 0 - n
    <2>1. b[t] \in [TokenAccounts -> Int]
        BY DEF Ledgers
    <2>2. line \in [TokenAccounts -> Int] /\ line2 \in [TokenAccounts -> Int]
        BY <2>1
    <2>3. Moved(b, t, from, to, n) = [b EXCEPT ![t] = line2]
        BY <1>2 DEF Moved, Ledgers
    <2>4. /\ line[from] = b[t][from] + m /\ m \in Int
          /\ \A x \in TokenAccounts \ {from} : line[x] = b[t][x]
        BY <2>1
    <2>5. /\ line2[to] = line[to] + n /\ n \in Int
          /\ \A x \in TokenAccounts \ {to} : line2[x] = line[x]
        BY <2>2
    <2>. HIDE DEF line, line2, m
    <2>6. S(line) = S(b[t]) + m
        <3>1. \A x \in TokenAccounts : b[t][x] \in Int
            BY <2>1
        <3>. QED BY <2>4, <3>1, AccountsFinite, SumChange
    <2>7. S(line2) = S(line) + n
        BY <2>2, <2>5, AccountsFinite, SumChange
    <2>8. S(b[t]) \in Int
        BY <2>1, AccountsFinite, SumType
    <2>. HIDE DEF S
    <2>9. S(line2) = S(b[t])
        BY <2>6, <2>7, <2>8 DEF m
    <2>10. \A x \in FeeTokens : S([b EXCEPT ![t] = line2][x]) = S(b[x])
        <3>. SUFFICES ASSUME NEW x \in FeeTokens PROVE S([b EXCEPT ![t] = line2][x]) = S(b[x])
            OBVIOUS
        <3>1. [b EXCEPT ![t] = line2][x] = IF x = t THEN line2 ELSE b[x]
            BY DEF Ledgers
        <3>. QED BY <2>9, <3>1
    <2>. QED BY <2>3, <2>10 DEF Totals, S
<1>. QED BY <1>1, <1>2

(* So do the royalty and the treasury's part. *)
LEMMA DistributedKeepsTotals ==
    ASSUME TreasuryInv, NEW b \in Ledgers, NEW s \in PaidSchemas, NEW t \in FeeTokens,
           NEW value \in Nat, Distributable(b, s, t, value)
    PROVE  Totals(Distributed(b, s, t, value)) = Totals(b)
<1>1. CASE Skipped(s, value)
    BY <1>1 DEF Distributed
<1>2. CASE ~Skipped(s, value)
    <2>. DEFINE share == RoyaltyShare(s, value)
                rest == Moved(b, t, Self, treasury, value - share)
                done == Moved(rest, t, Self, creator[s], share)
    <2>1. share \in 0..value
        BY ShareOfValue DEF RoyaltyShare, TreasuryInv
    <2>2. share \in Nat /\ value - share \in Nat
        BY <2>1
    <2>3. treasury \in TokenAccounts /\ creator[s] \in TokenAccounts /\ Self \in TokenAccounts
        BY <1>2 DEF Distributable, TreasuryInv, TokenAccounts
    <2>4. Distributed(b, s, t, value) = done
        BY <1>2 DEF Distributed
    <2>. HIDE DEF share
    <2>5. rest \in Ledgers /\ Totals(rest) = Totals(b)
        BY <2>2, <2>3, MovedTakesFromPayer, MovedKeepsTotals
    <2>. HIDE DEF rest
    <2>6. Totals(done) = Totals(rest)
        BY <2>2, <2>3, <2>5, MovedKeepsTotals
    <2>. QED BY <2>4, <2>5, <2>6
<1>. QED BY <1>1, <1>2

(* A paid issuance moves tokens and makes none. *)
LEMMA AttestKeepsTotals ==
    ASSUME TreasuryInv, NEW c \in Claims, NEW t \in FeeTokens, NEW value \in Nat,
           AttestWithValue(c, t, value)
    PROVE  Totals(balance') = Totals(balance)
<1>. DEFINE extra == CreatorAmount(c.schema, FeeQuote(c.schema, c.size))
            paid == Moved(balance, t, c.attester, Destination(extra), value)
<1>1. c.schema \in PaidSchemas /\ c.attester \in TokenAccounts
    BY TreasuryAssumption DEF TokenAccounts
<1>2. CASE value = 0
    BY <1>2 DEF AttestWithValue
<1>3. CASE value # 0
    <2>1. /\ Distributable(paid, c.schema, t, value)
          /\ balance' = Distributed(paid, c.schema, t, value)
        BY <1>3 DEF AttestWithValue
    <2>2. Destination(extra) \in TokenAccounts /\ balance \in Ledgers
        BY DEF Destination, TokenAccounts, TreasuryInv
    <2>. HIDE DEF extra
    <2>3. paid \in Ledgers /\ Totals(paid) = Totals(balance)
        BY <1>1, <2>2, MovedTakesFromPayer, MovedKeepsTotals
    <2>. HIDE DEF paid
    <2>. QED BY <1>1, <2>1, <2>3, DistributedKeepsTotals
<1>. QED BY <1>2, <1>3

(* A withdrawal moves tokens and makes none. *)
LEMMA PaysKeepsTotals ==
    ASSUME TreasuryInv, NEW t \in FeeTokens, NEW n \in Amounts, NEW to \in Destinations,
           Pays(t, n, to)
    PROVE  Totals(balance') = Totals(balance)
<1>1. n \in Nat /\ to \in TokenAccounts /\ Self \in TokenAccounts
    BY TreasuryAssumption DEF TokenAccounts
<1>. QED BY <1>1, MovedKeepsTotals DEF Pays, TreasuryInv

------------------------------------------------------------------------------
(* The books.                                                              *)

SchemaFeeRec == [fee_type : {1, 2}, fixed_amount : Nat, basis_points : Nat]

BooksTypeOK ==
    /\ fee = Unset \/ fee \in [token : FeeTokens, amount : Nat]
    /\ perByte \in Nat
    /\ schemaFee \in [PaidSchemas -> SchemaFeeRec \cup {Unset}]
    /\ treasuryFees \in [FeeTokens -> Int]
    /\ creatorFees \in [Parties \X FeeTokens -> Int]

(* A credit or a debit of one creator in one token. *)
LEMMA CreatorBooks ==
    ASSUME NEW f, NEW h, NEW p \in Parties, NEW t \in FeeTokens, NEW d \in Int,
           \A q \in Parties \X FeeTokens : f[q] \in Int,
           h[<<p, t>>] = f[<<p, t>>] + d,
           \A q \in (Parties \X FeeTokens) \ {<<p, t>>} : h[q] = f[q]
    PROVE  /\ SumFunctionOnSet(f, Parties \X {t}) \in Int
           /\ SumFunctionOnSet(h, Parties \X {t}) = SumFunctionOnSet(f, Parties \X {t}) + d
           /\ \A x \in FeeTokens \ {t} :
                SumFunctionOnSet(h, Parties \X {x}) = SumFunctionOnSet(f, Parties \X {x})
<1>1. \A x : IsFiniteSet(Parties \X {x})
    BY TreasuryAssumption, FS_Singleton, FS_Product
<1>3. \A x \in FeeTokens : \A q \in Parties \X {x} : f[q] \in Int
    OBVIOUS
<1>4. h[<<p, t>>] = f[<<p, t>>] + d /\ \A q \in (Parties \X {t}) \ {<<p, t>>} : h[q] = f[q]
    OBVIOUS
<1>5. <<p, t>> \in Parties \X {t}
    OBVIOUS
<1>6. \A x \in FeeTokens \ {t} : \A q \in Parties \X {x} : f[q] = h[q]
    OBVIOUS
<1>7. SumFunctionOnSet(f, Parties \X {t}) \in Int
    BY <1>1, <1>3, SumType
<1>8. SumFunctionOnSet(h, Parties \X {t}) = SumFunctionOnSet(f, Parties \X {t}) + d
    <2>. DEFINE S == Parties \X {t}
                a == <<p, t>>
    <2>1. IsFiniteSet(S) /\ a \in S /\ \A q \in S : f[q] \in Int
        BY <1>1, <1>3, <1>5
    <2>2. d \in Int /\ h[a] = f[a] + d /\ \A q \in S \ {a} : h[q] = f[q]
        BY <1>4
    <2>. HIDE DEF S, a
    <2>3. SumFunctionOnSet(h, S) = SumFunctionOnSet(f, S) + d
        BY ONLY <2>1, <2>2, SumChange
    <2>. QED BY <2>3 DEF S
<1>9. ASSUME NEW x \in FeeTokens \ {t}
      PROVE  SumFunctionOnSet(h, Parties \X {x}) = SumFunctionOnSet(f, Parties \X {x})
    BY <1>1, <1>6, SumSame
<1>. QED BY <1>7, <1>8, <1>9

(* Quotes and schema fees are amounts. *)
LEMMA QuoteType ==
    ASSUME BooksTypeOK, NEW c \in Claims
    PROVE  /\ FeeQuote(c.schema, c.size) \in Nat
           /\ CreatorAmount(c.schema, FeeQuote(c.schema, c.size)) \in Nat
<1>. DEFINE base == FeeQuote(c.schema, c.size)
            cfg == schemaFee[c.schema]
<1>1. c.schema \in PaidSchemas /\ c.size \in Nat
    BY TreasuryAssumption
<1>2. base \in Nat
    <2>1. perByte * c.size \in Nat
        BY <1>1 DEF BooksTypeOK
    <2>2. fee # Unset => fee.amount \in Nat
        BY DEF BooksTypeOK
    <2>. QED BY <2>1, <2>2 DEF FeeQuote
<1>3. cfg # Unset => cfg.fixed_amount \in Nat /\ cfg.basis_points \in Nat
    BY <1>1 DEF BooksTypeOK, SchemaFeeRec
<1>. HIDE DEF base
<1>4. cfg # Unset => (base * cfg.basis_points) \div BASE \in Nat
    <2>1. cfg # Unset => base * cfg.basis_points \in Nat
        BY <1>2, <1>3
    <2>. HIDE DEF cfg
    <2>. QED BY <2>1 DEF BASE
<1>5. CreatorAmount(c.schema, base) \in Nat
    BY <1>3, <1>4 DEF CreatorAmount
<1>. QED BY <1>2, <1>5 DEF base

Backed == treasury = Unset => \A t \in FeeTokens \ swept : balance[t][Self] >= Owed(t)

Conserved ==
    \A t \in FeeTokens :
        Totals(balance)[t] = Funds * Cardinality({c.attester : c \in Claims})

BooksInv == TreasuryInv /\ BooksTypeOK /\ Backed /\ Conserved

(* What the books owe is an integer. *)
LEMMA OwedType ==
    ASSUME BooksTypeOK, NEW t \in FeeTokens
    PROVE  /\ Owed(t) \in Int /\ treasuryFees[t] \in Int
           /\ SumFunctionOnSet(creatorFees, Parties \X {t}) \in Int
<1>1. IsFiniteSet(Parties \X {t})
    BY TreasuryAssumption, FS_Singleton, FS_Product
<1>2. \A q \in Parties \X {t} : creatorFees[q] \in Int
    BY DEF BooksTypeOK
<1>3. SumFunctionOnSet(creatorFees, Parties \X {t}) \in Int
    BY <1>1, <1>2, SumType
<1>. QED BY <1>3 DEF Owed, BooksTypeOK

(* A step that credits or debits a creator and the treasury in one token   *)
(* by as much as the contract's balance changes keeps the books backed.    *)
LEMMA BooksChange ==
    ASSUME BooksInv, TreasuryInv', NEW t \in FeeTokens, NEW p \in Parties,
           NEW base \in Int, NEW extra \in Int,
           treasuryFees' = [treasuryFees EXCEPT ![t] = @ + base],
           creatorFees' = [creatorFees EXCEPT ![<<p, t>>] = @ + extra],
           UNCHANGED <<fee, perByte, schemaFee, treasury, swept>>,
           Totals(balance') = Totals(balance),
           treasury = Unset =>
             /\ balance'[t][Self] >= balance[t][Self] + base + extra
             /\ \A x \in FeeTokens \ {t} : balance'[x][Self] >= balance[x][Self]
    PROVE  BooksInv'
<1>1. BooksTypeOK'
    BY DEF BooksInv, BooksTypeOK
<1>2. Conserved'
    BY DEF BooksInv, Conserved
<1>0. /\ SumFunctionOnSet(creatorFees', Parties \X {t}) =
           SumFunctionOnSet(creatorFees, Parties \X {t}) + extra
      /\ \A x \in FeeTokens \ {t} : SumFunctionOnSet(creatorFees', Parties \X {x}) =
                                    SumFunctionOnSet(creatorFees, Parties \X {x})
    <2>1. /\ creatorFees \in [Parties \X FeeTokens -> Int]
          /\ creatorFees' = [creatorFees EXCEPT ![<<p, t>>] = creatorFees[<<p, t>>] + extra]
        BY DEF BooksInv, BooksTypeOK
    <2>. DEFINE f == creatorFees
                h == creatorFees'
    <2>. HIDE DEF f, h
    <2>2. /\ \A q \in Parties \X FeeTokens : f[q] \in Int
          /\ h[<<p, t>>] = f[<<p, t>>] + extra
          /\ \A q \in (Parties \X FeeTokens) \ {<<p, t>>} : h[q] = f[q]
        BY <2>1 DEF f, h
    <2>3. /\ SumFunctionOnSet(h, Parties \X {t}) = SumFunctionOnSet(f, Parties \X {t}) + extra
          /\ \A x \in FeeTokens \ {t} :
               SumFunctionOnSet(h, Parties \X {x}) = SumFunctionOnSet(f, Parties \X {x})
        BY ONLY <2>2, p \in Parties, t \in FeeTokens, extra \in Int, CreatorBooks
    <2>. QED BY <2>3 DEF f, h
<1>3. ASSUME treasury = Unset, NEW x \in FeeTokens \ swept PROVE balance'[x][Self] >= Owed(x)'
    <2>1. balance[x][Self] \in Int /\ balance'[x][Self] \in Int
        BY DEF BooksInv, TreasuryInv, Ledgers, TokenAccounts
    <2>2. balance[x][Self] >= Owed(x)
        BY <1>3 DEF BooksInv, Backed
    <2>. DEFINE F == SumFunctionOnSet(creatorFees, Parties \X {x})
    <2>3. treasuryFees[x] \in Int /\ F \in Int
        BY OwedType DEF BooksInv
    <2>5. CASE x = t
        <3>1. F' = F + extra
            BY <1>0, <2>5
        <3>2. treasuryFees'[x] = treasuryFees[x] + base
            BY <2>5 DEF BooksInv, BooksTypeOK
        <3>3. balance'[x][Self] >= balance[x][Self] + base + extra
            BY <1>3, <2>5
        <3>. HIDE DEF F
        <3>4. Owed(x) = treasuryFees[x] + F /\ Owed(x)' = treasuryFees'[x] + F'
            BY DEF Owed, F
        <3>. QED BY <2>1, <2>2, <2>3, <3>1, <3>2, <3>3, <3>4
    <2>6. CASE x # t
        <3>1. F' = F
            BY <1>0, <2>6
        <3>2. treasuryFees'[x] = treasuryFees[x]
            BY <2>6 DEF BooksInv, BooksTypeOK
        <3>3. balance'[x][Self] >= balance[x][Self]
            BY <1>3, <2>6
        <3>. HIDE DEF F
        <3>4. Owed(x) = treasuryFees[x] + F /\ Owed(x)' = treasuryFees'[x] + F'
            BY DEF Owed, F
        <3>. QED BY <2>1, <2>2, <2>3, <3>1, <3>2, <3>3, <3>4
    <2>. QED BY <2>5, <2>6
<1>4. Backed'
    BY <1>3 DEF Backed
<1>. QED BY <1>1, <1>2, <1>4 DEF BooksInv

(* The contract's balance after a transfer to or from it. *)
LEMMA MovedSelf ==
    ASSUME NEW b \in Ledgers, NEW t \in FeeTokens, NEW a \in TokenAccounts, NEW n \in Nat
    PROVE  /\ a # Self => Moved(b, t, a, Self, n)[t][Self] = b[t][Self] + n
           /\ Moved(b, t, Self, a, n)[t][Self] >= b[t][Self] - n
           /\ \A x \in FeeTokens \ {t} : /\ Moved(b, t, a, Self, n)[x] = b[x]
                                       /\ Moved(b, t, Self, a, n)[x] = b[x]
<1>1. Self \in TokenAccounts /\ b[t] \in [TokenAccounts -> Int] /\ b[t][Self] \in Int
    BY DEF TokenAccounts, Ledgers
<1>2. CASE a = Self
    BY <1>1, <1>2 DEF Moved
<1>3. CASE a # Self
    <2>. DEFINE in == [[b[t] EXCEPT ![a] = @ - n] EXCEPT ![Self] = @ + n]
                out == [[b[t] EXCEPT ![Self] = @ - n] EXCEPT ![a] = @ + n]
    <2>1. Moved(b, t, a, Self, n) = [b EXCEPT ![t] = in]
        BY <1>3 DEF Moved, Ledgers
    <2>2. Moved(b, t, Self, a, n) = [b EXCEPT ![t] = out]
        BY <1>3 DEF Moved, Ledgers
    <2>3. in[Self] = b[t][Self] + n /\ out[Self] = b[t][Self] - n
        BY <1>1, <1>3
    <2>. HIDE DEF in, out
    <2>4. [b EXCEPT ![t] = in][t] = in /\ [b EXCEPT ![t] = out][t] = out
        BY DEF Ledgers
    <2>5. \A x \in FeeTokens \ {t} : [b EXCEPT ![t] = in][x] = b[x] /\ [b EXCEPT ![t] = out][x] = b[x]
        BY DEF Ledgers
    <2>6. out[Self] >= b[t][Self] - n
        BY <1>1, <2>3
    <2>. QED BY <2>1, <2>2, <2>3, <2>4, <2>5, <2>6
<1>. QED BY <1>2, <1>3

(* A step that leaves money and books alone. *)
LEMMA BooksFrame ==
    ASSUME BooksInv, TreasuryInv', BooksTypeOK', UNCHANGED <<balance, bookVars, swept>>,
           treasury' = Unset => treasury = Unset
    PROVE  BooksInv'
<1>1. \A t : Owed(t)' = Owed(t)
    BY DEF Owed, bookVars
<1>2. Backed'
    BY <1>1 DEF BooksInv, Backed
<1>3. Conserved'
    BY DEF BooksInv, Conserved
<1>. QED BY <1>2, <1>3 DEF BooksInv

(* Paid issuance credits what it collects. *)
LEMMA BooksAttest ==
    ASSUME BooksInv, TreasuryInv', NEW c \in Claims, NEW t \in FeeTokens, NEW value \in Nat,
           AttestWithValue(c, t, value)
    PROVE  BooksInv'
<1>. DEFINE base == FeeQuote(c.schema, c.size)
            extra == CreatorAmount(c.schema, base)
            paid == Moved(balance, t, c.attester, Destination(extra), value)
<1>0. UNCHANGED <<fee, perByte, schemaFee, treasury, swept>>
    BY DEF AttestWithValue, adminVars, priceVars
<1>1. base \in Int /\ extra \in Int
    BY QuoteType DEF BooksInv
<1>2. c.schema \in PaidSchemas /\ c.attester \in TokenAccounts /\ c.attester # Self
    BY TreasuryAssumption DEF TokenAccounts
<1>3. balance \in Ledgers /\ \A x \in FeeTokens : balance[x][Self] \in Int
    BY DEF BooksInv, TreasuryInv, Ledgers, TokenAccounts
<1>4. CASE value = 0
    <2>1. UNCHANGED <<balance, bookVars>>
        BY <1>4 DEF AttestWithValue
    <2>2. BooksTypeOK'
        BY <1>0, <2>1 DEF BooksInv, BooksTypeOK, bookVars
    <2>. QED BY <1>0, <2>1, <2>2, BooksFrame
<1>5. CASE value # 0
    <2>1. /\ treasuryFees' = [treasuryFees EXCEPT ![t] = @ + base]
          /\ creatorFees' = [creatorFees EXCEPT ![<<creator[c.schema], t>>] = @ + extra]
        BY <1>5 DEF AttestWithValue, Credits
    <2>2. creator[c.schema] \in Parties
        BY <1>2 DEF BooksInv, TreasuryInv
    <2>3. Totals(balance') = Totals(balance)
        BY AttestKeepsTotals DEF BooksInv
    <2>4. ASSUME treasury = Unset
          PROVE  /\ balance'[t][Self] >= balance[t][Self] + base + extra
                 /\ \A x \in FeeTokens \ {t} : balance'[x][Self] >= balance[x][Self]
        <3>1. IsDefault(t) /\ Payable(c.schema, t, value, base, extra)
            BY <1>5, <2>4 DEF AttestWithValue
        <3>2. value = base + extra
            BY <3>1 DEF Payable
        <3>3. /\ Distributable(paid, c.schema, t, value)
              /\ balance' = Distributed(paid, c.schema, t, value)
            BY <1>5 DEF AttestWithValue
        <3>4. balance' = paid
            BY <2>4, <3>3 DEF Distributable, Distributed
        <3>5. Destination(extra) = Self
            BY <2>4 DEF Destination
        <3>. HIDE DEF base, extra
        <3>6. /\ balance'[t][Self] = balance[t][Self] + value
              /\ \A x \in FeeTokens \ {t} : balance'[x] = balance[x]
            BY <1>2, <1>3, <3>4, <3>5, MovedSelf
        <3>. QED BY <1>1, <1>3, <3>2, <3>6
    <2>. HIDE DEF base, extra
    <2>. QED BY <1>0, <1>1, <2>1, <2>2, <2>3, <2>4, BooksChange
<1>. QED BY <1>4, <1>5

(* What a withdrawal leaves in the contract. *)
LEMMA PaysSelf ==
    ASSUME TreasuryInv, NEW t \in FeeTokens, NEW n \in Amounts, NEW to \in Destinations,
           Pays(t, n, to)
    PROVE  /\ n \in Nat /\ balance[t][Self] \in Int /\ balance'[t][Self] >= balance[t][Self] - n
           /\ \A x \in FeeTokens \ {t} : balance'[x] = balance[x]
<1>1. n \in Nat /\ to \in TokenAccounts
    BY TreasuryAssumption DEF TokenAccounts
<1>2. balance \in Ledgers /\ balance' = Moved(balance, t, Self, to, n)
    BY DEF Pays, TreasuryInv
<1>3. balance[t][Self] \in Int
    BY <1>2 DEF Ledgers, TokenAccounts
<1>. QED BY <1>1, <1>2, <1>3, MovedSelf

(* A withdrawal leaves the books backed. *)
LEMMA BooksWithdraw ==
    ASSUME BooksInv, TreasuryInv', WithdrawStep
    PROVE  BooksInv'
<1>1. PICK who \in Roles, t \in FeeTokens, n \in Amounts, to \in Destinations :
        \/ WithdrawTokens(who, t, n, to)
        \/ WithdrawCreatorFees(who, t, n, to)
        \/ WithdrawTreasuryFees(who, t, n, to)
    BY DEF WithdrawStep
<1>2. Pays(t, n, to) /\ UNCHANGED <<fee, perByte, schemaFee, treasury>>
    BY <1>1 DEF WithdrawTokens, WithdrawCreatorFees, WithdrawTreasuryFees, adminVars, priceVars
<1>3. Totals(balance') = Totals(balance)
    BY <1>2, PaysKeepsTotals DEF BooksInv
<1>4. /\ n \in Nat /\ balance[t][Self] \in Int /\ balance'[t][Self] >= balance[t][Self] - n
      /\ \A x \in FeeTokens \ {t} : balance'[x] = balance[x]
    BY <1>2, PaysSelf DEF BooksInv
<1>5. \A x \in FeeTokens : balance[x][Self] \in Int /\ balance'[x][Self] \in Int
    BY DEF BooksInv, TreasuryInv, Ledgers, TokenAccounts
<1>. DEFINE m == 0 - n
            z == 0
<1>6. who \in Parties /\ z \in Int /\ m \in Int /\ \A i \in Int : i - n = i + m /\ i = i + z
    BY <1>4, TreasuryAssumption
<1>7. /\ balance'[t][Self] >= balance[t][Self] + z + m
      /\ balance'[t][Self] >= balance[t][Self] + m + z
      /\ \A x \in FeeTokens \ {t} : balance'[x][Self] >= balance[x][Self]
    BY <1>4, <1>5
<1>. HIDE DEF m, z
<1>7a. creatorFees[<<who, t>>] \in Int /\ treasuryFees[t] \in Int
    BY <1>6 DEF BooksInv, BooksTypeOK
<1>7b. /\ creatorFees = [creatorFees EXCEPT ![<<who, t>>] = @]
       /\ treasuryFees = [treasuryFees EXCEPT ![t] = @]
    BY DEF BooksInv, BooksTypeOK
<1>8. CASE WithdrawTokens(who, t, n, to)
    <2>1. UNCHANGED bookVars /\ swept' = swept \cup {t}
        BY <1>8 DEF WithdrawTokens
    <2>2. BooksTypeOK'
        BY <1>2, <2>1 DEF BooksInv, BooksTypeOK, bookVars
    <2>3. \A x : Owed(x)' = Owed(x)
        BY <2>1 DEF Owed, bookVars
    <2>4. Backed'
        BY <1>2, <1>4, <2>1, <2>3 DEF BooksInv, Backed
    <2>5. Conserved'
        BY <1>3 DEF BooksInv, Conserved
    <2>. QED BY <2>2, <2>4, <2>5 DEF BooksInv
<1>9. CASE WithdrawCreatorFees(who, t, n, to)
    <2>1. /\ creatorFees' = [creatorFees EXCEPT ![<<who, t>>] = @ - n]
          /\ treasuryFees' = treasuryFees /\ swept' = swept
        BY <1>9 DEF WithdrawCreatorFees
    <2>2. creatorFees' = [creatorFees EXCEPT ![<<who, t>>] = @ + m]
        BY <1>6, <1>7a, <2>1
    <2>3. treasuryFees' = [treasuryFees EXCEPT ![t] = @ + z]
        BY <1>6, <1>7a, <1>7b, <2>1
    <2>4. UNCHANGED <<fee, perByte, schemaFee, treasury, swept>>
        BY <1>2, <2>1
    <2>. QED BY <1>3, <1>6, <1>7, <2>2, <2>3, <2>4, BooksChange
<1>10. CASE WithdrawTreasuryFees(who, t, n, to)
    <2>1. /\ treasuryFees' = [treasuryFees EXCEPT ![t] = @ - n]
          /\ creatorFees' = creatorFees /\ swept' = swept
        BY <1>10 DEF WithdrawTreasuryFees
    <2>2. treasuryFees' = [treasuryFees EXCEPT ![t] = @ + m]
        BY <1>6, <1>7a, <2>1
    <2>3. creatorFees' = [creatorFees EXCEPT ![<<who, t>>] = @ + z]
        BY <1>6, <1>7a, <1>7b, <2>1
    <2>4. UNCHANGED <<fee, perByte, schemaFee, treasury, swept>>
        BY <1>2, <2>1
    <2>. QED BY <1>3, <1>6, <1>7, <2>2, <2>3, <2>4, BooksChange
<1>. QED BY <1>1, <1>8, <1>9, <1>10

(* The settings are amounts again. *)
LEMMA PriceTypes ==
    ASSUME BooksInv, PriceStep
    PROVE  BooksTypeOK' /\ UNCHANGED <<balance, bookVars, swept, treasury>>
<1>0. /\ FeeAmounts \subseteq Nat /\ Rates \subseteq Nat /\ Bps \subseteq Nat
      /\ \A n \in FeeAmounts : FixedFee(n) \in SchemaFeeRec
      /\ \A b \in Bps : ShareFee(b) \in SchemaFeeRec
    BY TreasuryAssumption DEF FixedFee, ShareFee, SchemaFeeRec
<1>1. UNCHANGED <<balance, bookVars, swept, treasury>>
    BY DEF PriceStep, SetFee, ClearFee, SetFeePerByte, SetSchemaZeroFee, RemoveAcceptedFee,
           SetAcceptedFee, SetFeeCeilings, SetSchemaFee, ClearSchemaFee, Setting, adminVars
<1>2. UNCHANGED <<treasuryFees, creatorFees>>
    BY <1>1 DEF bookVars
<1>3. ASSUME NEW t \in FeeTokens, NEW n \in FeeAmounts, SetFee(t, n) PROVE BooksTypeOK'
    <2>1. fee' \in [token : FeeTokens, amount : Nat] /\ UNCHANGED <<perByte, schemaFee>>
        BY <1>0, <1>3 DEF SetFee
    <2>. QED BY <1>2, <2>1 DEF BooksInv, BooksTypeOK
<1>4. ASSUME ClearFee PROVE BooksTypeOK'
    <2>1. fee' = Unset /\ perByte' \in Nat /\ schemaFee' = schemaFee
        BY <1>4 DEF ClearFee
    <2>. QED BY <1>2, <2>1 DEF BooksInv, BooksTypeOK
<1>5. ASSUME NEW n \in Rates, SetFeePerByte(n) PROVE BooksTypeOK'
    BY <1>0, <1>2, <1>5 DEF SetFeePerByte, BooksInv, BooksTypeOK
<1>6. ASSUME UNCHANGED <<fee, perByte>>,
             \/ schemaFee' = schemaFee
             \/ \E s \in PaidSchemas, cfg \in SchemaFeeRec \cup {Unset} :
                  schemaFee' = [schemaFee EXCEPT ![s] = cfg]
      PROVE  BooksTypeOK'
    BY <1>2, <1>6 DEF BooksInv, BooksTypeOK
<1>7. ASSUME NEW who \in Roles, NEW s \in PaidSchemas,
             \/ \E n \in FeeAmounts : SetSchemaFee(who, s, FixedFee(n))
             \/ \E b \in Bps : SetSchemaFee(who, s, ShareFee(b))
             \/ ClearSchemaFee(who, s)
      PROVE  BooksTypeOK'
    <2>1. UNCHANGED <<fee, perByte>>
        BY <1>7 DEF SetSchemaFee, ClearSchemaFee
    <2>2. \E cfg \in SchemaFeeRec \cup {Unset} : schemaFee' = [schemaFee EXCEPT ![s] = cfg]
        BY <1>0, <1>7 DEF SetSchemaFee, ClearSchemaFee
    <2>. QED BY <1>6, <2>1, <2>2
<1>8. ASSUME \/ \E s \in PaidSchemas, b \in BOOLEAN : SetSchemaZeroFee(s, b)
             \/ \E t \in FeeTokens : RemoveAcceptedFee(t)
             \/ \E t \in FeeTokens, n \in FeeAmounts : SetAcceptedFee(t, n)
             \/ \E n \in FeeAmounts, b \in Bps : SetFeeCeilings(n, b)
      PROVE  BooksTypeOK'
    <2>1. UNCHANGED <<fee, perByte, schemaFee>>
        BY <1>8 DEF SetSchemaZeroFee, RemoveAcceptedFee, SetAcceptedFee, SetFeeCeilings
    <2>. QED BY <1>6, <2>1
<1>. QED BY <1>1, <1>3, <1>4, <1>5, <1>7, <1>8 DEF PriceStep

(* Every step leaves the books backed. *)
LEMMA BooksNext == BooksInv /\ [TreasuryNext]_treasuryVars => BooksInv'
<1>. SUFFICES ASSUME BooksInv, [TreasuryNext]_treasuryVars PROVE BooksInv'
    OBVIOUS
<1>1. TreasuryInv'
    BY TreasuryStep DEF BooksInv
<1>2. CASE AdminStep
    <2>1. UNCHANGED <<balance, bookVars, swept, priceVars>>
        BY <1>2 DEF AdminStep, InitContract, Upgrade, CommitUpgrade, ProposeAdmin, AcceptAdmin,
                    SetTreasury, Setting
    <2>2. treasury' = treasury \/ treasury' \in Roles
        BY <1>2 DEF AdminStep, InitContract, Upgrade, CommitUpgrade, ProposeAdmin, AcceptAdmin,
                    SetTreasury, Setting
    <2>3. treasury' = Unset => treasury = Unset
        BY <2>2, TreasuryAssumption
    <2>4. BooksTypeOK'
        BY <2>1 DEF BooksInv, BooksTypeOK, bookVars, priceVars
    <2>. QED BY <1>1, <2>1, <2>3, <2>4, BooksFrame
<1>3. CASE PriceStep
    BY <1>1, <1>3, PriceTypes, BooksFrame
<1>4. CASE RoyaltyStep
    <2>1. UNCHANGED <<balance, bookVars, swept, priceVars, adminVars>>
        BY <1>4 DEF RoyaltyStep, TransferSchema, CreatorSetsRoyalty, Setting
    <2>2. BooksTypeOK' /\ treasury' = treasury
        BY <2>1 DEF BooksInv, BooksTypeOK, bookVars, priceVars, adminVars
    <2>. QED BY <1>1, <2>1, <2>2, BooksFrame
<1>5. CASE PayStep
    <2>1. PICK c \in Claims, t \in FeeTokens : \E v \in 0..balance[t][c.attester] :
            AttestWithValue(c, t, v)
        BY <1>5 DEF PayStep
    <2>2. PICK v \in 0..balance[t][c.attester] : AttestWithValue(c, t, v)
        BY <2>1
    <2>3. balance[t][c.attester] \in Int
        BY TreasuryAssumption DEF BooksInv, TreasuryInv, Ledgers, TokenAccounts
    <2>4. v \in Nat
        BY <2>3
    <2>. QED BY <1>1, <2>2, <2>4, BooksAttest
<1>6. CASE WithdrawStep
    BY <1>1, <1>6, BooksWithdraw
<1>7. CASE UNCHANGED treasuryVars
    <2>1. UNCHANGED <<balance, bookVars, swept, priceVars, adminVars>>
        BY <1>7 DEF treasuryVars
    <2>2. BooksTypeOK' /\ treasury' = treasury
        BY <2>1 DEF BooksInv, BooksTypeOK, bookVars, priceVars, adminVars
    <2>. QED BY <1>1, <2>1, <2>2, BooksFrame
<1>. QED BY <1>2, <1>3, <1>4, <1>5, <1>6, <1>7 DEF TreasuryNext

(* Empty books are backed. *)
LEMMA BooksInit == TreasuryInit => BooksInv
<1>. SUFFICES ASSUME TreasuryInit PROVE BooksInv
    OBVIOUS
<1>1. TreasuryInv
    BY TreasuryInitInv
<1>2. BooksTypeOK
    BY DEF TreasuryInit, BooksTypeOK
<1>3. Backed
    <2>. SUFFICES ASSUME NEW t \in FeeTokens PROVE balance[t][Self] >= Owed(t)
        BY DEF Backed
    <2>1. balance[t][Self] = 0
        BY TreasuryAssumption DEF TreasuryInit, TokenAccounts
    <2>. DEFINE S == Parties \X {t}
    <2>2. IsFiniteSet(S)
        BY TreasuryAssumption, FS_Singleton, FS_Product
    <2>3. \A q \in S : creatorFees[q] = IF q \in {} THEN 0 ELSE 0
        BY DEF TreasuryInit
    <2>. HIDE DEF S
    <2>4. SumFunctionOnSet(creatorFees, S) = 0 * Cardinality({})
        BY <2>2, <2>3, SumIndicator
    <2>5. Cardinality({}) = 0
        BY FS_EmptySet
    <2>6. Owed(t) = 0
        BY <2>4, <2>5 DEF Owed, TreasuryInit, S
    <2>. QED BY <2>1, <2>6
<1>4. Conserved
    <2>. SUFFICES ASSUME NEW t \in FeeTokens
                  PROVE  SumFunctionOnSet(balance[t], TokenAccounts)
                           = Funds * Cardinality({c.attester : c \in Claims})
        BY DEF Conserved, Totals
    <2>. DEFINE A == {c.attester : c \in Claims}
    <2>1. A \in SUBSET TokenAccounts
        BY TreasuryAssumption DEF TokenAccounts
    <2>2. \A a \in TokenAccounts : balance[t][a] = IF a \in A THEN Funds ELSE 0
        BY DEF TreasuryInit
    <2>3. Funds \in Nat
        BY TreasuryAssumption
    <2>. DEFINE f == balance[t]
    <2>. HIDE DEF A, f
    <2>4. SumFunctionOnSet(f, TokenAccounts) = Funds * Cardinality(A)
        BY <2>1, <2>2, <2>3, AccountsFinite, SumIndicator DEF f
    <2>. QED BY <2>4 DEF A, f
<1>. QED BY <1>1, <1>2, <1>3, <1>4 DEF BooksInv

(* For any parties, tokens, prices, royalties and amounts: while no        *)
(* treasury address is set and withdraw_tokens is not used, the contract   *)
(* holds what its books say it owes, and the units of each token are       *)
(* always those there were (attest_with_value, withdraw_creator_fees,      *)
(* withdraw_treasury_fees, withdraw_tokens).                               *)
THEOREM BooksAlwaysBacked == TreasurySpec => []BooksBacked
<1>1. BooksInv => BooksBacked
    BY DEF BooksInv, Backed, Conserved, Totals, BooksBacked
<1>. QED BY <1>1, BooksInit, BooksNext, PTL DEF TreasurySpec

------------------------------------------------------------------------------
(* The ZK verifier.                                                        *)

(* A nullifier has been accepted once when it has a record and never       *)
(* otherwise: neither renewing a record nor letting it run out nor         *)
(* restoring it makes or unmakes one.                                      *)
ZkInv ==
    /\ ledger \in Nat \ {0}
    /\ spent \in [Nullifiers -> Nat] /\ committed \in [Commitments -> Nat]
    /\ accepts \in [Nullifiers -> Nat] /\ touched \in [ZkEntries -> Nat]
    /\ \A n \in Nullifiers : accepts[n] = IF spent[n] = 0 THEN 0 ELSE 1
    /\ \A n \in Nullifiers : spent[n] # 0 => spent[n] >= touched[n] + THRESHOLD
    /\ \A c \in Commitments : committed[c] # 0 => committed[c] >= touched[c] + THRESHOLD

(* A record that a call has renewed lives THRESHOLD ledgers at least. *)
LEMMA ExtendedRecord ==
    ASSUME ledger \in Nat \ {0}, NEW x \in Nat
    PROVE  Extended(x) \in Nat /\ Extended(x) # 0 /\ Extended(x) >= ledger + THRESHOLD
    BY ZkAssumption DEF Extended

(* A restored record lives longer than it did. *)
LEMMA RestoredRecord ==
    ASSUME ledger \in Nat \ {0}, NEW x \in Nat
    PROVE  Restored(x) \in Nat /\ (Restored(x) = 0 <=> x = 0) /\ Restored(x) >= x
    BY ZkAssumption DEF Restored, Readable, Alive

(* The verifier starts with nothing spent. *)
LEMMA ZkInitInv == ZkInit => ZkInv
    BY DEF ZkInit, ZkInv

(* Every step of the verifier keeps its invariant. *)
LEMMA ZkNextInv == ZkInv /\ [ZkNext]_zkAllVars => ZkInv'
<1>. SUFFICES ASSUME ZkInv, [ZkNext]_zkAllVars PROVE ZkInv'
    OBVIOUS
<1>0. /\ ledger \in Nat \ {0} /\ THRESHOLD \in Nat /\ ledger + MIN_TTL \in Nat
      /\ \A n \in Nullifiers : n \in ZkEntries /\ n \notin Commitments
      /\ \A c \in Commitments : c \in ZkEntries /\ c \notin Nullifiers
    BY ZkAssumption DEF ZkInv, ZkEntries
<1>1. CASE ZkVerifierInit \/ GetConfig
    BY <1>1 DEF ZkVerifierInit, GetConfig, ZkInv
<1>2. ASSUME NEW n \in Nullifiers, NEW c \in Commitments, NEW u, NEW t, NEW b,
             VerifyAndConsumeProof(n, c, u, t, b)
      PROVE  ZkInv'
    <2>. DEFINE x == Extended(ledger + MIN_TTL)
                y == Extended(IF committed[c] = 0 THEN ledger + MIN_TTL ELSE committed[c])
    <2>1. /\ x \in Nat /\ x # 0 /\ x >= ledger + THRESHOLD
          /\ y \in Nat /\ y # 0 /\ y >= ledger + THRESHOLD
        BY <1>0, ExtendedRecord DEF ZkInv
    <2>2. spent[n] = 0 /\ accepts[n] = 0
        BY <1>2 DEF VerifyAndConsumeProof, Consumable, Readable, ZkInv
    <2>3. /\ spent' = [spent EXCEPT ![n] = x] /\ committed' = [committed EXCEPT ![c] = y]
          /\ accepts' = [accepts EXCEPT ![n] = accepts[n] + 1]
          /\ touched' = [touched EXCEPT ![n] = ledger, ![c] = ledger]
          /\ ledger' = ledger
        BY <1>2 DEF VerifyAndConsumeProof
    <2>. HIDE DEF x, y
    <2>4. /\ \A m \in Nullifiers : touched'[m] = IF m = n THEN ledger ELSE touched[m]
          /\ \A d \in Commitments : touched'[d] = IF d = c THEN ledger ELSE touched[d]
          /\ touched' \in [ZkEntries -> Nat]
        BY <1>0, <2>3 DEF ZkInv
    <2>. QED BY <1>0, <2>1, <2>2, <2>3, <2>4 DEF ZkInv
<1>3. ASSUME NEW S \in SUBSET Nullifiers, AreNullifiersUsed(S)
      PROVE  ZkInv'
    <2>1. \A n \in Nullifiers :
            spent'[n] = IF n \in S /\ spent[n] # 0 THEN Extended(spent[n]) ELSE spent[n]
        BY <1>3 DEF AreNullifiersUsed
    <2>2. /\ \A n \in Nullifiers : touched'[n] = IF n \in S THEN ledger ELSE touched[n]
          /\ \A c \in Commitments : touched'[c] = touched[c]
          /\ touched' \in [ZkEntries -> Nat]
        BY <1>0, <1>3 DEF AreNullifiersUsed, ZkInv
    <2>3. \A n \in Nullifiers : /\ spent'[n] \in Nat /\ (spent'[n] = 0 <=> spent[n] = 0)
                                /\ spent'[n] # 0 => spent'[n] >= touched'[n] + THRESHOLD
        BY <2>1, <2>2, ExtendedRecord DEF ZkInv
    <2>4. /\ spent' \in [Nullifiers -> Nat] /\ ledger' = ledger /\ accepts' = accepts
          /\ committed' = committed
        BY <1>3, <2>1, <2>3 DEF AreNullifiersUsed
    <2>. QED BY <2>2, <2>3, <2>4 DEF ZkInv
<1>4. ASSUME NEW c \in Commitments, IsCommitmentVerified(c) PROVE ZkInv'
    <2>. DEFINE y == IF committed[c] = 0 THEN 0 ELSE Extended(committed[c])
    <2>1. y \in Nat /\ (y # 0 => y >= ledger + THRESHOLD)
        BY <1>0, <1>4, ExtendedRecord DEF ZkInv
    <2>2. /\ committed' = [committed EXCEPT ![c] = y] /\ touched' = [touched EXCEPT ![c] = ledger]
          /\ UNCHANGED <<ledger, spent, accepts>>
        BY <1>4 DEF IsCommitmentVerified
    <2>. HIDE DEF y
    <2>3. /\ \A m \in Nullifiers : touched'[m] = touched[m]
          /\ \A d \in Commitments : touched'[d] = IF d = c THEN ledger ELSE touched[d]
          /\ touched' \in [ZkEntries -> Nat]
        BY <1>0, <2>2 DEF ZkInv
    <2>. QED BY <1>0, <2>1, <2>2, <2>3 DEF ZkInv
<1>5. ASSUME NEW u \in Attestations, SasVerdict(u) PROVE ZkInv'
    BY <1>5 DEF SasVerdict, ZkInv
<1>6. ASSUME NEW x \in ZkEntries, RestoreFootprint(x) PROVE ZkInv'
    <2>1. /\ \A n \in Nullifiers : spent'[n] = IF n = x THEN Restored(spent[n]) ELSE spent[n]
          /\ \A c \in Commitments :
               committed'[c] = IF c = x THEN Restored(committed[c]) ELSE committed[c]
          /\ UNCHANGED <<ledger, accepts, touched>>
        BY <1>6 DEF RestoreFootprint
    <2>2. \A n \in Nullifiers :
            spent'[n] \in Nat /\ (spent'[n] = 0 <=> spent[n] = 0) /\ spent'[n] >= spent[n]
        BY <1>0, <2>1, RestoredRecord DEF ZkInv
    <2>3. \A c \in Commitments :
            committed'[c] \in Nat /\ (committed'[c] = 0 <=> committed[c] = 0) /\ committed'[c] >= committed[c]
        BY <1>0, <2>1, RestoredRecord DEF ZkInv
    <2>4. spent' \in [Nullifiers -> Nat] /\ committed' \in [Commitments -> Nat]
        BY <1>6, <2>1, <2>2, <2>3 DEF RestoreFootprint
    <2>5. /\ \A n \in Nullifiers : spent'[n] # 0 => spent'[n] >= touched[n] + THRESHOLD
          /\ \A c \in Commitments : committed'[c] # 0 => committed'[c] >= touched[c] + THRESHOLD
        BY <1>0, <2>2, <2>3 DEF ZkInv
    <2>. QED BY <2>1, <2>2, <2>4, <2>5 DEF ZkInv
<1>7. CASE ZkTick
    BY <1>7 DEF ZkTick, ZkInv
<1>8. CASE UNCHANGED zkAllVars
    BY <1>8 DEF zkAllVars, ZkInv
<1>. QED
    BY <1>1, <1>2, <1>3, <1>4, <1>5, <1>6, <1>7, <1>8 DEF ZkNext

(* For any number of ledgers, any lifetimes and any archiving and          *)
(* restoring in between, a nullifier is accepted at most once, and no      *)
(* record is archived within THRESHOLD ledgers of the last call for it     *)
(* (consume_nullifier, extend_nullifier_ttl, are_nullifiers_used,          *)
(* is_commitment_verified).                                                *)
THEOREM NullifiersStayKept == ZkSpec => []NullifiersKept
<1>1. ZkInv => NullifiersKept
    <2>. SUFFICES ASSUME ZkInv, NEW x \in ZkEntries, Until(x) # 0
                  PROVE  Until(x) >= touched[x] + THRESHOLD
        BY DEF ZkInv, NullifiersKept
    <2>1. CASE x \in Nullifiers
        BY <2>1 DEF Until, ZkInv
    <2>2. CASE x \notin Nullifiers
        BY <2>2 DEF Until, ZkInv, ZkEntries
    <2>. QED BY <2>1, <2>2
<1>. QED BY <1>1, ZkInitInv, ZkNextInv, PTL DEF ZkSpec

------------------------------------------------------------------------------
(* The cross-chain verifier.                                               *)

MessageRec ==
    [uid : RemoteUIDs, from : Sources, revision : Nat, valid : BOOLEAN,
     valid_until : Nat, proof : Proofs \cup {Absent}]

Got(u) == {m \in accepted : m.uid = u}

RemoteTypeOK ==
    /\ clock \in Nat
    /\ sent \subseteq MessageRec
    /\ accepted \subseteq sent
    /\ status \in [RemoteUIDs -> StatusRec \cup {Absent}]
    /\ proof \in [RemoteUIDs -> Proofs \cup {Absent}]

(* Status and proof of u are those of the newest message accepted about u, *)
(* and a verdict is stored with no more validity than the contract grants. *)
Current(u) ==
    /\ status[u] = Absent <=> Got(u) = {}
    /\ Got(u) # {} => \E m \in Got(u) : m.revision = status[u].revision /\ m.proof = proof[u]
    /\ \A m \in Got(u) : m.revision <= status[u].revision
    /\ status[u] # Absent /\ status[u].valid =>
         status[u].valid_until <= status[u].at + MAX_VALIDITY_SECONDS

RemoteInv == RemoteTypeOK /\ \A u \in RemoteUIDs : Current(u)

(* The bridge starts with nothing recorded. *)
LEMMA RemoteInitInv == RemoteInit => RemoteInv
    BY DEF RemoteInit, RemoteInv, RemoteTypeOK, Current, Got

(* Nothing changes for a UID whose entries and messages stay. *)
LEMMA CurrentUnchanged ==
    ASSUME NEW u, status'[u] = status[u], proof'[u] = proof[u], Got(u)' = Got(u), Current(u)
    PROVE  Current(u)'
    BY DEF Current

(* Recording a newer message makes it the current one. *)
LEMMA RecordInv ==
    ASSUME RemoteInv, NEW m \in sent, Validity(m), Newer(m), Record(m),
           clock' = clock, sent' = sent
    PROVE  RemoteInv'
<1>. DEFINE st == [revision |-> m.revision, valid |-> m.valid,
                   valid_until |-> m.valid_until, at |-> clock]
<1>1. m \in MessageRec
    BY DEF RemoteInv, RemoteTypeOK
<1>2. /\ m.uid \in RemoteUIDs /\ m.revision \in Nat /\ m.valid \in BOOLEAN
      /\ m.valid_until \in Nat /\ m.proof \in Proofs \cup {Absent} /\ clock \in Nat
    BY <1>1 DEF MessageRec, RemoteInv, RemoteTypeOK
<1>3. st \in StatusRec /\ st # Absent
    BY <1>2, RemoteAssumption DEF StatusRec
<1>4. /\ st.revision = m.revision /\ st.valid = m.valid
      /\ st.valid_until = m.valid_until /\ st.at = clock
    OBVIOUS
<1>5. /\ status' = [status EXCEPT ![m.uid] = st]
      /\ proof' = [proof EXCEPT ![m.uid] = m.proof]
      /\ accepted' = accepted \cup {m}
    BY DEF Record
<1>. HIDE DEF st
<1>6. RemoteTypeOK'
    BY <1>2, <1>3, <1>5 DEF RemoteInv, RemoteTypeOK
<1>7. Current(m.uid)'
    <2>1. status'[m.uid] = st /\ proof'[m.uid] = m.proof
        BY <1>2, <1>5 DEF RemoteInv, RemoteTypeOK
    <2>2. Got(m.uid)' = Got(m.uid) \cup {m}
        BY <1>5 DEF Got
    <2>3. \A x \in Got(m.uid) : x.revision <= m.revision
        <3>. SUFFICES ASSUME NEW x \in Got(m.uid) PROVE x.revision <= m.revision
            OBVIOUS
        <3>1. status[m.uid] # Absent /\ x.revision <= status[m.uid].revision
            BY <1>2 DEF RemoteInv, Current
        <3>2. status[m.uid] \in StatusRec
            BY <1>2, <3>1 DEF RemoteInv, RemoteTypeOK
        <3>3. status[m.uid].revision \in Nat
            BY <3>2 DEF StatusRec
        <3>4. x.revision \in Nat
            BY DEF Got, RemoteInv, RemoteTypeOK, MessageRec
        <3>. QED BY <3>1, <3>3, <3>4, <1>2 DEF Newer
    <2>4. m.valid => m.valid_until <= clock + MAX_VALIDITY_SECONDS
        BY DEF Validity
    <2>5. m.revision <= m.revision
        BY <1>2
    <2>. QED BY <1>3, <1>4, <2>1, <2>2, <2>3, <2>4, <2>5 DEF Current
<1>8. ASSUME NEW u \in RemoteUIDs, u # m.uid PROVE Current(u)'
    <2>1. status'[u] = status[u] /\ proof'[u] = proof[u]
        BY <1>2, <1>5, <1>8 DEF RemoteInv, RemoteTypeOK
    <2>2. Got(u)' = Got(u)
        BY <1>5, <1>8 DEF Got
    <2>. QED BY <2>1, <2>2, CurrentUnchanged DEF RemoteInv
<1>. QED BY <1>6, <1>7, <1>8 DEF RemoteInv

(* Every step of the bridge keeps its invariant. *)
LEMMA RemoteNextInv == RemoteInv /\ [RemoteNext]_remoteVars => RemoteInv'
<1>. SUFFICES ASSUME RemoteInv, [RemoteNext]_remoteVars PROVE RemoteInv'
    OBVIOUS
<1>1. ASSUME UNCHANGED <<status, proof, accepted>>, RemoteTypeOK' PROVE RemoteInv'
    BY <1>1 DEF RemoteInv, Current, Got
<1>2. ASSUME NEW a \in Accounts, NEW s \in Sources, RemoteVerifierInit(a, s) PROVE RemoteInv'
    BY <1>1, <1>2 DEF RemoteVerifierInit, RemoteInv, RemoteTypeOK
<1>3. ASSUME NEW a \in Accounts, NEW s \in Sources, SetLzConfig(a, s) PROVE RemoteInv'
    BY <1>1, <1>3 DEF SetLzConfig, RemoteInv, RemoteTypeOK
<1>4. CASE SendStep
    <2>1. PICK u \in RemoteUIDs, s \in Sources, r \in 1..MaxSent, v \in BOOLEAN,
               d \in 1..(MAX_VALIDITY_SECONDS + 1), p \in Proofs \cup {Absent} :
            Send(Decoded(u, s, r, v, IF v THEN clock + d ELSE 0, p))
        BY <1>4 DEF SendStep
    <2>2. (IF v THEN clock + d ELSE 0) \in Nat /\ r \in Nat
        BY RemoteAssumption DEF RemoteInv, RemoteTypeOK
    <2>3. Decoded(u, s, r, v, IF v THEN clock + d ELSE 0, p) \in MessageRec
        BY <2>2 DEF Decoded, MessageRec
    <2>4. /\ sent' = sent \cup {Decoded(u, s, r, v, IF v THEN clock + d ELSE 0, p)}
          /\ UNCHANGED <<clock, status, proof, accepted>>
        BY <2>1 DEF Send
    <2>5. RemoteTypeOK'
        BY <2>3, <2>4 DEF RemoteInv, RemoteTypeOK
    <2>. QED BY <1>1, <2>4, <2>5
<1>5. ASSUME NEW m \in sent, Approve(m) PROVE RemoteInv'
    BY <1>1, <1>5 DEF Approve, RemoteInv, RemoteTypeOK
<1>6. ASSUME NEW m \in sent, Execute(m) PROVE RemoteInv'
    BY <1>6, RecordInv DEF Execute
<1>7. ASSUME NEW m \in sent, LzReceive(m) PROVE RemoteInv'
    BY <1>7, RecordInv DEF LzReceive
<1>8. CASE RemoteTick
    BY <1>1, <1>8 DEF RemoteTick, RemoteInv, RemoteTypeOK
<1>9. CASE UNCHANGED remoteVars
    BY <1>1, <1>9 DEF remoteVars, RemoteInv, RemoteTypeOK
<1>. QED
    BY <1>2, <1>3, <1>4, <1>5, <1>6, <1>7, <1>8, <1>9 DEF RemoteNext

(* Whatever messages are sent, lost, repeated or reordered between the two *)
(* transports, consumers read the verdict and the proof of the newest      *)
(* message that arrived, and a positive answer of verify_remote is no      *)
(* older than MAX_VALIDITY_SECONDS (execute, lz_receive, verify_remote).   *)
THEOREM RemoteVerdictsCurrent == RemoteSpec => []RemoteVerdictCurrent
<1>1. RemoteInv => RemoteVerdictCurrent
    <2>. SUFFICES ASSUME RemoteInv, NEW u \in RemoteUIDs
                  PROVE  /\ status[u] = Absent <=> Got(u) = {}
                         /\ Got(u) # {} => \E m \in Got(u) :
                               m.revision = status[u].revision /\ m.proof = proof[u]
                         /\ \A m \in Got(u) : m.revision <= status[u].revision
                         /\ VerifyRemote(u) => clock < status[u].at + MAX_VALIDITY_SECONDS
        BY DEF RemoteVerdictCurrent, Got
    <2>1. Current(u)
        BY DEF RemoteInv
    <2>2. ASSUME VerifyRemote(u) PROVE clock < status[u].at + MAX_VALIDITY_SECONDS
        <3>1. status[u] \in StatusRec
            BY <2>2 DEF VerifyRemote, RemoteInv, RemoteTypeOK
        <3>2. status[u].at \in Nat /\ status[u].valid_until \in Nat
            BY <3>1 DEF StatusRec
        <3>3. status[u].valid_until <= status[u].at + MAX_VALIDITY_SECONDS
            BY <2>1, <2>2 DEF Current, VerifyRemote
        <3>4. status[u].valid_until > clock /\ clock \in Nat
            BY <2>2 DEF VerifyRemote, RemoteInv, RemoteTypeOK
        <3>. QED BY <3>2, <3>3, <3>4, RemoteAssumption
    <2>. QED BY <2>1, <2>2 DEF Current
<1>. QED BY <1>1, RemoteInitInv, RemoteNextInv, PTL DEF RemoteSpec

------------------------------------------------------------------------------
(* The resolvers.                                                          *)

IssueRec == [attester : Users, recipient : Users, at : 0..MaxNow, wait : Nat]
GateRec == [admin : Users, token : Tokens, min : Nat, fee : Nat, disposal : Disposals]

ResolverTypeOK ==
    /\ time \in 0..MaxNow
    /\ window # NoOne => window \in [admin : Users, period : Nat]
    /\ gate # NoOne => gate \in GateRec /\ FeeConfig(gate.fee, gate.disposal)
    /\ last \in [Users -> (0..MaxNow) \cup {NoOne}]
    /\ held \in [Tokens -> [Users -> Int]]
    /\ burned \in [Tokens -> Int]
    /\ issued \in Seq(IssueRec)
    /\ fees \in [due : Nat, taken : Nat]

(* last is the time of the recipient's last issuance. *)
LastIssued ==
    \A r \in Users :
        \/ /\ last[r] = NoOne
           /\ \A i \in 1..Len(issued) : issued[i].recipient # r
        \/ \E i \in 1..Len(issued) :
             /\ issued[i].recipient = r /\ issued[i].at = last[r]
             /\ \A k \in (i + 1)..Len(issued) : issued[k].recipient # r

(* Consecutive issuances to one recipient are apart. *)
Apart ==
    \A i, j \in 1..Len(issued) :
      /\ i < j /\ issued[i].recipient = issued[j].recipient
      /\ \A k \in (i + 1)..(j - 1) : issued[k].recipient # issued[j].recipient
      => issued[j].wait = 0 \/ issued[j].at - issued[i].at >= issued[j].wait

CooldownInv ==
    /\ Apart
    /\ kind = "window" => LastIssued
    /\ kind # "window" => \A i \in 1..Len(issued) : issued[i].wait = 0

GateInv ==
    /\ fees.taken = fees.due
    /\ \A t \in Tokens : burned[t] + SumFunctionOnSet(held[t], Users) = Supply * Cardinality(Users)

GuardInv == kind = "blacklist" /\ Len(issued) > 0 => guard # NoOne

ResolverInv == ResolverTypeOK /\ CooldownInv /\ GateInv /\ GuardInv

(* A fresh resolver obeys its rules. *)
LEMMA ResolverInitInv == ResolverInit => ResolverInv
<1>. SUFFICES ASSUME ResolverInit PROVE ResolverInv
    OBVIOUS
<1>1. ResolverTypeOK
    BY ResolverAssumption DEF ResolverInit, ResolverTypeOK
<1>2. CooldownInv /\ GuardInv
    BY DEF ResolverInit, CooldownInv, LastIssued, Apart, GuardInv
<1>3. ASSUME NEW t \in Tokens
      PROVE  burned[t] + SumFunctionOnSet(held[t], Users) = Supply * Cardinality(Users)
    <2>. DEFINE f == held[t]
    <2>1. /\ \A a \in Users : f[a] = IF a \in Users THEN Supply ELSE 0
          /\ Users \in SUBSET Users /\ Supply \in Nat /\ IsFiniteSet(Users) /\ burned[t] = 0
        BY ResolverAssumption DEF ResolverInit
    <2>. HIDE DEF f
    <2>2. SumFunctionOnSet(f, Users) = Supply * Cardinality(Users)
        BY ONLY <2>1, SumIndicator
    <2>3. Supply * Cardinality(Users) \in Nat
        <3>1. Cardinality(Users) \in Nat
            BY <2>1, FS_CardinalityType
        <3>. QED BY <2>1, <3>1
    <2>. QED BY <2>1, <2>2, <2>3 DEF f
<1>4. GateInv
    BY <1>3 DEF ResolverInit, GateInv
<1>. QED BY <1>1, <1>2, <1>4 DEF ResolverInv

(* A step that neither issues nor moves tokens. *)
LEMMA ResolverFrame ==
    ASSUME ResolverInv, ResolverTypeOK',
           UNCHANGED <<kind, last, held, burned, issued, fees>>,
           guard # NoOne => guard' # NoOne
    PROVE  ResolverInv'
<1>1. CooldownInv'
    BY DEF ResolverInv, CooldownInv, LastIssued, Apart
<1>2. GateInv'
    BY DEF ResolverInv, GateInv
<1>3. GuardInv'
    BY DEF ResolverInv, GuardInv
<1>. QED BY <1>1, <1>2, <1>3 DEF ResolverInv

(* What an issuance appends. *)
LEMMA IssuedAppend ==
    ASSUME ResolverInv, NEW attester \in Users, NEW recipient \in Users, NEW payload,
           OnAttest(attester, recipient, payload)
    PROVE  LET wait == IF kind = "window" THEN window.period ELSE 0
               n == Len(issued)
           IN  /\ wait \in Nat /\ n \in Nat /\ Len(issued') = n + 1
               /\ issued' \in Seq(IssueRec)
               /\ \A i \in 1..n : issued'[i] = issued[i]
               /\ issued'[n + 1].recipient = recipient /\ issued'[n + 1].at = time
               /\ issued'[n + 1].wait = wait
<1>. DEFINE wait == IF kind = "window" THEN window.period ELSE 0
            rec == [attester |-> attester, recipient |-> recipient, at |-> time, wait |-> wait]
<1>1. wait \in Nat
    BY DEF OnAttest, Accepts, ResolverInv, ResolverTypeOK
<1>2. issued' = Append(issued, rec)
    BY DEF OnAttest
<1>. HIDE DEF wait
<1>3. rec \in IssueRec
    BY <1>1, ResolverAssumption DEF IssueRec, ResolverInv, ResolverTypeOK
<1>4. rec.recipient = recipient /\ rec.at = time /\ rec.wait = wait
    OBVIOUS
<1>. HIDE DEF rec
<1>5. issued \in Seq(IssueRec)
    BY DEF ResolverInv, ResolverTypeOK
<1>6. /\ Len(issued) \in Nat /\ Len(issued') = Len(issued) + 1 /\ issued' \in Seq(IssueRec)
      /\ \A i \in 1..Len(issued) : issued'[i] = issued[i]
      /\ issued'[Len(issued) + 1] = rec
    BY <1>2, <1>3, <1>5
<1>. QED BY <1>1, <1>4, <1>6 DEF wait

(* The cooldown: the new issuance is compared with the recipient's last.   *)
LEMMA IssueCooldown ==
    ASSUME ResolverInv, NEW attester \in Users, NEW recipient \in Users, NEW payload,
           OnAttest(attester, recipient, payload)
    PROVE  CooldownInv'
<1>. DEFINE n == Len(issued)
            wait == IF kind = "window" THEN window.period ELSE 0
<1>1. /\ wait \in Nat /\ n \in Nat /\ Len(issued') = n + 1
      /\ \A i \in 1..n : issued'[i] = issued[i]
      /\ issued'[n + 1].recipient = recipient /\ issued'[n + 1].at = time
      /\ issued'[n + 1].wait = wait
    BY IssuedAppend
<1>2. kind' = kind /\ time \in Nat
    BY ResolverAssumption DEF OnAttest, ResolverInv, ResolverTypeOK
<1>3. \A i \in 1..n : issued[i].at \in 0..MaxNow
    <2>1. \A i \in 1..n : issued[i] \in IssueRec
        BY DEF ResolverInv, ResolverTypeOK
    <2>. QED BY <2>1 DEF IssueRec
<1>4. ASSUME kind = "window", NEW i \in 1..n, issued[i].recipient = recipient,
             \A k \in (i + 1)..n : issued[k].recipient # recipient
      PROVE  wait = 0 \/ time - issued[i].at >= wait
    <2>1. LastIssued
        BY <1>4 DEF ResolverInv, CooldownInv
    <2>2. PICK j \in 1..n : /\ issued[j].recipient = recipient /\ issued[j].at = last[recipient]
                            /\ \A k \in (j + 1)..n : issued[k].recipient # recipient
        BY <1>4, <2>1 DEF LastIssued
    <2>3. i = j
        BY <1>1, <1>4, <2>2
    <2>4. last[recipient] \in 0..MaxNow /\ last[recipient] # NoOne
        BY <1>3, <2>2, ResolverAssumption
    <2>5. CooldownOver(recipient)
        BY <1>4 DEF OnAttest, Accepts
    <2>6. wait = window.period
        BY <1>4
    <2>7. time < MAX_U64 /\ MAX_U64 \in Nat
        BY <1>2, ResolverAssumption DEF ResolverInv, ResolverTypeOK
    <2>8. wait # 0 => time >= SaturatingAdd(last[recipient], wait)
        BY <2>4, <2>5, <2>6 DEF CooldownOver
    <2>. HIDE DEF wait
    <2>9. last[recipient] \in Nat
        BY <2>4
    <2>. QED BY <1>1, <1>2, <2>2, <2>3, <2>7, <2>8, <2>9 DEF SaturatingAdd
<1>5. Apart'
    <2>. SUFFICES ASSUME NEW i \in 1..(n + 1), NEW j \in 1..(n + 1), i < j,
                         issued'[i].recipient = issued'[j].recipient,
                         \A k \in (i + 1)..(j - 1) : issued'[k].recipient # issued'[j].recipient
                  PROVE  issued'[j].wait = 0 \/ issued'[j].at - issued'[i].at >= issued'[j].wait
        BY <1>1 DEF Apart
    <2>0. i \in 1..n
        BY <1>1
    <2>1. CASE j \in 1..n
        <3>1. \A k \in (i + 1)..(j - 1) : k \in 1..n
            BY <1>1, <2>0, <2>1
        <3>2. Apart
            BY DEF ResolverInv, CooldownInv
        <3>3. issued'[i] = issued[i] /\ issued'[j] = issued[j]
            BY <1>1, <2>0, <2>1
        <3>4. \A k \in (i + 1)..(j - 1) : issued[k].recipient # issued[j].recipient
            BY <1>1, <3>1, <3>3
        <3>. QED BY <2>0, <2>1, <3>2, <3>3, <3>4 DEF Apart
    <2>2. CASE j = n + 1
        <3>1. CASE kind = "window"
            <4>1. \A k \in (i + 1)..n : issued[k].recipient # recipient
                <5>. SUFFICES ASSUME NEW k \in (i + 1)..n PROVE issued[k].recipient # recipient
                    OBVIOUS
                <5>1. k \in (i + 1)..(j - 1) /\ k \in 1..n
                    BY <1>1, <2>0, <2>2
                <5>. QED BY <1>1, <2>2, <5>1
            <4>2. issued[i].recipient = recipient /\ issued'[i] = issued[i]
                BY <1>1, <2>0, <2>2
            <4>. QED BY <1>1, <1>4, <2>0, <2>2, <3>1, <4>1, <4>2
        <3>2. CASE kind # "window"
            BY <1>1, <2>2, <3>2
        <3>. QED BY <3>1, <3>2
    <2>. QED BY <1>1, <2>1, <2>2
<1>6. ASSUME kind = "window" PROVE LastIssued'
    <2>1. last' = [last EXCEPT ![recipient] = time] /\ last \in [Users -> (0..MaxNow) \cup {NoOne}]
        BY <1>6 DEF OnAttest, ResolverInv, ResolverTypeOK
    <2>. SUFFICES ASSUME NEW r \in Users
                  PROVE  \/ /\ last'[r] = NoOne
                            /\ \A i \in 1..(n + 1) : issued'[i].recipient # r
                         \/ \E i \in 1..(n + 1) :
                              /\ issued'[i].recipient = r /\ issued'[i].at = last'[r]
                              /\ \A k \in (i + 1)..(n + 1) : issued'[k].recipient # r
        BY <1>1 DEF LastIssued
    <2>2. CASE r = recipient
        <3>1. last'[r] = time /\ n + 1 \in 1..(n + 1)
            BY <1>1, <2>1, <2>2
        <3>2. \A k \in ((n + 1) + 1)..(n + 1) : issued'[k].recipient # r
            BY <1>1
        <3>. QED BY <1>1, <2>2, <3>1, <3>2
    <2>3. CASE r # recipient
        <3>1. last'[r] = last[r]
            BY <2>1, <2>3
        <3>2. CASE last[r] = NoOne /\ \A i \in 1..n : issued[i].recipient # r
            BY <1>1, <2>3, <3>1, <3>2
        <3>3. CASE \E i \in 1..n : /\ issued[i].recipient = r /\ issued[i].at = last[r]
                                   /\ \A k \in (i + 1)..n : issued[k].recipient # r
            <4>1. PICK i \in 1..n : /\ issued[i].recipient = r /\ issued[i].at = last[r]
                                    /\ \A k \in (i + 1)..n : issued[k].recipient # r
                BY <3>3
            <4>2. i \in 1..(n + 1) /\ issued'[i].recipient = r /\ issued'[i].at = last'[r]
                BY <1>1, <3>1, <4>1
            <4>3. ASSUME NEW k \in (i + 1)..(n + 1) PROVE issued'[k].recipient # r
                <5>1. k = n + 1 \/ (k \in (i + 1)..n /\ k \in 1..n)
                    BY <1>1, <4>1
                <5>. QED BY <1>1, <2>3, <4>1, <5>1
            <4>. QED BY <4>2, <4>3
        <3>. QED BY <1>6, <3>2, <3>3 DEF ResolverInv, CooldownInv, LastIssued
    <2>. QED BY <2>2, <2>3
<1>7. ASSUME kind # "window" PROVE \A i \in 1..(n + 1) : issued'[i].wait = 0
    BY <1>1, <1>7 DEF ResolverInv, CooldownInv
<1>. QED BY <1>1, <1>2, <1>5, <1>6, <1>7 DEF CooldownInv

Units(f) == SumFunctionOnSet(f, Users)

(* Changing one balance by d changes the units the accounts hold by d. *)
LEMMA UnitsChange ==
    ASSUME NEW f \in [Users -> Int], NEW a \in Users, NEW d \in Int
    PROVE  /\ [f EXCEPT ![a] = @ + d] \in [Users -> Int] /\ Units(f) \in Int
           /\ Units([f EXCEPT ![a] = @ + d]) = Units(f) + d
<1>. DEFINE h == [f EXCEPT ![a] = @ + d]
<1>1. h \in [Users -> Int] /\ \A x \in Users : f[x] \in Int
    OBVIOUS
<1>2. h[a] = f[a] + d /\ \A x \in Users \ {a} : h[x] = f[x]
    OBVIOUS
<1>. HIDE DEF h
<1>3. IsFiniteSet(Users) /\ a \in Users /\ d \in Int
    BY ResolverAssumption
<1>4. Units(h) = Units(f) + d
    BY ONLY <1>1, <1>2, <1>3, SumChange DEF Units
<1>5. Units(f) \in Int
    BY ONLY <1>1, <1>3, SumType DEF Units
<1>. QED BY <1>1, <1>4, <1>5 DEF h

(* New balances of one token, with as many units burned as they lack. *)
LEMMA UnitsKept ==
    ASSUME ResolverInv, NEW t \in Tokens, NEW row \in [Users -> Int], NEW b \in Int,
           held' = [held EXCEPT ![t] = row], burned' = [burned EXCEPT ![t] = @ + b],
           Units(row) + b = Units(held[t]), Units(row) \in Int
    PROVE  /\ held' \in [Tokens -> [Users -> Int]] /\ burned' \in [Tokens -> Int]
           /\ \A x \in Tokens : burned'[x] + Units(held'[x]) = Supply * Cardinality(Users)
<1>1. held \in [Tokens -> [Users -> Int]] /\ burned \in [Tokens -> Int]
    BY DEF ResolverInv, ResolverTypeOK
<1>2. \A x \in Tokens : burned[x] + Units(held[x]) = Supply * Cardinality(Users)
    BY DEF ResolverInv, GateInv, Units
<1>3. ASSUME NEW x \in Tokens PROVE burned'[x] + Units(held'[x]) = burned[x] + Units(held[x])
    <2>1. CASE x = t
        <3>1. burned'[x] = burned[t] + b /\ held'[x] = row /\ burned[t] \in Int
            BY <1>1, <2>1
        <3>. QED BY <2>1, <3>1
    <2>2. CASE x # t
        BY <1>1, <2>2
    <2>. QED BY <2>1, <2>2
<1>4. held' \in [Tokens -> [Users -> Int]] /\ burned' \in [Tokens -> Int]
    BY <1>1
<1>. QED BY <1>2, <1>3, <1>4

(* The gate's fee: taken when due, and to the admin or burned. *)
LEMMA IssueGate ==
    ASSUME ResolverInv, NEW attester \in Users, NEW recipient \in Users, NEW payload,
           OnAttest(attester, recipient, payload)
    PROVE  /\ held' \in [Tokens -> [Users -> Int]] /\ burned' \in [Tokens -> Int]
           /\ fees' \in [due : Nat, taken : Nat]
           /\ GateInv'
<1>1. /\ held \in [Tokens -> [Users -> Int]] /\ burned \in [Tokens -> Int]
      /\ fees \in [due : Nat, taken : Nat] /\ fees.taken = fees.due
    BY DEF ResolverInv, ResolverTypeOK, GateInv
<1>2. CASE kind # "token"
    <2>1. held' = held /\ burned' = burned /\ fees' = fees
        BY <1>2 DEF OnAttest
    <2>. QED BY <1>1, <2>1 DEF ResolverInv, GateInv
<1>3. CASE kind = "token"
    <2>. DEFINE charged == gate.fee > 0 /\ gate.disposal # "None"
                tok == gate.token
                amt == gate.fee
    <2>1. /\ gate # NoOne
          /\ held' = IF charged THEN Paid(attester) ELSE held
          /\ burned' = IF charged /\ gate.disposal = "Burn"
                         THEN [burned EXCEPT ![tok] = @ + amt] ELSE burned
          /\ fees' = [due |-> fees.due + amt,
                      taken |-> IF charged THEN fees.taken + amt ELSE fees.taken]
        BY <1>3 DEF OnAttest, Accepts
    <2>2. gate \in GateRec /\ FeeConfig(amt, gate.disposal)
        BY <2>1 DEF ResolverInv, ResolverTypeOK
    <2>3. tok \in Tokens /\ amt \in Nat /\ gate.admin \in Users /\ gate.disposal \in Disposals
        BY <2>2 DEF GateRec
    <2>4. ~charged => amt = 0
        BY <2>2, <2>3 DEF FeeConfig
    <2>5. fees' \in [due : Nat, taken : Nat] /\ fees'.taken = fees'.due
        <3>1. CASE charged
            BY <1>1, <2>1, <2>3, <3>1
        <3>2. CASE ~charged
            BY <1>1, <2>1, <2>3, <2>4, <3>2
        <3>. QED BY <3>1, <3>2
    <2>6. /\ held' \in [Tokens -> [Users -> Int]] /\ burned' \in [Tokens -> Int]
          /\ \A x \in Tokens : burned'[x] + Units(held'[x]) = Supply * Cardinality(Users)
        <3>1. CASE ~charged
            BY <1>1, <2>1, <3>1 DEF ResolverInv, GateInv, Units
        <3>2. CASE charged
            <4>. DEFINE m == 0 - amt
                        row == [held[tok] EXCEPT ![attester] = @ + m]
                        paid == [row EXCEPT ![gate.admin] = @ + amt]
            <4>1. held[tok] \in [Users -> Int] /\ m \in Int /\ amt \in Int
                BY <1>1, <2>3
            <4>2. [held[tok] EXCEPT ![attester] = @ - amt] = row
                <5>1. held[tok][attester] - amt = held[tok][attester] + m
                    BY <2>3, <4>1
                <5>. QED BY <5>1
            <4>. HIDE DEF m
            <4>3. row \in [Users -> Int] /\ Units(row) = Units(held[tok]) + m
                  /\ Units(held[tok]) \in Int
                BY <4>1, UnitsChange
            <4>. HIDE DEF row
            <4>4. paid \in [Users -> Int] /\ Units(paid) = Units(row) + amt /\ Units(row) \in Int
                <5>1. row \in [Users -> Int] /\ gate.admin \in Users /\ amt \in Int
                    BY <2>3, <4>1, <4>3
                <5>. QED BY ONLY <5>1, UnitsChange
            <4>. HIDE DEF paid
            <4>5. [held EXCEPT ![tok][attester] = @ - amt] = [held EXCEPT ![tok] = row]
                BY <4>2
            <4>6. CASE gate.disposal = "Transfer"
                <5>1. held' = [held EXCEPT ![tok] = paid]
                    <6>1. [[held EXCEPT ![tok] = row] EXCEPT ![tok][gate.admin] = @ + amt]
                            = [held EXCEPT ![tok] = paid]
                        BY <1>1, <2>3 DEF paid
                    <6>. QED BY <2>1, <3>2, <4>5, <4>6, <6>1 DEF Paid
                <5>. DEFINE z == 0
                <5>2. burned' = [burned EXCEPT ![tok] = @ + z]
                    BY <1>1, <2>1, <2>3, <4>6
                <5>3. z \in Int /\ Units(paid) + z = Units(held[tok]) /\ Units(paid) \in Int
                    BY <4>1, <4>3, <4>4 DEF m
                <5>. HIDE DEF z
                <5>. QED BY <2>3, <4>4, <5>1, <5>2, <5>3, UnitsKept
            <4>7. CASE gate.disposal = "Burn"
                <5>1. held' = [held EXCEPT ![tok] = row]
                    BY <2>1, <3>2, <4>5, <4>7 DEF Paid
                <5>2. burned' = [burned EXCEPT ![tok] = @ + amt]
                    BY <2>1, <3>2, <4>7
                <5>3. amt \in Int /\ Units(row) + amt = Units(held[tok]) /\ Units(row) \in Int
                    BY <4>1, <4>3, <4>4 DEF m
                <5>. QED BY <2>3, <4>3, <5>1, <5>2, <5>3, UnitsKept
            <4>. QED BY <2>3, <3>2, <4>6, <4>7 DEF Disposals
        <3>. QED BY <3>1, <3>2
    <2>. QED BY <2>5, <2>6 DEF GateInv, Units
<1>. QED BY <1>2, <1>3

(* A transfer of the token (external). *)
LEMMA TransferGate ==
    ASSUME ResolverInv, NEW t \in Tokens, NEW a \in Users, NEW b \in Users, TokenTransfer(t, a, b)
    PROVE  /\ held' \in [Tokens -> [Users -> Int]] /\ burned' \in [Tokens -> Int] /\ GateInv'
<1>. DEFINE m == 0 - 1
            o == 1
            z == 0
            row == [held[t] EXCEPT ![a] = @ + m]
            paid == [row EXCEPT ![b] = @ + o]
<1>1. /\ held \in [Tokens -> [Users -> Int]] /\ burned \in [Tokens -> Int] /\ burned' = burned
      /\ fees' = fees /\ held' = [held EXCEPT ![t][a] = @ - 1, ![t][b] = @ + 1]
    BY DEF ResolverInv, ResolverTypeOK, TokenTransfer
<1>2. held[t] \in [Users -> Int] /\ m \in Int /\ o \in Int /\ z \in Int
    BY <1>1
<1>3. held' = [held EXCEPT ![t] = paid]
    <2>1. held[t][a] - 1 = held[t][a] + m
        BY <1>2
    <2>. QED BY <1>1, <2>1
<1>4. burned' = [burned EXCEPT ![t] = @ + z]
    BY <1>1
<1>. HIDE DEF m, o, z
<1>5. row \in [Users -> Int] /\ Units(row) = Units(held[t]) + m /\ Units(held[t]) \in Int
    BY <1>2, UnitsChange
<1>. HIDE DEF row
<1>6. paid \in [Users -> Int] /\ Units(paid) = Units(row) + o
    <2>1. row \in [Users -> Int] /\ b \in Users /\ o \in Int
        BY <1>2, <1>5
    <2>. QED BY ONLY <2>1, UnitsChange
<1>. HIDE DEF paid
<1>7. Units(paid) + z = Units(held[t]) /\ Units(paid) \in Int
    BY <1>5, <1>6 DEF m, o, z
<1>8. /\ held' \in [Tokens -> [Users -> Int]] /\ burned' \in [Tokens -> Int]
      /\ \A x \in Tokens : burned'[x] + Units(held'[x]) = Supply * Cardinality(Users)
    BY <1>2, <1>3, <1>4, <1>6, <1>7, UnitsKept
<1>. QED BY <1>1, <1>8 DEF ResolverInv, GateInv, Units

(* Configuration keeps what the issuances rely on. *)
LEMMA ConfigInv ==
    ASSUME ResolverInv, ConfigStep
    PROVE  ResolverInv'
<1>1. UNCHANGED <<kind, time, last, held, burned, issued, fees>>
    BY DEF ConfigStep, WindowInit, SetCooldownPeriodSeconds, GateInit, SetToken, SetAdmin,
           SetMinBalance, SetGateFee, GateChange, BlacklistInit, SetBlacklist, SetPolicy,
           SetThreshold, SetSigners, Configured
<1>2. guard' = guard \/ guard' \in Users
    BY DEF ConfigStep, WindowInit, SetCooldownPeriodSeconds, GateInit, SetToken, SetAdmin,
           SetMinBalance, SetGateFee, GateChange, BlacklistInit, SetBlacklist, SetPolicy,
           SetThreshold, SetSigners
<1>3. guard # NoOne => guard' # NoOne
    BY <1>2, ResolverAssumption
<1>4. window' # NoOne => window' \in [admin : Users, period : Nat]
    <2>1. CASE window' = window
        BY <2>1 DEF ResolverInv, ResolverTypeOK
    <2>2. ASSUME NEW a \in Users, NEW c \in Cooldowns, WindowInit(a, c)
          PROVE  window' \in [admin : Users, period : Nat]
        BY <2>2, ResolverAssumption DEF WindowInit
    <2>3. ASSUME NEW a \in Users, NEW c \in Cooldowns, SetCooldownPeriodSeconds(a, c)
          PROVE  window' \in [admin : Users, period : Nat]
        <3>1. /\ window \in [admin : Users, period : Nat]
              /\ window' = [window EXCEPT !.period = c] /\ c \in Nat
            BY <2>3, ResolverAssumption
               DEF SetCooldownPeriodSeconds, ResolverInv, ResolverTypeOK
        <3>. QED BY <3>1
    <2>4. \/ window' = window
          \/ \E a \in Users, c \in Cooldowns : WindowInit(a, c) \/ SetCooldownPeriodSeconds(a, c)
        BY DEF ConfigStep, GateInit, SetToken, SetAdmin, SetMinBalance, SetGateFee, GateChange,
               BlacklistInit, SetBlacklist, SetPolicy, SetThreshold, SetSigners
    <2>. QED BY <2>1, <2>2, <2>3, <2>4
<1>5. gate' # NoOne => gate' \in GateRec /\ FeeConfig(gate'.fee, gate'.disposal)
    <2>1. CASE gate' = gate
        BY <2>1 DEF ResolverInv, ResolverTypeOK
    <2>2. ASSUME NEW a \in Users, NEW t \in Tokens, NEW min \in Balances, NEW amt \in Fees,
                 NEW d \in Disposals, GateInit(a, t, min, amt, d)
          PROVE  gate' \in GateRec /\ FeeConfig(gate'.fee, gate'.disposal)
        BY <2>2, ResolverAssumption DEF GateInit, GateRec
    <2>3. ASSUME gate # NoOne PROVE gate \in GateRec /\ FeeConfig(gate.fee, gate.disposal)
        BY <2>3 DEF ResolverInv, ResolverTypeOK
    <2>4. ASSUME NEW t \in Tokens, SetToken(t)
          PROVE  gate' \in GateRec /\ FeeConfig(gate'.fee, gate'.disposal)
        <3>1. gate' = [gate EXCEPT !.token = t] /\ gate # NoOne
            BY <2>4 DEF SetToken, GateChange
        <3>. QED BY <2>3, <3>1 DEF GateRec
    <2>5. ASSUME NEW a \in Users, SetAdmin(a)
          PROVE  gate' \in GateRec /\ FeeConfig(gate'.fee, gate'.disposal)
        <3>1. gate' = [gate EXCEPT !.admin = a] /\ gate # NoOne
            BY <2>5 DEF SetAdmin, GateChange
        <3>. QED BY <2>3, <3>1 DEF GateRec
    <2>6. ASSUME NEW min \in Balances, SetMinBalance(min)
          PROVE  gate' \in GateRec /\ FeeConfig(gate'.fee, gate'.disposal)
        <3>1. gate' = [gate EXCEPT !.min = min] /\ gate # NoOne /\ min \in Nat
            BY <2>6, ResolverAssumption DEF SetMinBalance, GateChange
        <3>. QED BY <2>3, <3>1 DEF GateRec
    <2>7. ASSUME NEW amt \in Fees, NEW d \in Disposals, SetGateFee(amt, d)
          PROVE  gate' \in GateRec /\ FeeConfig(gate'.fee, gate'.disposal)
        <3>1. /\ gate' = [gate EXCEPT !.fee = amt, !.disposal = d] /\ gate # NoOne /\ amt \in Nat
              /\ FeeConfig(amt, d)
            BY <2>7, ResolverAssumption DEF SetGateFee, GateChange
        <3>. QED BY <2>3, <3>1 DEF GateRec
    <2>8. \/ gate' = gate
          \/ \E a \in Users, t \in Tokens, min \in Balances, amt \in Fees, d \in Disposals :
               GateInit(a, t, min, amt, d)
          \/ \E t \in Tokens : SetToken(t)
          \/ \E a \in Users : SetAdmin(a)
          \/ \E min \in Balances : SetMinBalance(min)
          \/ \E amt \in Fees, d \in Disposals : SetGateFee(amt, d)
        BY DEF ConfigStep, WindowInit, SetCooldownPeriodSeconds, BlacklistInit, SetBlacklist,
               SetPolicy, SetThreshold, SetSigners
    <2>. QED BY <2>1, <2>2, <2>4, <2>5, <2>6, <2>7, <2>8
<1>6. ResolverTypeOK'
    BY <1>1, <1>4, <1>5 DEF ResolverInv, ResolverTypeOK
<1>. QED BY <1>1, <1>3, <1>6, ResolverFrame

(* A hook that accepts an issuance keeps the rules of its kind. *)
LEMMA IssueInv ==
    ASSUME ResolverInv, NEW a \in Users, NEW r \in Users, NEW p, OnAttest(a, r, p)
    PROVE  ResolverInv'
<1>1. UNCHANGED <<kind, time, window, gate, guard>>
    BY DEF OnAttest, configVars
<1>2. /\ held' \in [Tokens -> [Users -> Int]] /\ burned' \in [Tokens -> Int]
      /\ fees' \in [due : Nat, taken : Nat] /\ GateInv'
    BY IssueGate
<1>3. issued' \in Seq(IssueRec)
    BY IssuedAppend
<1>4. last' \in [Users -> (0..MaxNow) \cup {NoOne}]
    BY DEF OnAttest, ResolverInv, ResolverTypeOK
<1>5. ResolverTypeOK'
    BY <1>1, <1>2, <1>3, <1>4 DEF ResolverInv, ResolverTypeOK
<1>6. GuardInv'
    BY <1>1 DEF OnAttest, Accepts, GuardInv
<1>. QED BY <1>2, <1>5, <1>6, IssueCooldown DEF ResolverInv

(* Every step of a resolver keeps the rules. *)
LEMMA ResolverNextInv == ResolverInv /\ [ResolverNext]_resolverVars => ResolverInv'
<1>. SUFFICES ASSUME ResolverInv, [ResolverNext]_resolverVars PROVE ResolverInv'
    OBVIOUS
<1>1. CASE ConfigStep
    BY <1>1, ConfigInv
<1>2. CASE IssueStep
    <2>1. PICK a \in Users, r \in Users : \E p : OnAttest(a, r, p)
        BY <1>2 DEF IssueStep
    <2>. QED BY <2>1, IssueInv
<1>3. CASE ResolverTick
    <2>1. /\ time' = time + 1 /\ time < MaxNow
          /\ UNCHANGED <<kind, last, held, burned, window, gate, guard, issued, fees>>
        BY <1>3 DEF ResolverTick, configVars
    <2>2. ResolverTypeOK'
        BY <2>1, ResolverAssumption DEF ResolverInv, ResolverTypeOK
    <2>. QED BY <2>1, <2>2, ResolverFrame
<1>4. ASSUME NEW t \in Tokens, NEW a \in Users, NEW b \in Users, TokenTransfer(t, a, b)
      PROVE  ResolverInv'
    <2>1. held' \in [Tokens -> [Users -> Int]] /\ burned' \in [Tokens -> Int] /\ GateInv'
        BY <1>4, TransferGate
    <2>2. UNCHANGED <<kind, time, last, window, gate, guard, issued, fees>>
        BY <1>4 DEF TokenTransfer, configVars
    <2>3. ResolverTypeOK'
        BY <2>1, <2>2 DEF ResolverInv, ResolverTypeOK
    <2>4. CooldownInv' /\ GuardInv'
        BY <2>2 DEF ResolverInv, CooldownInv, LastIssued, Apart, GuardInv
    <2>. QED BY <2>1, <2>3, <2>4 DEF ResolverInv
<1>5. CASE UNCHANGED resolverVars
    <2>1. UNCHANGED <<kind, time, last, held, burned, window, gate, guard, issued, fees>>
        BY <1>5 DEF resolverVars
    <2>2. ResolverTypeOK'
        BY <2>1 DEF ResolverInv, ResolverTypeOK
    <2>. QED BY <2>1, <2>2, ResolverFrame
<1>. QED BY <1>1, <1>2, <1>3, <1>4, <1>5 DEF ResolverNext

(* The rules of the resolvers for any accounts, cooldowns, fees and        *)
(* number of issuances, provided ledger timestamps stay below the largest  *)
(* 64-bit value: consecutive issuances to a recipient are a cooldown       *)
(* apart, every fee due is taken and no unit of the token is made or lost, *)
(* and a revocation is accepted (on_attest and on_revoke).                 *)
THEOREM ResolverRules == ResolverSpec => []ResolverRulesHold
<1>1. ResolverInv => ResolverRulesHold
    <2>. SUFFICES ASSUME ResolverInv PROVE ResolverRulesHold
        OBVIOUS
    <2>1. DOMAIN issued = 1..Len(issued)
        BY DEF ResolverInv, ResolverTypeOK
    <2>2. Apart
        BY DEF ResolverInv, CooldownInv
    <2>3. /\ fees.taken = fees.due
          /\ \A t \in Tokens :
               burned[t] + SumFunctionOnSet(held[t], Users) = Supply * Cardinality(Users)
        BY DEF ResolverInv, GateInv
    <2>4. \A i \in DOMAIN issued : RevokeAccepted(issued[i].attester, issued[i].recipient)
        <3>1. \A i \in 1..Len(issued) : Len(issued) > 0
            BY DEF ResolverInv, ResolverTypeOK
        <3>. QED BY <2>1, <3>1 DEF ResolverInv, GuardInv, RevokeAccepted
    <2>5. \A i, j \in DOMAIN issued :
            /\ i < j /\ issued[i].recipient = issued[j].recipient
            /\ \A k \in (i + 1)..(j - 1) : issued[k].recipient # issued[j].recipient
            => issued[j].wait = 0 \/ issued[j].at - issued[i].at >= issued[j].wait
        BY <2>1, <2>2 DEF Apart
    <2>. QED BY <2>3, <2>4, <2>5 DEF ResolverRulesHold
<1>. QED BY <1>1, ResolverInitInv, ResolverNextInv, PTL DEF ResolverSpec

------------------------------------------------------------------------------
(* The schema registry.  The stored list of delegates is shown to list the *)
(* authorized ones, each once.                                             *)

(* q lists the members of S, each of them once. *)
ListOf(q, S) ==
    /\ q \in Seq(Addrs)
    /\ \A i, j \in 1..Len(q) : q[i] = q[j] => i = j
    /\ S = {q[i] : i \in 1..Len(q)}

(* KeepIn keeps of a list of T the list of T \cap S. *)
LEMMA KeepInList ==
    ASSUME NEW q, NEW T, ListOf(q, T), NEW S
    PROVE  ListOf(KeepIn(q, S), T \cap S)
<1>. DEFINE P == {i \in 1..Len(q) : q[i] \in S}
            k == Kept(q, P)
            n == Cardinality(P)
            at == InOrder(P)
<1>1. q \in Seq(Addrs) /\ (\A i, j \in 1..Len(q) : q[i] = q[j] => i = j) /\ T = {q[i] : i \in 1..Len(q)}
    BY DEF ListOf
<1>2. P \in SUBSET (1..Len(q)) /\ KeepIn(q, S) = k
    BY DEF KeepIn
<1>3. \A x \in P : x \in 1..Len(q) /\ q[x] \in S
    OBVIOUS
<1>4. \A x \in 1..Len(q) : q[x] \in S => x \in P
    OBVIOUS
<1>. HIDE DEF P
<1>5. /\ n \in Nat /\ k \in Seq(Addrs) /\ Len(k) = n /\ at \in [1..n -> P]
      /\ \A i \in 1..n : k[i] = q[at[i]]
      /\ \A i, j \in 1..n : i < j => at[i] < at[j]
    BY <1>1, <1>2, KeptLists
<1>6. \A x \in P : \E i \in 1..n : at[i] = x
    <2>1. P \in SUBSET Nat /\ IsFiniteSet(P)
        <3>1. Len(q) \in Nat
            BY <1>1
        <3>2. IsFiniteSet(1..Len(q))
            BY <3>1, UpToFinite
        <3>3. \A x \in 1..Len(q) : x \in Nat
            BY <3>1
        <3>. QED BY <1>2, <3>2, <3>3, FS_Subset
    <2>. QED BY <2>1, InOrderLists
<1>. HIDE DEF k, n, at
<1>7. \A i, j \in 1..n : at[i] = at[j] => i = j
    <2>1. \A i \in 1..n : at[i] \in 1..Len(q)
        BY <1>3, <1>5
    <2>2. \A i \in 1..n : at[i] \in Nat /\ i \in Nat
        BY <1>1, <1>5, <2>1
    <2>. QED BY <1>5, <2>2
<1>8. \A i, j \in 1..Len(k) : k[i] = k[j] => i = j
    BY <1>1, <1>3, <1>5, <1>7
<1>9. T \cap S = {k[i] : i \in 1..Len(k)}
    <2>1. \A i \in 1..Len(k) : at[i] \in 1..Len(q) /\ k[i] = q[at[i]] /\ k[i] \in S
        BY <1>3, <1>5
    <2>2. ASSUME NEW y \in T \cap S PROVE \E i \in 1..Len(k) : y = k[i]
        <3>1. PICK x \in 1..Len(q) : q[x] = y
            BY <1>1
        <3>2. x \in P
            BY <1>4, <3>1
        <3>. QED BY <1>5, <1>6, <3>1, <3>2
    <2>. QED BY <1>1, <2>1, <2>2
<1>. QED BY <1>2, <1>5, <1>8, <1>9 DEF ListOf

(* A list is as long as the set it lists. *)
LEMMA ListLength ==
    ASSUME NEW q, NEW S, ListOf(q, S)
    PROVE  IsFiniteSet(S) /\ Cardinality(S) = Len(q)
<1>1. q \in Bijection(1..Len(q), S)
    BY DEF ListOf, Bijection, Injection, Surjection, IsInjective
<1>2. Len(q) \in Nat
    BY DEF ListOf
<1>3. ExistsBijection(1..Len(q), S)
    BY <1>1 DEF ExistsBijection
<1>. QED BY <1>2, <1>3, FS_NatBijection, FS_CountingElements

RegistryTypeOK ==
    /\ groups.schemas \subseteq Schemas
    /\ schema \in [Schemas -> SchemaRecord \cup {None}]
    /\ pendingOwner \in [Schemas -> Addrs \cup {None}]
    /\ ownerSet \in [Schemas -> OwnerSet \cup {None}]
    /\ transfer \in [Schemas -> PendingOwnershipTransfer \cup {None}]
    /\ auth \in [Schemas -> SUBSET Addrs] /\ acl \in [Schemas -> SUBSET Addrs]
    /\ list \in [Schemas -> Seq(Addrs)] /\ aclCount \in [Schemas -> Nat]

(* The stored list of delegates lists the authorized ones, and the counter *)
(* counts the attesters.                                                   *)
RolesKept ==
    \A s \in Schemas : ListOf(list[s], auth[s]) /\ aclCount[s] = Cardinality(acl[s])

RegistryInv == RegistryTypeOK /\ TransfersFresh /\ RolesKept

(* What ViewsKeepFaith asks of a step, and the predecessor's link. *)
Faith ==
    \A s \in Schemas : Registered(s) =>
      /\ schema'[s] # None
      /\ schema'[s].policy = schema[s].policy
      /\ schema'[s].max_ttl = schema[s].max_ttl
      /\ schema'[s].parent = schema[s].parent
      /\ schema'[s].predecessor = schema[s].predecessor
      /\ s \in deprecated => s \in deprecated' /\ schema'[s].creator = schema[s].creator

(* The empty registry satisfies the invariant. *)
LEMMA RegistryInitInv == Init => RegistryInv
<1>. SUFFICES ASSUME Init PROVE RegistryInv
    OBVIOUS
<1>1. RegistryTypeOK
    BY RegistryAssumption DEF Init, RegistryTypeOK
<1>2. TransfersFresh
    BY DEF Init, TransfersFresh
<1>3. RolesKept
    <2>1. ListOf(<<>>, {})
        BY DEF ListOf
    <2>. QED BY <2>1, FS_EmptySet DEF Init, RolesKept
<1>. QED BY <1>1, <1>2, <1>3 DEF RegistryInv

(* Steps that leave a part alone keep what the invariant says of it. *)
LEMMA RolesFrame ==
    ASSUME RolesKept, UNCHANGED roleVars PROVE RolesKept'
BY DEF RolesKept, ListOf, roleVars

(* What leaves the owners alone leaves the proposals fresh. *)
LEMMA TransfersFrame ==
    ASSUME TransfersFresh, UNCHANGED ownerVars PROVE TransfersFresh'
BY DEF TransfersFresh, SetVersion, Threshold, ownerVars

(* What leaves roles, owners and groups alone keeps the invariant. *)
LEMMA RegistryFrame ==
    ASSUME RegistryInv, UNCHANGED <<roleVars, ownerVars, groups>>,
           schema' \in [Schemas -> SchemaRecord \cup {None}]
    PROVE  RegistryInv'
<1>1. RegistryTypeOK'
    BY DEF RegistryInv, RegistryTypeOK, roleVars, ownerVars
<1>. QED BY <1>1, RolesFrame, TransfersFrame DEF RegistryInv

(* What touches no schema keeps faith. *)
LEMMA FaithFrame ==
    ASSUME UNCHANGED schema, deprecated \subseteq deprecated' PROVE Faith
BY DEF Faith, Registered

(* One record is written, which keeps what SAS relies on. *)
LEMMA RecordWritten ==
    ASSUME RegistryTypeOK, NEW s \in Schemas, NEW r \in SchemaRecord,
           schema' = [schema EXCEPT ![s] = r], UNCHANGED deprecated,
           Registered(s) =>
             /\ r.policy = schema[s].policy /\ r.max_ttl = schema[s].max_ttl
             /\ r.parent = schema[s].parent /\ r.predecessor = schema[s].predecessor
             /\ s \in deprecated => r.creator = schema[s].creator
    PROVE  schema' \in [Schemas -> SchemaRecord \cup {None}] /\ Faith
<1>1. schema \in [Schemas -> SchemaRecord \cup {None}]
    BY DEF RegistryTypeOK
<1>2. schema' \in [Schemas -> SchemaRecord \cup {None}]
    BY <1>1
<1>3. schema'[s] = r /\ \A x \in Schemas : x # s => schema'[x] = schema[x]
    BY <1>1
<1>4. r # None
    BY AbsenceAssumption
<1>. QED BY <1>2, <1>3, <1>4 DEF Faith, Registered

(* A registration writes a schema record. *)
LEMMA NewRecordType ==
    ASSUME NEW owner \in Addrs, NEW s \in Schemas
    PROVE  NewRecord(owner, s) \in SchemaRecord
BY DEF NewRecord, SchemaRecord, DefaultPolicy, Policies, Kinds

(* register_internal writes a record that was not there. *)
LEMMA RegisterInternalInv ==
    ASSUME RegistryInv, NEW s \in Schemas, NEW r \in SchemaRecord,
           RegisterInternal(s, r), UNCHANGED groups
    PROVE  RegistryInv' /\ Faith
<1>1. RegistryTypeOK /\ ~Registered(s) /\ schema' = [schema EXCEPT ![s] = r]
      /\ UNCHANGED deprecated /\ UNCHANGED <<roleVars, ownerVars, groups>>
    BY DEF RegistryInv, RegisterInternal, Registrable, statusVars
<1>2. schema' \in [Schemas -> SchemaRecord \cup {None}] /\ Faith
    BY <1>1, RecordWritten
<1>. QED BY <1>1, <1>2, RegistryFrame

(* Registering keeps the invariant and faith. *)
LEMMA RegisterStepInv ==
    ASSUME RegistryInv, RegisterStep
    PROVE  RegistryInv' /\ Faith
<1>0. groups.schemas \subseteq Schemas /\ UNCHANGED groups
    BY DEF RegistryInv, RegistryTypeOK, RegisterStep, Uses
<1>. USE DEF Used
<1>1. ASSUME NEW o \in Addrs, NEW s \in Schemas, NEW ttl \in Nat, NEW p \in Schemas \cup {None},
             Register(o, s, ttl, p)
      PROVE  RegistryInv' /\ Faith
    <2>1. NewRecord(o, s) \in SchemaRecord
        BY NewRecordType
    <2>2. [NewRecord(o, s) EXCEPT !.max_ttl = ttl, !.parent = p] \in SchemaRecord
        BY <2>1 DEF SchemaRecord
    <2>. QED BY <1>0, <1>1, <2>2, RegisterInternalInv DEF Register
<1>2. ASSUME NEW o \in Addrs, NEW s \in Schemas, NEW uri \in Values \cup {None},
             RegisterSchema(o, s, uri)
      PROVE  RegistryInv' /\ Faith
    <2>1. NewRecord(o, s) \in SchemaRecord
        BY NewRecordType
    <2>2. [NewRecord(o, s) EXCEPT !.settings["metadata"] = uri] \in SchemaRecord
        BY <2>1 DEF SchemaRecord, Kinds
    <2>. QED BY <1>0, <1>2, <2>2, RegisterInternalInv DEF RegisterSchema
<1>3. ASSUME NEW o \in Addrs, NEW s \in Schemas, NEW p \in Policies, RegisterWithPolicy(o, s, p)
      PROVE  RegistryInv' /\ Faith
    <2>1. NewRecord(o, s) \in SchemaRecord
        BY NewRecordType
    <2>2. [NewRecord(o, s) EXCEPT !.policy = p] \in SchemaRecord
        BY <2>1 DEF SchemaRecord
    <2>. QED BY <1>0, <1>3, <2>2, RegisterInternalInv DEF RegisterWithPolicy
<1>4. ASSUME NEW o \in Addrs, NEW s \in Schemas, NEW b \in Royalties, RegisterWithRoyalty(o, s, b)
      PROVE  RegistryInv' /\ Faith
    <2>1. NewRecord(o, s) \in SchemaRecord /\ b \in Nat
        BY NewRecordType, RegistryAssumption
    <2>2. [NewRecord(o, s) EXCEPT !.royalty = b] \in SchemaRecord
        BY <2>1 DEF SchemaRecord
    <2>. QED BY <1>0, <1>4, <2>2, RegisterInternalInv DEF RegisterWithRoyalty
<1>5. ASSUME NEW o \in Addrs, NEW s \in Schemas, NEW p \in Schemas, RegisterWithPredecessor(o, s, p)
      PROVE  RegistryInv' /\ Faith
    <2>1. NewRecord(o, s) \in SchemaRecord
        BY NewRecordType
    <2>2. [NewRecord(o, s) EXCEPT !.predecessor = p] \in SchemaRecord
        BY <2>1 DEF SchemaRecord
    <2>. QED BY <1>0, <1>5, <2>2, RegisterInternalInv DEF RegisterWithPredecessor
<1>6. ASSUME NEW o \in Addrs, NEW s \in Schemas, NEW c \in Categories, RegisterWithCategory(o, s, c)
      PROVE  RegistryInv' /\ Faith
    <2>1. NewRecord(o, s) \in SchemaRecord
        BY NewRecordType
    <2>2. [NewRecord(o, s) EXCEPT !.category = c] \in SchemaRecord
        BY <2>1 DEF SchemaRecord
    <2>. QED BY <1>0, <1>6, <2>2, RegisterInternalInv DEF RegisterWithCategory
<1>7. ASSUME NEW o \in Addrs, NEW q, RegisterSchemasBatch(o, q)
      PROVE  RegistryInv' /\ Faith
    <2>1. \A x \in Schemas : NewRecord(o, x) \in SchemaRecord
        BY NewRecordType
    <2>2. schema \in [Schemas -> SchemaRecord \cup {None}]
        BY DEF RegistryInv, RegistryTypeOK
    <2>3. schema' \in [Schemas -> SchemaRecord \cup {None}]
        BY <1>7, <2>1, <2>2 DEF RegisterSchemasBatch
    <2>4. \A x \in Schemas : Registered(x) => schema'[x] = schema[x]
        BY <1>7 DEF RegisterSchemasBatch, Registrable, Registered
    <2>5. UNCHANGED <<roleVars, ownerVars, groups>> /\ UNCHANGED deprecated
        BY <1>0, <1>7 DEF RegisterSchemasBatch, statusVars
    <2>6. Faith
        BY <2>4, <2>5 DEF Faith, Registered
    <2>. QED BY <2>3, <2>5, <2>6, RegistryFrame
<1>8. Ttls \subseteq Nat /\ 0 \in Nat /\ None \in Schemas \cup {None}
    BY RegistryAssumption
<1>9. CASE Uses("base") /\ \E o \in Addrs, s \in Used : Register(o, s, 0, None)
    BY <1>0, <1>1, <1>8, <1>9
<1>10. CASE \E o \in Addrs, s \in Used :
            \/ \E ttl \in Ttls : Register(o, s, ttl, None)
            \/ \E uri \in Values \cup {None} :
                 RegisterSchema(o, s, uri) \/ RegisterSchemaWithValue(o, s, uri)
            \/ \E uri \in Values : RegisterWithMetadata(o, s, uri)
            \/ \E p \in Policies : RegisterWithPolicy(o, s, p)
            \/ \E b \in Royalties : RegisterWithRoyalty(o, s, b)
            \/ \E ttl \in Ttls : RegisterWithValue(o, s, ttl)
    <2>1. PICK o \in Addrs, s \in Used :
            \/ \E ttl \in Ttls : Register(o, s, ttl, None)
            \/ \E uri \in Values \cup {None} : RegisterSchema(o, s, uri)
            \/ \E p \in Policies : RegisterWithPolicy(o, s, p)
            \/ \E b \in Royalties : RegisterWithRoyalty(o, s, b)
        BY <1>10 DEF RegisterSchemaWithValue, RegisterWithMetadata, RegisterWithValue
    <2>2. s \in Schemas
        BY <1>0
    <2>. QED BY <1>1, <1>2, <1>3, <1>4, <1>8, <2>1, <2>2
<1>11. CASE \E o \in Addrs, s, p \in Used :
            Register(o, s, 0, p) \/ RegisterWithPredecessor(o, s, p)
    BY <1>0, <1>1, <1>5, <1>8, <1>11
<1>12. CASE \E o \in Addrs :
            \/ \E s \in Used, c \in Categories : RegisterWithCategory(o, s, c)
            \/ \E s, t \in Used : RegisterSchemasBatch(o, <<s, t>>)
    BY <1>0, <1>6, <1>7, <1>12
<1>. QED BY <1>9, <1>10, <1>11, <1>12 DEF RegisterStep

(* Only the roles of one schema change. *)
LEMMA RolesChange ==
    ASSUME RegistryInv, NEW s \in Schemas, UNCHANGED <<recordVars, statusVars, ownerVars, groups>>,
           auth' \in [Schemas -> SUBSET Addrs], acl' \in [Schemas -> SUBSET Addrs],
           list' \in [Schemas -> Seq(Addrs)], aclCount' \in [Schemas -> Nat],
           ListOf(list'[s], auth'[s]), aclCount'[s] = Cardinality(acl'[s]),
           \A x \in Schemas : x # s =>
             /\ auth'[x] = auth[x] /\ acl'[x] = acl[x]
             /\ list'[x] = list[x] /\ aclCount'[x] = aclCount[x]
    PROVE  RegistryInv' /\ Faith
<1>1. RegistryTypeOK'
    BY DEF RegistryInv, RegistryTypeOK, recordVars, ownerVars
<1>2. TransfersFresh'
    BY TransfersFrame DEF RegistryInv
<1>3. RolesKept'
    <2>. SUFFICES ASSUME NEW x \in Schemas
                  PROVE  ListOf(list'[x], auth'[x]) /\ aclCount'[x] = Cardinality(acl'[x])
        BY DEF RolesKept
    <2>1. CASE x = s
        BY <2>1
    <2>2. CASE x # s
        BY <2>2 DEF RegistryInv, RolesKept
    <2>. QED BY <2>1, <2>2
<1>4. Faith
    BY FaithFrame DEF recordVars, statusVars
<1>. QED BY <1>1, <1>2, <1>3, <1>4 DEF RegistryInv

(* Changing roles keeps the invariant and faith. *)
LEMMA RoleStepInv ==
    ASSUME RegistryInv, RoleStep
    PROVE  RegistryInv' /\ Faith
<1>0. PICK s \in Used, a \in Addrs :
         \/ \E e : Delegated(s, a, e)
         \/ RemoveDelegate(s, a)
         \/ AddAuthorizedAttester(s, a)
         \/ RemoveAuthorizedAttester(s, a)
    BY DEF RoleStep, AddDelegate, AddDelegateWithExpiry, SelfRevokeDelegate
<1>1. s \in Schemas /\ UNCHANGED groups
    BY DEF RegistryInv, RegistryTypeOK, RoleStep, Uses, Used
<1>2. /\ auth \in [Schemas -> SUBSET Addrs] /\ acl \in [Schemas -> SUBSET Addrs]
      /\ list \in [Schemas -> Seq(Addrs)] /\ aclCount \in [Schemas -> Nat]
      /\ ListOf(list[s], auth[s]) /\ aclCount[s] = Cardinality(acl[s])
      /\ IsFiniteSet(acl[s]) /\ acl[s] \subseteq Addrs /\ Cardinality(acl[s]) \in Nat
    BY <1>1, RegistryAssumption, FS_Subset, FS_CardinalityType DEF RegistryInv, RegistryTypeOK, RolesKept
<1>. DEFINE q == list[s]
            S == auth[s]
<1>2a. ListOf(q, S) /\ q \in Seq(Addrs) /\ S \subseteq Addrs /\ Len(q) \in Nat
    BY <1>1, <1>2
<1>3. ASSUME NEW e, Delegated(s, a, e) PROVE RegistryInv' /\ Faith
    <2>1. /\ auth' = [auth EXCEPT ![s] = S \cup {a}] /\ list' = [list EXCEPT ![s] = AddToDelegateList(q, a)]
          /\ UNCHANGED <<recordVars, statusVars, ownerVars, groups>> /\ UNCHANGED <<acl, aclCount>>
        BY <1>1, <1>3 DEF Delegated
    <2>. HIDE DEF q, S
    <2>2. ListOf(AddToDelegateList(q, a), S \cup {a})
        <3>1. CASE Listed(q, a)
            <4>1. a \in S
                BY <1>2a, <3>1 DEF Listed, ListOf
            <4>2. S \cup {a} = S
                BY <4>1
            <4>. QED BY <1>2a, <3>1, <4>2 DEF AddToDelegateList
        <3>2. CASE ~Listed(q, a)
            <4>. DEFINE h == Append(q, a)
            <4>1. AddToDelegateList(q, a) = h
                BY <3>2 DEF AddToDelegateList
            <4>2. /\ h \in Seq(Addrs) /\ Len(h) = Len(q) + 1 /\ h[Len(q) + 1] = a
                  /\ \A i \in 1..Len(q) : h[i] = q[i] /\ q[i] # a
                BY <1>2a, <3>2 DEF Listed
            <4>3. S = {q[i] : i \in 1..Len(q)} /\ \A i, j \in 1..Len(q) : q[i] = q[j] => i = j
                BY <1>2a DEF ListOf
            <4>. HIDE DEF h
            <4>4. /\ \A i \in 1..Len(h) : i \in 1..Len(q) \/ i = Len(q) + 1
                  /\ \A i \in 1..Len(q) : i \in 1..Len(h)
                  /\ Len(q) + 1 \in 1..Len(h)
                BY <1>2a, <4>2
            <4>5. \A i, j \in 1..Len(h) : h[i] = h[j] => i = j
                BY <4>2, <4>3, <4>4
            <4>6. {h[i] : i \in 1..Len(h)} = S \cup {a}
                BY <4>2, <4>3, <4>4
            <4>. QED BY <4>1, <4>2, <4>5, <4>6 DEF ListOf
        <3>. QED BY <3>1, <3>2
    <2>3. AddToDelegateList(q, a) \in Seq(Addrs)
        BY <2>2 DEF ListOf
    <2>4. /\ auth' \in [Schemas -> SUBSET Addrs] /\ acl' \in [Schemas -> SUBSET Addrs]
          /\ list' \in [Schemas -> Seq(Addrs)] /\ aclCount' \in [Schemas -> Nat]
        BY <1>2, <1>2a, <2>1, <2>3
    <2>5. /\ auth'[s] = S \cup {a} /\ list'[s] = AddToDelegateList(q, a)
          /\ acl' = acl /\ aclCount' = aclCount
          /\ \A x \in Schemas : x # s => auth'[x] = auth[x] /\ list'[x] = list[x]
        BY <1>1, <1>2, <2>1
    <2>. QED BY <1>1, <1>2, <2>1, <2>2, <2>4, <2>5, RolesChange
<1>4. ASSUME RemoveDelegate(s, a) PROVE RegistryInv' /\ Faith
    <2>1. /\ auth' = [auth EXCEPT ![s] = S \ {a}] /\ list' = [list EXCEPT ![s] = KeepIn(q, Addrs \ {a})]
          /\ UNCHANGED <<recordVars, statusVars, ownerVars, groups>> /\ UNCHANGED <<acl, aclCount>>
        BY <1>1, <1>4 DEF RemoveDelegate, RemoveFromDelegateList
    <2>. HIDE DEF q, S
    <2>2. ListOf(KeepIn(q, Addrs \ {a}), S \ {a})
        <3>1. S \cap (Addrs \ {a}) = S \ {a}
            BY <1>2a
        <3>2. ListOf(KeepIn(q, Addrs \ {a}), S \cap (Addrs \ {a}))
            BY <1>2a, KeepInList
        <3>. QED BY <3>1, <3>2
    <2>3. KeepIn(q, Addrs \ {a}) \in Seq(Addrs)
        BY <2>2 DEF ListOf
    <2>4. /\ auth' \in [Schemas -> SUBSET Addrs] /\ acl' \in [Schemas -> SUBSET Addrs]
          /\ list' \in [Schemas -> Seq(Addrs)] /\ aclCount' \in [Schemas -> Nat]
        BY <1>2, <1>2a, <2>1, <2>3
    <2>5. /\ auth'[s] = S \ {a} /\ list'[s] = KeepIn(q, Addrs \ {a})
          /\ acl' = acl /\ aclCount' = aclCount
          /\ \A x \in Schemas : x # s => auth'[x] = auth[x] /\ list'[x] = list[x]
        BY <1>1, <1>2, <2>1
    <2>. QED BY <1>1, <1>2, <2>1, <2>2, <2>4, <2>5, RolesChange
<1>5. ASSUME AddAuthorizedAttester(s, a) PROVE RegistryInv' /\ Faith
    <2>1. /\ acl' = [acl EXCEPT ![s] = acl[s] \cup {a}]
          /\ aclCount' = [aclCount EXCEPT ![s] = IF a \in acl[s] THEN aclCount[s] ELSE aclCount[s] + 1]
          /\ UNCHANGED <<recordVars, statusVars, ownerVars, groups>> /\ UNCHANGED <<auth, list>>
        BY <1>1, <1>5 DEF AddAuthorizedAttester
    <2>2. Cardinality(acl[s] \cup {a}) = IF a \in acl[s] THEN Cardinality(acl[s]) ELSE Cardinality(acl[s]) + 1
        BY <1>2, FS_AddElement
    <2>2a. aclCount' \in [Schemas -> Nat]
        BY <1>1, <1>2, <2>1
    <2>2b. acl' \in [Schemas -> SUBSET Addrs]
        <3>1. acl[s] \cup {a} \in SUBSET Addrs
            BY <1>2
        <3>. QED BY <1>2, <2>1, <3>1
    <2>3. /\ auth' \in [Schemas -> SUBSET Addrs] /\ acl' \in [Schemas -> SUBSET Addrs]
          /\ list' \in [Schemas -> Seq(Addrs)] /\ aclCount' \in [Schemas -> Nat]
        BY <1>2, <2>1, <2>2a, <2>2b
    <2>4. /\ acl'[s] = acl[s] \cup {a} /\ aclCount'[s] = Cardinality(acl'[s])
          /\ auth' = auth /\ list' = list
          /\ \A x \in Schemas : x # s => acl'[x] = acl[x] /\ aclCount'[x] = aclCount[x]
        BY <1>1, <1>2, <2>1, <2>2
    <2>. QED BY <1>1, <1>2, <2>1, <2>3, <2>4, RolesChange
<1>6. ASSUME RemoveAuthorizedAttester(s, a) PROVE RegistryInv' /\ Faith
    <2>1. /\ acl' = [acl EXCEPT ![s] = acl[s] \ {a}]
          /\ aclCount' = [aclCount EXCEPT ![s] = IF a \in acl[s] THEN aclCount[s] - 1 ELSE aclCount[s]]
          /\ UNCHANGED <<recordVars, statusVars, ownerVars, groups>> /\ UNCHANGED <<auth, list>>
        BY <1>1, <1>6 DEF RemoveAuthorizedAttester
    <2>2. /\ Cardinality(acl[s] \ {a}) = IF a \in acl[s] THEN Cardinality(acl[s]) - 1 ELSE Cardinality(acl[s])
          /\ Cardinality(acl[s] \ {a}) \in Nat
        BY <1>2, FS_RemoveElement, FS_CardinalityType
    <2>3. /\ auth' \in [Schemas -> SUBSET Addrs] /\ acl' \in [Schemas -> SUBSET Addrs]
          /\ list' \in [Schemas -> Seq(Addrs)] /\ aclCount' \in [Schemas -> Nat]
        BY <1>2, <2>1, <2>2
    <2>4. /\ acl'[s] = acl[s] \ {a} /\ aclCount'[s] = Cardinality(acl'[s])
          /\ auth' = auth /\ list' = list
          /\ \A x \in Schemas : x # s => acl'[x] = acl[x] /\ aclCount'[x] = aclCount[x]
        BY <1>1, <1>2, <2>1, <2>2
    <2>. QED BY <1>1, <1>2, <2>1, <2>3, <2>4, RolesChange
<1>. QED BY <1>0, <1>3, <1>4, <1>5, <1>6

(* The owner of one schema changes, or nothing does; a transfer under way  *)
(* is fresh.                                                               *)
LEMMA OwnersChange ==
    ASSUME RegistryInv, NEW s \in Schemas, UNCHANGED <<roleVars, statusVars, groups>>,
           NEW a \in Addrs, schema' \in {schema, [schema EXCEPT ![s].creator = a]}, Live(s),
           NEW p \in Addrs \cup {None}, pendingOwner' \in {pendingOwner, [pendingOwner EXCEPT ![s] = p]},
           NEW o \in OwnerSet \cup {None}, ownerSet' = [ownerSet EXCEPT ![s] = o],
           NEW t \in PendingOwnershipTransfer \cup {None}, transfer' = [transfer EXCEPT ![s] = t],
           t # None => /\ t.version = (IF o = None THEN 0 ELSE o.version)
                       /\ Cardinality(t.approvals) < (IF o = None THEN 1 ELSE o.threshold)
    PROVE  RegistryInv' /\ Faith
<1>0. RegistryTypeOK /\ schema \in [Schemas -> SchemaRecord \cup {None}] /\ UNCHANGED deprecated
    BY DEF RegistryInv, RegistryTypeOK, statusVars
<1>1. schema' \in [Schemas -> SchemaRecord \cup {None}] /\ Faith
    <2>1. CASE schema' = schema
        BY <1>0, <2>1, FaithFrame
    <2>2. CASE schema' = [schema EXCEPT ![s].creator = a]
        <3>. DEFINE r == [schema[s] EXCEPT !.creator = a]
        <3>1. schema[s] \in SchemaRecord /\ s \notin deprecated
            BY <1>0 DEF Live, Registered
        <3>2. r \in SchemaRecord /\ r.policy = schema[s].policy /\ r.max_ttl = schema[s].max_ttl
              /\ r.parent = schema[s].parent /\ r.predecessor = schema[s].predecessor
            BY <3>1 DEF SchemaRecord
        <3>3. schema' = [schema EXCEPT ![s] = r]
            BY <1>0, <2>2
        <3>. HIDE DEF r
        <3>. QED BY <1>0, <3>1, <3>2, <3>3, RecordWritten
    <2>. QED BY <2>1, <2>2
<1>2. RegistryTypeOK'
    BY <1>0, <1>1 DEF RegistryTypeOK, roleVars
<1>3. TransfersFresh'
    <2>. SUFFICES ASSUME NEW x \in Schemas, transfer'[x] # None
                  PROVE  /\ transfer'[x].version = (IF ownerSet'[x] = None THEN 0 ELSE ownerSet'[x].version)
                         /\ Cardinality(transfer'[x].approvals) < (IF ownerSet'[x] = None THEN 1 ELSE ownerSet'[x].threshold)
        BY DEF TransfersFresh, SetVersion, Threshold
    <2>1. CASE x = s
        <3>1. transfer'[x] = t /\ ownerSet'[x] = o
            BY <1>0, <2>1 DEF RegistryTypeOK
        <3>. QED BY <3>1
    <2>2. CASE x # s
        <3>1. transfer'[x] = transfer[x] /\ ownerSet'[x] = ownerSet[x]
            BY <1>0, <2>2 DEF RegistryTypeOK
        <3>. QED BY <3>1 DEF RegistryInv, TransfersFresh, SetVersion, Threshold
    <2>. QED BY <2>1, <2>2
<1>4. RolesKept'
    BY RolesFrame DEF RegistryInv
<1>. QED BY <1>1, <1>2, <1>3, <1>4 DEF RegistryInv

(* Transferring ownership keeps the invariant and faith. *)
LEMMA OwnerStepInv ==
    ASSUME RegistryInv, OwnerStep
    PROVE  RegistryInv' /\ Faith
<1>0. PICK s \in Used :
         \/ \E who, new \in Addrs :
              TransferOwnership(who, s, new) \/ ProposeOwnershipTransfer(who, s, new)
         \/ \E new \in Addrs : TransferSchemaOwnership(s, new) \/ ProposeSchemaOwner(s, new)
         \/ ClaimSchemaOwnership(s)
         \/ CancelSchemaOwnershipTransfer(s)
         \/ \E who \in Addrs, owners \in (SUBSET Addrs) \ {{}}, n \in Thresholds :
              SetVersion(s) < MaxSets /\ ConfigureOwnerSet(who, s, owners, n)
         \/ \E who \in Addrs : ApproveOwnershipTransfer(who, s)
         \/ \E who \in Addrs : CancelOwnershipTransfer(who, s)
    BY DEF OwnerStep
<1>1. s \in Schemas /\ UNCHANGED groups
    BY DEF RegistryInv, RegistryTypeOK, OwnerStep, Uses, Used
<1>2. /\ pendingOwner \in [Schemas -> Addrs \cup {None}]
      /\ ownerSet \in [Schemas -> OwnerSet \cup {None}]
      /\ transfer \in [Schemas -> PendingOwnershipTransfer \cup {None}]
    BY DEF RegistryInv, RegistryTypeOK
<1>. DEFINE o == ownerSet[s]
            t == transfer[s]
            p == pendingOwner[s]
<1>3. /\ o \in OwnerSet \cup {None} /\ ownerSet = [ownerSet EXCEPT ![s] = o]
      /\ t \in PendingOwnershipTransfer \cup {None} /\ transfer = [transfer EXCEPT ![s] = t]
      /\ p \in Addrs \cup {None} /\ pendingOwner = [pendingOwner EXCEPT ![s] = p]
    BY <1>1, <1>2
<1>4. /\ SetVersion(s) = (IF o = None THEN 0 ELSE o.version)
      /\ Threshold(s) = (IF o = None THEN 1 ELSE o.threshold)
    BY DEF SetVersion, Threshold
<1>5. t # None => /\ t.version = (IF o = None THEN 0 ELSE o.version)
                  /\ Cardinality(t.approvals) < (IF o = None THEN 1 ELSE o.threshold)
    BY <1>1, <1>4 DEF RegistryInv, TransfersFresh
<1>6. SetVersion(s) \in Nat /\ Threshold(s) \in Nat
    <2>1. CASE o = None
        BY <1>4, <2>1
    <2>2. CASE o # None
        <3>1. o \in OwnerSet
            BY <1>3, <2>2
        <3>2. o.version \in Nat /\ o.threshold \in Nat
            BY <3>1 DEF OwnerSet
        <3>. QED BY <1>4, <2>2, <3>2
    <2>. QED BY <2>1, <2>2
<1>7. None \in Addrs \cup {None} /\ None \in PendingOwnershipTransfer \cup {None}
    OBVIOUS
<1>. HIDE DEF o, t, p
(* Transfers of one step. *)
<1>10. ASSUME NEW new \in Addrs, Transferred(s, new) PROVE RegistryInv' /\ Faith
    <2>1. Live(s) /\ schema' = [schema EXCEPT ![s].creator = new] /\ pendingOwner' = pendingOwner
          /\ ownerSet' = [ownerSet EXCEPT ![s] = o] /\ transfer' = [transfer EXCEPT ![s] = t]
          /\ UNCHANGED <<roleVars, statusVars, groups>>
        BY <1>1, <1>3, <1>10 DEF Transferred, NewOwner, OwnershipOnly, ownerVars
    <2>. QED BY <1>1, <1>3, <1>5, <1>7, <2>1, OwnersChange
(* The two-step transfer. *)
<1>11. ASSUME NEW a \in Addrs, NEW b \in Addrs \cup {None}, Live(s),
              schema' \in {schema, [schema EXCEPT ![s].creator = a]},
              pendingOwner' = [pendingOwner EXCEPT ![s] = b],
              OwnershipOnly, UNCHANGED <<ownerSet, transfer>>
       PROVE  RegistryInv' /\ Faith
    <2>1. /\ ownerSet' = [ownerSet EXCEPT ![s] = o] /\ transfer' = [transfer EXCEPT ![s] = t]
          /\ UNCHANGED <<roleVars, statusVars, groups>>
        BY <1>1, <1>3, <1>11 DEF OwnershipOnly
    <2>. QED BY <1>1, <1>3, <1>5, <1>11, <2>1, OwnersChange
(* The transfer that collects approvals is settled. *)
<1>12. ASSUME NEW a \in Addrs, Live(s), schema' \in {schema, [schema EXCEPT ![s].creator = a]},
              NEW c \in OwnerSet \cup {None}, ownerSet' = [ownerSet EXCEPT ![s] = c],
              transfer' = [transfer EXCEPT ![s] = None], OwnershipOnly, UNCHANGED pendingOwner
       PROVE  RegistryInv' /\ Faith
    <2>1. UNCHANGED <<roleVars, statusVars, groups>>
        BY <1>1, <1>12 DEF OwnershipOnly
    <2>2. pendingOwner' \in {pendingOwner, [pendingOwner EXCEPT ![s] = None]}
        BY <1>12
    <2>. QED BY <1>1, <1>7, <1>12, <2>1, <2>2, OwnersChange
(* It goes on. *)
<1>13. ASSUME NEW u \in PendingOwnershipTransfer, Live(s), Pend(s, u), NEW a \in Addrs,
              u.version = SetVersion(s), Cardinality(u.approvals) < Threshold(s)
       PROVE  RegistryInv' /\ Faith
    <2>1. /\ ownerSet' = [ownerSet EXCEPT ![s] = o] /\ transfer' = [transfer EXCEPT ![s] = u]
          /\ schema' = schema /\ pendingOwner' = pendingOwner
          /\ UNCHANGED <<roleVars, statusVars, groups>>
        BY <1>1, <1>3, <1>13 DEF Pend, OwnershipOnly
    <2>2. /\ u.version = (IF o = None THEN 0 ELSE o.version)
          /\ Cardinality(u.approvals) < (IF o = None THEN 1 ELSE o.threshold)
        BY <1>4, <1>13
    <2>3. /\ schema' \in {schema, [schema EXCEPT ![s].creator = a]}
          /\ pendingOwner' \in {pendingOwner, [pendingOwner EXCEPT ![s] = None]}
          /\ u \in PendingOwnershipTransfer \cup {None}
        BY <2>1
    <2>. QED BY <1>1, <1>3, <1>7, <1>13, <2>1, <2>2, <2>3, OwnersChange
<1>14. ASSUME NEW new \in Addrs, Live(s), Finalize(s, new) PROVE RegistryInv' /\ Faith
    <2>1. /\ schema' \in {schema, [schema EXCEPT ![s].creator = new]}
          /\ ownerSet' = [ownerSet EXCEPT ![s] = o]
          /\ transfer' = [transfer EXCEPT ![s] = None] /\ OwnershipOnly /\ UNCHANGED pendingOwner
        BY <1>3, <1>14 DEF Finalize, NewOwner
    <2>. QED BY <1>3, <1>12, <1>14, <2>1
<1>20. CASE \E who, new \in Addrs : TransferOwnership(who, s, new)
    BY <1>10, <1>20 DEF TransferOwnership
<1>21. CASE \E new \in Addrs : TransferSchemaOwnership(s, new)
    BY <1>10, <1>21 DEF TransferSchemaOwnership
<1>22. CASE \E new \in Addrs : ProposeSchemaOwner(s, new)
    BY <1>11, <1>22 DEF ProposeSchemaOwner
<1>23. ASSUME NEW a \in Addrs, ClaimSchemaOwnership(s) PROVE RegistryInv' /\ Faith
    <2>1. p \in Addrs /\ Live(s) /\ schema' = [schema EXCEPT ![s].creator = p]
        BY <1>3, <1>23 DEF ClaimSchemaOwnership, NewOwner, p
    <2>. QED BY <1>7, <1>11, <1>23, <2>1 DEF ClaimSchemaOwnership
<1>24. ASSUME NEW a \in Addrs, CancelSchemaOwnershipTransfer(s) PROVE RegistryInv' /\ Faith
    BY <1>7, <1>11, <1>24 DEF CancelSchemaOwnershipTransfer
<1>25. ASSUME NEW who \in Addrs, NEW owners \in SUBSET Addrs, NEW n \in Thresholds,
              ConfigureOwnerSet(who, s, owners, n)
       PROVE  RegistryInv' /\ Faith
    <2>. DEFINE c == [owners |-> owners, threshold |-> n, version |-> SetVersion(s) + 1]
    <2>1. c \in OwnerSet
        BY <1>6, RegistryAssumption DEF OwnerSet
    <2>2. Live(s) /\ ownerSet' = [ownerSet EXCEPT ![s] = c]
          /\ transfer' = [transfer EXCEPT ![s] = None] /\ OwnershipOnly
          /\ schema' \in {schema, [schema EXCEPT ![s].creator = who]} /\ UNCHANGED pendingOwner
        BY <1>25 DEF ConfigureOwnerSet
    <2>. HIDE DEF c
    <2>. QED BY <1>12, <2>1, <2>2
<1>26. ASSUME NEW who \in Addrs, NEW new \in Addrs, ProposeOwnershipTransfer(who, s, new)
       PROVE  RegistryInv' /\ Faith
    <2>1. CASE Threshold(s) <= 1
        BY <1>14, <1>26, <2>1 DEF ProposeOwnershipTransfer
    <2>2. CASE ~(Threshold(s) <= 1)
        <3>. DEFINE u == [version |-> SetVersion(s), new_owner |-> new, approvals |-> {who}]
        <3>1. u \in PendingOwnershipTransfer /\ u.version = SetVersion(s) /\ u.approvals = {who}
            BY <1>6 DEF PendingOwnershipTransfer
        <3>2. Live(s) /\ Pend(s, u)
            BY <1>26, <2>2 DEF ProposeOwnershipTransfer
        <3>. HIDE DEF u
        <3>3. Cardinality(u.approvals) < Threshold(s)
            BY <1>6, <2>2, <3>1, FS_Singleton
        <3>. QED BY <1>13, <3>1, <3>2, <3>3
    <2>. QED BY <2>1, <2>2
<1>27. ASSUME NEW who \in Addrs, ApproveOwnershipTransfer(who, s) PROVE RegistryInv' /\ Faith
    <2>. DEFINE both == t.approvals \cup {who}
                u == [t EXCEPT !.approvals = both]
    <2>1. t # None /\ Live(s) /\ t.version = SetVersion(s)
          /\ IF Cardinality(both) < Threshold(s) THEN Pend(s, u) ELSE Finalize(s, t.new_owner)
        BY <1>27 DEF ApproveOwnershipTransfer, t
    <2>2. t \in PendingOwnershipTransfer
        BY <1>3, <2>1
    <2>3. t.new_owner \in Addrs /\ u \in PendingOwnershipTransfer /\ u.version = t.version
          /\ u.approvals = both
        BY <2>2 DEF PendingOwnershipTransfer
    <2>. HIDE DEF u, both
    <2>. QED BY <1>13, <1>14, <2>1, <2>3
<1>28. ASSUME NEW who \in Addrs, CancelOwnershipTransfer(who, s) PROVE RegistryInv' /\ Faith
    <2>1. ownerSet' = [ownerSet EXCEPT ![s] = o]
        BY <1>3, <1>28 DEF CancelOwnershipTransfer
    <2>. QED BY <1>3, <1>12, <1>28, <2>1 DEF CancelOwnershipTransfer
<1>29. \E a : a \in Addrs
    <2>1. schema[s] \in SchemaRecord \cup {None}
        BY <1>1 DEF RegistryInv, RegistryTypeOK
    <2>2. CASE Addrs # {}
        BY <2>2
    <2>3. CASE Addrs = {}
        <3>1. SchemaRecord = {}
            BY <2>3 DEF SchemaRecord
        <3>2. ~Live(s)
            BY <2>1, <3>1 DEF Live, Registered
        <3>. QED BY <1>0, <2>3, <3>2 DEF ClaimSchemaOwnership, CancelSchemaOwnershipTransfer
    <2>. QED BY <2>2, <2>3
<1>. QED BY <1>0, <1>20, <1>21, <1>22, <1>23, <1>24, <1>25, <1>26, <1>27, <1>28, <1>29

(* Changing a schema's status keeps the invariant and faith. *)
LEMMA StatusStepInv ==
    ASSUME RegistryInv, StatusStep
    PROVE  RegistryInv' /\ Faith
<1>0. UNCHANGED groups /\ groups.schemas \subseteq Schemas
    BY DEF RegistryInv, RegistryTypeOK, StatusStep, Uses
<1>1. RegistryTypeOK /\ schema \in [Schemas -> SchemaRecord \cup {None}]
    BY DEF RegistryInv, RegistryTypeOK
(* The status of a schema; a deprecated one stays deprecated. *)
<1>2. ASSUME SettingsOnly, UNCHANGED schema, deprecated \subseteq deprecated'
      PROVE  RegistryInv' /\ Faith
    <2>1. schema' \in [Schemas -> SchemaRecord \cup {None}] /\ UNCHANGED <<roleVars, ownerVars, groups>>
        BY <1>0, <1>1, <1>2 DEF SettingsOnly
    <2>. QED BY <1>2, <2>1, RegistryFrame, FaithFrame
(* Its record. *)
<1>3. ASSUME SettingsOnly, NEW s \in Schemas, Registered(s), NEW r \in SchemaRecord,
             schema' = [schema EXCEPT ![s] = r], UNCHANGED statusVars,
             r.policy = schema[s].policy, r.max_ttl = schema[s].max_ttl,
             r.parent = schema[s].parent, r.predecessor = schema[s].predecessor,
             r.creator = schema[s].creator
      PROVE  RegistryInv' /\ Faith
    <2>1. UNCHANGED deprecated /\ UNCHANGED <<roleVars, ownerVars, groups>>
        BY <1>0, <1>3 DEF SettingsOnly, statusVars
    <2>2. schema' \in [Schemas -> SchemaRecord \cup {None}] /\ Faith
        BY <1>1, <1>3, <2>1, RecordWritten
    <2>. QED BY <2>1, <2>2, RegistryFrame
<1>4. ASSUME NEW s \in Schemas, Registered(s) PROVE schema[s] \in SchemaRecord
    BY <1>1, <1>4 DEF Registered
<1>5. ASSUME NEW who \in Addrs, NEW s \in Schemas, Deprecate(who, s) PROVE RegistryInv' /\ Faith
    BY <1>2, <1>5 DEF Deprecate
<1>6. ASSUME NEW b \in BOOLEAN, NEW s \in Schemas, SetSchemaQuarantine(s, b) PROVE RegistryInv' /\ Faith
    BY <1>2, <1>6 DEF SetSchemaQuarantine
<1>7. ASSUME NEW who \in Addrs, NEW s \in Schemas, DeprecateSchema(who, s) PROVE RegistryInv' /\ Faith
    <2>. DEFINE r == [schema[s] EXCEPT !.flagged = TRUE]
    <2>1. Registered(s) /\ schema[s] \in SchemaRecord
        BY <1>4, <1>7 DEF DeprecateSchema, Live
    <2>2. /\ r \in SchemaRecord /\ r.policy = schema[s].policy /\ r.max_ttl = schema[s].max_ttl
          /\ r.parent = schema[s].parent /\ r.predecessor = schema[s].predecessor
          /\ r.creator = schema[s].creator
        BY <2>1 DEF SchemaRecord
    <2>3. schema' = [schema EXCEPT ![s] = r] /\ SettingsOnly /\ UNCHANGED statusVars
        BY <1>1, <1>7 DEF DeprecateSchema
    <2>. HIDE DEF r
    <2>. QED BY <1>3, <2>1, <2>2, <2>3
<1>8. ASSUME NEW who \in Addrs, NEW s \in Schemas, NEW b \in Royalties, SetCreatorRoyalty(who, s, b)
      PROVE  RegistryInv' /\ Faith
    <2>. DEFINE r == [schema[s] EXCEPT !.royalty = b]
    <2>1. Registered(s) /\ schema[s] \in SchemaRecord /\ b \in Nat
        BY <1>4, <1>8, RegistryAssumption DEF SetCreatorRoyalty
    <2>2. /\ r \in SchemaRecord /\ r.policy = schema[s].policy /\ r.max_ttl = schema[s].max_ttl
          /\ r.parent = schema[s].parent /\ r.predecessor = schema[s].predecessor
          /\ r.creator = schema[s].creator
        BY <2>1 DEF SchemaRecord
    <2>3. schema' = [schema EXCEPT ![s] = r] /\ SettingsOnly /\ UNCHANGED statusVars
        BY <1>1, <1>8 DEF SetCreatorRoyalty
    <2>. HIDE DEF r
    <2>. QED BY <1>3, <2>1, <2>2, <2>3
<1>9. ASSUME NEW who \in Addrs, NEW s \in Schemas, NEW k \in Kinds, NEW v \in Values \cup {None},
             SetSchemaSetting(who, s, k, v)
      PROVE  RegistryInv' /\ Faith
    <2>. DEFINE f == [schema[s].settings EXCEPT ![k] = v]
                r == [schema[s] EXCEPT !.settings = f]
    <2>1. Registered(s) /\ schema[s] \in SchemaRecord
        BY <1>4, <1>9 DEF SetSchemaSetting, Live
    <2>2. f \in [Kinds -> Values \cup {None}]
        <3>1. schema[s].settings \in [Kinds -> Values \cup {None}]
            BY <2>1 DEF SchemaRecord
        <3>. QED BY <3>1
    <2>3. schema' = [schema EXCEPT ![s] = r] /\ SettingsOnly /\ UNCHANGED statusVars
        BY <1>1, <1>9 DEF SetSchemaSetting
    <2>. HIDE DEF f
    <2>4. /\ r \in SchemaRecord /\ r.policy = schema[s].policy /\ r.max_ttl = schema[s].max_ttl
          /\ r.parent = schema[s].parent /\ r.predecessor = schema[s].predecessor
          /\ r.creator = schema[s].creator
        BY <2>1, <2>2 DEF SchemaRecord
    <2>. HIDE DEF r
    <2>. QED BY <1>3, <2>1, <2>3, <2>4
<1>10. CASE \E who \in Addrs, s \in Used : Deprecate(who, s)
    BY <1>0, <1>5, <1>10 DEF Used
<1>11. ASSUME NEW s \in Used,
              \/ \E who \in Addrs : DeprecateSchema(who, s)
              \/ \E b \in BOOLEAN : SetSchemaQuarantine(s, b)
              \/ \E who \in Addrs, b \in Royalties : SetCreatorRoyalty(who, s, b)
              \/ \E who \in Addrs, v \in Values :
                   \/ SetSchemaFrostGroup(who, s, v) \/ SetSchemaMerkleRoot(who, s, v)
                   \/ UpdateSchemaMetadata(who, s, v)
              \/ \E who \in Addrs : ClearSchemaFrostGroup(who, s) \/ ClearSchemaMerkleRoot(who, s)
       PROVE  RegistryInv' /\ Faith
    <2>1. s \in Schemas
        BY <1>0 DEF Used
    <2>2. {"frost", "merkle", "metadata"} \subseteq Kinds
        BY DEF Kinds
    <2>. QED BY <1>6, <1>7, <1>8, <1>9, <1>11, <2>1, <2>2
             DEF SetSchemaFrostGroup, SetSchemaMerkleRoot, UpdateSchemaMetadata,
                 ClearSchemaFrostGroup, ClearSchemaMerkleRoot
<1>. QED BY <1>10, <1>11 DEF StatusStep

(* RegistryInv is inductive, and its steps keep faith. *)
LEMMA RegistryNextInv ==
    RegistryInv /\ [Next]_schemaRegistryVars => RegistryInv' /\ Faith
<1>. SUFFICES ASSUME RegistryInv, [Next]_schemaRegistryVars PROVE RegistryInv' /\ Faith
    OBVIOUS
<1>0. schema \in [Schemas -> SchemaRecord \cup {None}]
    BY DEF RegistryInv, RegistryTypeOK
<1>1. CASE RegistryStep
    <2>1. UNCHANGED <<schema, deprecated>> /\ UNCHANGED <<roleVars, ownerVars, groups>>
        BY <1>1 DEF RegistryStep, Uses, InitRegistry, UpgradeRegistry, SetRegistrationFee,
                    SetRegistryTreasury, SettingsOnly, statusVars
    <2>. QED BY <1>0, <2>1, RegistryFrame, FaithFrame
<1>2. CASE Uses("roles") /\ Tick
    <2>1. UNCHANGED <<schema, deprecated>> /\ UNCHANGED <<roleVars, ownerVars, groups>>
        BY <1>2 DEF Uses, Tick, recordVars, statusVars
    <2>. QED BY <1>0, <2>1, RegistryFrame, FaithFrame
<1>3. CASE UNCHANGED schemaRegistryVars
    <2>1. UNCHANGED <<schema, deprecated>> /\ UNCHANGED <<roleVars, ownerVars, groups>>
        BY <1>3 DEF schemaRegistryVars, recordVars, statusVars
    <2>. QED BY <1>0, <2>1, RegistryFrame, FaithFrame
<1>. QED BY <1>1, <1>2, <1>3, RegisterStepInv, RoleStepInv, OwnerStepInv, StatusStepInv DEF Next

(* What the delegate readers return agrees with what is granted. *)
LEMMA DelegatesListed ==
    ASSUME RegistryInv, NEW s \in Schemas
    PROVE  LET g == GetDelegates(s) IN
             /\ {a \in Addrs : IsDelegate(s, a)} = {g.active[i] : i \in DOMAIN g.active}
             /\ Len(g.active) + Len(g.expired) = Cardinality(auth[s])
             /\ Len(list[s]) = Cardinality(auth[s])
<1>. DEFINE q == list[s]
            A == auth[s]
            E == {a \in Addrs : expiry[s][a] # None /\ Expired(expiry[s][a])}
            x == KeepIn(q, A \ E)
            y == KeepIn(q, A \cap E)
<1>1. ListOf(q, A) /\ A \in SUBSET Addrs
    BY DEF RegistryInv, RegistryTypeOK, RolesKept
<1>2. GetDelegates(s) = [active |-> x, expired |-> y]
    BY DEF GetDelegates
<1>3. {a \in Addrs : IsDelegate(s, a)} = A \ E
    BY <1>1 DEF IsDelegate
<1>. HIDE DEF q, A, E
<1>4. A \cap (A \ E) = A \ E /\ A \cap (A \cap E) = A \cap E
    OBVIOUS
<1>5. ListOf(x, A \ E)
    BY <1>1, <1>4, KeepInList
<1>6. ListOf(y, A \cap E)
    BY <1>1, <1>4, KeepInList
<1>. HIDE DEF x, y
<1>7. x \in Seq(Addrs) /\ A \ E = {x[i] : i \in DOMAIN x}
    BY <1>5 DEF ListOf
<1>8. IsFiniteSet(A) /\ Cardinality(A) = Len(q) /\ IsFiniteSet(A \ E) /\ Cardinality(A \ E) = Len(x)
      /\ IsFiniteSet(A \cap E) /\ Cardinality(A \cap E) = Len(y)
    BY <1>1, <1>5, <1>6, ListLength
<1>9. Cardinality(A) = Cardinality(A \ E) + Cardinality(A \cap E)
    <2>1. (A \ E) \cup (A \cap E) = A /\ (A \ E) \cap (A \cap E) = {}
        OBVIOUS
    <2>. DEFINE B == A \ E
                C == A \cap E
    <2>2. IsFiniteSet(B) /\ IsFiniteSet(C) /\ B \cup C = A /\ B \cap C = {}
        BY <1>8, <2>1
    <2>. HIDE DEF B, C
    <2>3. Cardinality(B \cup C) = Cardinality(B) + Cardinality(C) - Cardinality(B \cap C)
        BY <2>2, FS_Union
    <2>4. Cardinality(B) \in Nat /\ Cardinality(C) \in Nat /\ Cardinality({}) = 0
        BY <2>2, FS_CardinalityType, FS_EmptySet
    <2>5. Cardinality(A) = Cardinality(B) + Cardinality(C)
        <3>1. Cardinality(B \cup C) = Cardinality(A)
            BY <2>2, Zenon
        <3>2. Cardinality(B \cap C) = 0
            BY <2>2, <2>4, Zenon
        <3>. QED BY <2>3, <2>4, <3>1, <3>2
    <2>. QED BY <2>5 DEF B, C
<1>10. Len(x) + Len(y) = Cardinality(A)
    BY <1>8, <1>9
<1>11. GetDelegates(s).active = x /\ GetDelegates(s).expired = y
    BY <1>2
<1>. QED BY <1>3, <1>7, <1>8, <1>10, <1>11 DEF q, A

(* What get_delegates lists, is_delegate grants and the counters count     *)
(* always agree, and no transfer outlives the owner set it was proposed    *)
(* under: for any number of addresses and schemas, any owner sets and      *)
(* thresholds, through any sequence of additions, removals and             *)
(* reconfigurations.                                                       *)
THEOREM RegistryRolesAgree == Spec => []RolesAgree
<1>1. RegistryInv => RolesAgree
    <2>. SUFFICES ASSUME RegistryInv PROVE RolesAgree
        OBVIOUS
    <2>1. TransfersFresh
        BY DEF RegistryInv
    <2>2. ASSUME NEW s \in Schemas
          PROVE  (IsSchemaRestricted(s) <=> acl[s] # {}) /\ aclCount[s] = Cardinality(acl[s])
        <3>1. aclCount[s] = Cardinality(acl[s]) /\ IsFiniteSet(acl[s]) /\ Cardinality(acl[s]) \in Nat
            BY RegistryAssumption, FS_Subset, FS_CardinalityType DEF RegistryInv, RegistryTypeOK, RolesKept
        <3>2. Cardinality(acl[s]) = 0 <=> acl[s] = {}
            BY <3>1, FS_EmptySet
        <3>. QED BY <3>1, <3>2 DEF IsSchemaRestricted
    <2>. QED BY <2>1, <2>2, DelegatesListed DEF RolesAgree
<1>. QED BY <1>1, RegistryInitInv, RegistryNextInv, PTL DEF Spec

(* What SAS relies on of a registered schema never changes: no             *)
(* registration, transfer or setting touches its policy, maximum TTL or    *)
(* parent, and a deprecated one stays deprecated with its creator.         *)
THEOREM RegistryKeepsFaith == Spec => ViewsKeepFaith
<1>1. RegistryInv /\ [Next]_schemaRegistryVars =>
        [\A s \in Schemas : Registered(s) =>
           /\ schema'[s] # None
           /\ schema'[s].policy = schema[s].policy
           /\ schema'[s].max_ttl = schema[s].max_ttl
           /\ schema'[s].parent = schema[s].parent
           /\ s \in deprecated => s \in deprecated' /\ schema'[s].creator = schema[s].creator]_schemaRegistryVars
    BY RegistryNextInv DEF Faith
<1>. QED BY <1>1, RegistryInitInv, RegistryNextInv, PTL DEF Spec, ViewsKeepFaith

------------------------------------------------------------------------------
(* What the registry's readers return: pages and chains.                   *)

(* A set of naturals that is not empty has a least member. *)
LEMMA LeastMember ==
    ASSUME NEW A \in SUBSET Nat, A # {}
    PROVE  \E x \in A : \A y \in A : x <= y
<1>. DEFINE N == {n \in Nat : \A y \in A : n <= y}
<1>1. SUFFICES ASSUME \A x \in A : \E y \in A : ~(x <= y) PROVE FALSE
    OBVIOUS
<1>2. 0 \in N
    OBVIOUS
<1>3. ASSUME NEW n \in N PROVE n + 1 \in N
    <2>1. n \in Nat /\ n \notin A /\ \A y \in A : n <= y
        BY <1>1
    <2>2. \A y \in A : n + 1 <= y
        BY <2>1
    <2>3. n + 1 \in Nat
        BY <2>1
    <2>. QED BY <2>2, <2>3
<1>4. N \in SUBSET Nat
    OBVIOUS
<1>5. N = Nat
    <2>. HIDE DEF N
    <2>. QED BY <1>2, <1>3, <1>4, NatSetInduction
<1>6. PICK y \in A : TRUE
    OBVIOUS
<1>7. y + 1 \in Nat /\ ~(y + 1 <= y)
    OBVIOUS
<1>. QED BY <1>5, <1>6, <1>7

(* Nothing is left of no positions. *)
LEMMA KeptNothing == ASSUME NEW s PROVE Kept(s, {}) = <<>>
<1>1. Cardinality({}) = 0
    BY FS_EmptySet
<1>. QED BY <1>1 DEF Kept

(* A scan ends within the index, and gets on unless it is at the end. *)
LEMMA ScanStops ==
    ASSUME NEW index \in Seq(Schemas), NEW start \in 0..Len(index), NEW limit \in Nat \ {0}
    PROVE  \E stop \in start..Len(index) :
             /\ ScanFrom(index, start, limit) = <<Kept(index, LiveEntries(index, start, stop)), stop>>
             /\ start < Len(index) => start < stop
<1>. DEFINE n == Len(index)
            B == MAX_SCAN_BUDGET
            Stops(end) == \/ end >= Len(index)
                          \/ Cardinality(LiveEntries(index, start, end)) >= limit
                          \/ end - start >= MAX_SCAN_BUDGET
            First(end) == Stops(end) /\ \A e \in start..(end - 1) : ~Stops(e)
            stop == CHOOSE end \in start..(start + MAX_SCAN_BUDGET) : First(end)
            A == {e \in start..(start + MAX_SCAN_BUDGET) : Stops(e)}
<1>1. n \in Nat /\ B \in Nat \ {0} /\ start \in Nat /\ start <= n
    BY RegistryAssumption
<1>2. ScanFrom(index, start, limit) = <<Kept(index, LiveEntries(index, start, stop)), stop>>
    BY DEF ScanFrom
<1>3. \E end \in start..(start + MAX_SCAN_BUDGET) : First(end)
    <2>1. start + B \in A /\ A \in SUBSET Nat
        BY <1>1
    <2>2. PICK x \in A : \A y \in A : x <= y
        <3>. HIDE DEF A
        <3>. QED BY <2>1, LeastMember
    <2>3. ASSUME NEW e \in start..(x - 1) PROVE ~Stops(e)
        <3>1. x \in start..(start + B) /\ x \in Nat
            BY <1>1, <2>2
        <3>2. e \in start..(start + B) /\ ~(x <= e)
            BY <1>1, <3>1
        <3>3. e \notin A
            BY <2>2, <3>2
        <3>. HIDE DEF Stops
        <3>. QED BY <3>2, <3>3
    <2>. QED BY <2>2, <2>3
<1>. HIDE DEF First
<1>4. stop \in start..(start + B) /\ First(stop)
    BY <1>3
<1>. HIDE DEF stop
<1>5. Stops(stop) /\ (\A e \in start..(stop - 1) : ~Stops(e)) /\ stop \in Nat /\ start <= stop
    BY <1>1, <1>4 DEF First
<1>6. stop <= n
    <2>1. SUFFICES ASSUME ~(stop <= n) PROVE FALSE
        OBVIOUS
    <2>2. n \in start..(stop - 1) /\ Stops(n)
        BY <1>1, <1>5, <2>1
    <2>. HIDE DEF Stops
    <2>. QED BY <1>5, <2>2
<1>7. ASSUME start < n PROVE start < stop
    <2>1. LiveEntries(index, start, start) = {}
        BY <1>1 DEF LiveEntries
    <2>2. Cardinality(LiveEntries(index, start, start)) = 0
        BY <2>1, FS_EmptySet
    <2>3. ~Stops(start)
        BY <1>1, <1>7, <2>2
    <2>. HIDE DEF Stops
    <2>4. stop # start
        BY <1>5, <2>3
    <2>. QED BY <1>1, <1>5, <2>4
<1>8. stop \in start..n
    BY <1>1, <1>5, <1>6
<1>. QED BY <1>2, <1>7, <1>8

(* f[k] is what a reader has after k pages of an index. *)
Paging(f, index, limit, n) ==
    f = [k \in 0..n |->
           IF k = 0 THEN <<<<>>, 0>>
           ELSE <<f[k - 1][1] \o ScanFrom(index, f[k - 1][2], limit)[1],
                  ScanFrom(index, f[k - 1][2], limit)[2]>>]

(* The pages can be read. *)
LEMMA PagingExists ==
    ASSUME NEW index, NEW limit, NEW m \in Nat
    PROVE  \E f : Paging(f, index, limit, m)
<1>. DEFINE N == {n \in Nat : \E f : Paging(f, index, limit, n)}
            Step(p) == <<p[1] \o ScanFrom(index, p[2], limit)[1], ScanFrom(index, p[2], limit)[2]>>
<1>1. 0 \in N
    <2>. DEFINE f == [k \in 0..0 |-> <<<<>>, 0>>]
    <2>1. Paging(f, index, limit, 0)
        BY DEF Paging
    <2>. QED BY <2>1
<1>2. ASSUME NEW n \in N PROVE n + 1 \in N
    <2>1. PICK f : Paging(f, index, limit, n)
        OBVIOUS
    <2>. DEFINE g == [k \in 0..(n + 1) |-> IF k = 0 THEN <<<<>>, 0>> ELSE Step(f[k - 1])]
    <2>1a. f = [k \in 0..n |-> IF k = 0 THEN <<<<>>, 0>> ELSE Step(f[k - 1])]
        BY <2>1 DEF Paging
    <2>. HIDE DEF Step
    <2>2. \A k \in 0..n : g[k] = f[k]
        <3>1. \A k \in 0..n : f[k] = IF k = 0 THEN <<<<>>, 0>> ELSE Step(f[k - 1])
            BY <2>1a
        <3>. QED BY <3>1
    <2>3. \A k \in 0..(n + 1) : g[k] = IF k = 0 THEN <<<<>>, 0>> ELSE Step(g[k - 1])
        <3>1. \A k \in 0..(n + 1) : k # 0 => k - 1 \in 0..n
            OBVIOUS
        <3>. QED BY <2>2, <3>1
    <2>4. g = [k \in 0..(n + 1) |-> g[k]]
        OBVIOUS
    <2>. HIDE DEF g
    <2>5. g = [k \in 0..(n + 1) |-> IF k = 0 THEN <<<<>>, 0>> ELSE Step(g[k - 1])]
        BY <2>3, <2>4
    <2>6. Paging(g, index, limit, n + 1)
        BY <2>5 DEF Paging, Step
    <2>. QED BY <2>6
<1>3. N = Nat
    <2>. HIDE DEF N
    <2>1. N \in SUBSET Nat
        BY DEF N
    <2>. QED BY <1>1, <1>2, <2>1, NatSetInduction
<1>. QED BY <1>3

(* After k pages a reader has the live entries up to its cursor, which is  *)
(* past k entries or at the end.                                           *)
LEMMA PagesSoFar ==
    ASSUME NEW index \in Seq(Schemas), NEW limit \in Nat \ {0},
           NEW f, Paging(f, index, limit, Len(index)), NEW n \in 0..Len(index)
    PROVE  \E e \in n..Len(index) : f[n] = <<Kept(index, LiveEntries(index, 0, e)), e>>
<1>. DEFINE N == {k \in Nat : k <= Len(index) =>
                    \E e \in k..Len(index) : f[k] = <<Kept(index, LiveEntries(index, 0, e)), e>>}
            Page(p) == ScanFrom(index, p, limit)
<1>0. Len(index) \in Nat
    OBVIOUS
<1>0a. \A k \in 0..Len(index) :
         f[k] = IF k = 0 THEN <<<<>>, 0>> ELSE <<f[k - 1][1] \o Page(f[k - 1][2])[1], Page(f[k - 1][2])[2]>>
    BY DEF Paging
<1>1. 0 \in N
    <2>1. LiveEntries(index, 0, 0) = {}
        BY DEF LiveEntries
    <2>2. Kept(index, LiveEntries(index, 0, 0)) = <<>>
        BY <2>1, KeptNothing
    <2>3. f[0] = <<<<>>, 0>>
        <3>1. 0 \in 0..Len(index)
            BY <1>0
        <3>. HIDE DEF Page
        <3>. QED BY <1>0a, <3>1
    <2>4. 0 \in 0..Len(index) /\ f[0] = <<Kept(index, LiveEntries(index, 0, 0)), 0>>
        BY <1>0, <2>2, <2>3
    <2>. QED BY <2>4
<1>2. ASSUME NEW k \in N PROVE k + 1 \in N
    <2>. SUFFICES ASSUME k + 1 <= Len(index)
                  PROVE  \E e \in (k + 1)..Len(index) : f[k + 1] = <<Kept(index, LiveEntries(index, 0, e)), e>>
        OBVIOUS
    <2>1. k \in Nat /\ k <= Len(index) /\ k + 1 \in 0..Len(index) /\ k + 1 # 0 /\ (k + 1) - 1 = k
        BY <1>0
    <2>2. PICK e \in k..Len(index) : f[k] = <<Kept(index, LiveEntries(index, 0, e)), e>>
        BY <2>1
    <2>3. e \in 0..Len(index) /\ e \in Nat
        BY <2>1, <2>2
    <2>4. PICK stop \in e..Len(index) :
             /\ Page(e) = <<Kept(index, LiveEntries(index, e, stop)), stop>>
             /\ e < Len(index) => e < stop
        BY <2>3, ScanStops
    <2>5. stop \in Nat /\ stop \in (k + 1)..Len(index)
        BY <1>0, <2>1, <2>2, <2>3, <2>4
    <2>. DEFINE P == LiveEntries(index, 0, e)
                Q == LiveEntries(index, e, stop)
    <2>6. /\ P \in SUBSET (1..Len(index)) /\ Q \in SUBSET (1..Len(index))
          /\ \A x \in P, y \in Q : x < y
          /\ P \cup Q = LiveEntries(index, 0, stop)
        <3>1. 0 + 1 = 1
            OBVIOUS
        <3>2. \A x \in P : x \in 1..e
            BY <3>1 DEF LiveEntries
        <3>3. \A x \in Q : x \in (e + 1)..stop
            BY DEF LiveEntries
        <3>4. \A x : x \in 1..stop <=> x \in 1..e \/ x \in (e + 1)..stop
            BY <2>3, <2>4, <2>5
        <3>5. P \cup Q = LiveEntries(index, 0, stop)
            BY <3>1, <3>4 DEF LiveEntries
        <3>. HIDE DEF P, Q
        <3>. QED BY <1>0, <2>3, <2>4, <2>5, <3>2, <3>3, <3>5
    <2>. HIDE DEF P, Q
    <2>7. Kept(index, P \cup Q) = Kept(index, P) \o Kept(index, Q)
        BY <2>6, KeptJoined
    <2>8. f[k + 1] = <<f[k][1] \o Page(f[k][2])[1], Page(f[k][2])[2]>>
        BY <1>0a, <2>1
    <2>9. f[k][1] = Kept(index, P) /\ f[k][2] = e
        BY <2>2 DEF P
    <2>. HIDE DEF Page
    <2>10. Page(e)[1] = Kept(index, Q) /\ Page(e)[2] = stop
        BY <2>4 DEF Q
    <2>11. f[k + 1] = <<Kept(index, LiveEntries(index, 0, stop)), stop>>
        BY <2>6, <2>7, <2>8, <2>9, <2>10
    <2>. QED BY <2>5, <2>11
<1>3. N = Nat
    <2>. HIDE DEF N
    <2>1. N \in SUBSET Nat
        BY DEF N
    <2>. QED BY <1>1, <1>2, <2>1, NatSetInduction
<1>4. n \in Nat /\ n <= Len(index)
    BY <1>0
<1>5. n \in N
    BY <1>3, <1>4
<1>. QED BY <1>4, <1>5

(* As many pages as there are entries read all of them. *)
LEMMA PagesRead ==
    ASSUME NEW index \in Seq(Schemas), NEW limit \in Nat \ {0},
           NEW f, Paging(f, index, limit, Len(index))
    PROVE  f[Len(index)] = <<Undeprecated(index), Len(index)>>
<1>1. Len(index) \in Nat /\ Len(index) \in 0..Len(index)
    OBVIOUS
<1>2. PICK e \in Len(index)..Len(index) : f[Len(index)] = <<Kept(index, LiveEntries(index, 0, e)), e>>
    BY <1>1, PagesSoFar
<1>3. e = Len(index)
    BY <1>1, <1>2
<1>. QED BY <1>2, <1>3 DEF Undeprecated

(* Every index of schemas is read completely. *)
LEMMA PagesAll ==
    ASSUME order \in Seq(Schemas), catalog \in [Categories -> Seq(Schemas)]
    PROVE  PagesComplete
<1>. SUFFICES ASSUME NEW limit \in 1..(Len(order) + 1)
              PROVE  /\ Pages(GetSchemasPaginated, Len(order), limit) = <<Undeprecated(order), Len(order)>>
                     /\ \A c \in Categories :
                          Pages(LAMBDA k, l : GetSchemasByCategory(c, k, l), Len(catalog[c]), limit) =
                            <<Undeprecated(catalog[c]), Len(catalog[c])>>
    BY DEF PagesComplete
<1>1. limit \in Nat \ {0}
    OBVIOUS
<1>2. ASSUME NEW index \in Seq(Schemas)
      PROVE  (CHOOSE f : Paging(f, index, limit, Len(index)))[Len(index)] = <<Undeprecated(index), Len(index)>>
    <2>1. Len(index) \in Nat
        OBVIOUS
    <2>. DEFINE f == CHOOSE f : Paging(f, index, limit, Len(index))
    <2>2. Paging(f, index, limit, Len(index))
        BY <2>1, PagingExists
    <2>. HIDE DEF f
    <2>3. f[Len(index)] = <<Undeprecated(index), Len(index)>>
        BY <1>1, <2>2, PagesRead
    <2>. QED BY <2>3 DEF f
<1>3. Pages(GetSchemasPaginated, Len(order), limit) =
        (CHOOSE f : Paging(f, order, limit, Len(order)))[Len(order)]
    BY DEF Pages, GetSchemasPaginated, Paging
<1>4. ASSUME NEW c \in Categories
      PROVE  Pages(LAMBDA k, l : GetSchemasByCategory(c, k, l), Len(catalog[c]), limit) =
               (CHOOSE f : Paging(f, catalog[c], limit, Len(catalog[c])))[Len(catalog[c])]
    BY DEF Pages, GetSchemasByCategory, Paging
<1>5. \A c \in Categories : catalog[c] \in Seq(Schemas)
    OBVIOUS
<1>. QED BY <1>2, <1>3, <1>4, <1>5

------------------------------------------------------------------------------
(* Chains.                                                                 *)

(* c leads from s along the links, to an end or n links far. *)
Linked(link, s, n, c) ==
    /\ c \in Seq(Schemas) /\ Len(c) \in 1..(n + 1) /\ c[1] = s
    /\ \A i \in 1..(Len(c) - 1) : link[c[i]] # None /\ c[i + 1] = link[c[i]]
    /\ Len(c) = n + 1 \/ link[c[Len(c)]] = None

(* One more link, if there is one. *)
Longer(link, c, i) ==
    IF Len(c) < i \/ link[c[Len(c)]] = None THEN c ELSE Append(c, link[c[Len(c)]])

(* f[i] is what Chain has after i links. *)
Walking(f, link, s, n) == f = [i \in 0..n |-> IF i = 0 THEN <<s>> ELSE Longer(link, f[i - 1], i)]

(* The links can be followed. *)
LEMMA WalkingExists ==
    ASSUME NEW link, NEW s, NEW m \in Nat
    PROVE  \E f : Walking(f, link, s, m)
<1>. DEFINE N == {n \in Nat : \E f : Walking(f, link, s, n)}
<1>1. 0 \in N
    <2>. DEFINE f == [i \in 0..0 |-> <<s>>]
    <2>1. Walking(f, link, s, 0)
        BY DEF Walking
    <2>. QED BY <2>1
<1>2. ASSUME NEW n \in N PROVE n + 1 \in N
    <2>1. PICK f : Walking(f, link, s, n)
        OBVIOUS
    <2>. DEFINE g == [i \in 0..(n + 1) |-> IF i = 0 THEN <<s>> ELSE Longer(link, f[i - 1], i)]
    <2>2. \A i \in 0..n : g[i] = f[i]
        <3>1. \A i \in 0..n : f[i] = IF i = 0 THEN <<s>> ELSE Longer(link, f[i - 1], i)
            BY <2>1 DEF Walking
        <3>. QED BY <3>1
    <2>3. \A i \in 0..(n + 1) : g[i] = IF i = 0 THEN <<s>> ELSE Longer(link, g[i - 1], i)
        <3>1. \A i \in 0..(n + 1) : i # 0 => i - 1 \in 0..n
            OBVIOUS
        <3>. QED BY <2>2, <3>1
    <2>4. g = [i \in 0..(n + 1) |-> g[i]]
        OBVIOUS
    <2>. HIDE DEF g
    <2>5. Walking(g, link, s, n + 1)
        BY <2>3, <2>4 DEF Walking
    <2>. QED BY <2>5
<1>3. N = Nat
    <2>. HIDE DEF N
    <2>1. N \in SUBSET Nat
        BY DEF N
    <2>. QED BY <1>1, <1>2, <2>1, NatSetInduction
<1>. QED BY <1>3

(* What they lead to. *)
LEMMA WalkingLinked ==
    ASSUME NEW link \in [Schemas -> Schemas \cup {None}], NEW s \in Schemas, NEW m \in Nat,
           NEW f, Walking(f, link, s, m), NEW n \in 0..m
    PROVE  Linked(link, s, n, f[n])
<1>. DEFINE N == {i \in Nat : i <= m => Linked(link, s, i, f[i])}
<1>1. 0 \in N
    <2>1. f[0] = <<s>>
        <3>1. 0 \in 0..m
            OBVIOUS
        <3>. QED BY <3>1 DEF Walking
    <2>2. Linked(link, s, 0, <<s>>)
        BY DEF Linked
    <2>. QED BY <2>1, <2>2
<1>2. ASSUME NEW i \in N PROVE i + 1 \in N
    <2>. SUFFICES ASSUME i + 1 <= m PROVE Linked(link, s, i + 1, f[i + 1])
        OBVIOUS
    <2>1. i \in Nat /\ i <= m /\ i + 1 \in 0..m /\ i + 1 # 0 /\ (i + 1) - 1 = i
        OBVIOUS
    <2>. DEFINE c == f[i]
                d == f[i + 1]
                top == link[c[Len(c)]]
    <2>2. d = Longer(link, c, i + 1)
        BY <2>1 DEF Walking
    <2>3. /\ c \in Seq(Schemas) /\ Len(c) \in 1..(i + 1) /\ c[1] = s
          /\ \A j \in 1..(Len(c) - 1) : link[c[j]] # None /\ c[j + 1] = link[c[j]]
          /\ Len(c) = i + 1 \/ top = None
        BY <2>1 DEF Linked
    <2>4. c[Len(c)] \in Schemas /\ top \in Schemas \cup {None}
        BY <2>1, <2>3
    <2>. HIDE DEF c, d, top
    <2>5. CASE Len(c) < i + 1 \/ top = None
        <3>1. d = c /\ top = None
            BY <2>1, <2>2, <2>3, <2>5 DEF Longer, top
        <3>2. Len(c) \in 1..((i + 1) + 1)
            BY <2>1, <2>3
        <3>3. Linked(link, s, i + 1, c)
            BY <2>3, <3>1, <3>2 DEF Linked, top
        <3>. QED BY <3>1, <3>3 DEF d
    <2>6. CASE ~(Len(c) < i + 1 \/ top = None)
        <3>1. d = Append(c, top) /\ Len(c) = i + 1 /\ top \in Schemas /\ top # None
            BY <2>1, <2>2, <2>3, <2>4, <2>6 DEF Longer, top
        <3>2. /\ d \in Seq(Schemas) /\ Len(d) = (i + 1) + 1 /\ d[(i + 1) + 1] = top
              /\ \A j \in 1..(i + 1) : d[j] = c[j]
            BY <2>1, <2>3, <3>1
        <3>3. 1 \in 1..(i + 1) /\ Len(d) \in 1..((i + 1) + 1)
            BY <2>1, <3>2
        <3>4. ASSUME NEW j \in 1..(Len(d) - 1) PROVE link[d[j]] # None /\ d[j + 1] = link[d[j]]
            <4>1. CASE j = i + 1
                <5>1. d[j] = c[Len(c)] /\ d[j + 1] = top
                    BY <2>1, <3>1, <3>2, <4>1
                <5>. QED BY <3>1, <5>1 DEF top
            <4>2. CASE j # i + 1
                <5>1. j \in 1..(i + 1) /\ j + 1 \in 1..(i + 1) /\ j \in 1..(Len(c) - 1)
                    BY <2>1, <3>1, <3>2, <4>2
                <5>2. d[j] = c[j] /\ d[j + 1] = c[j + 1]
                    BY <3>2, <5>1
                <5>. QED BY <2>3, <5>1, <5>2
            <4>. QED BY <4>1, <4>2
        <3>5. Linked(link, s, i + 1, d)
            BY <2>1, <2>3, <3>2, <3>3, <3>4 DEF Linked
        <3>. QED BY <3>5 DEF d
    <2>. QED BY <2>5, <2>6
<1>3. N = Nat
    <2>. HIDE DEF N
    <2>1. N \in SUBSET Nat
        BY DEF N
    <2>. QED BY <1>1, <1>2, <2>1, NatSetInduction
<1>4. n \in Nat /\ n <= m
    OBVIOUS
<1>5. n \in N
    BY <1>3, <1>4
<1>. QED BY <1>4, <1>5

(* Chain follows the links. *)
LEMMA ChainLinked ==
    ASSUME NEW link \in [Schemas -> Schemas \cup {None}], NEW s \in Schemas, NEW n \in Nat
    PROVE  Linked(link, s, n, Chain(link, s, n))
<1>. DEFINE f == CHOOSE f : Walking(f, link, s, n)
<1>1. Walking(f, link, s, n)
    BY WalkingExists
<1>2. Chain(link, s, n) = f[n]
    BY DEF Chain, Walking, Longer
<1>3. n \in 0..n
    OBVIOUS
<1>. HIDE DEF f
<1>. QED BY <1>1, <1>2, <1>3, WalkingLinked

(* There is one way to follow them. *)
LEMMA LinkedOnce ==
    ASSUME NEW link, NEW s, NEW n \in Nat, NEW c, Linked(link, s, n, c), NEW d, Linked(link, s, n, d)
    PROVE  c = d
<1>. DEFINE N == {i \in Nat : i + 1 <= Len(c) /\ i + 1 <= Len(d) => c[i + 1] = d[i + 1]}
<1>0. /\ c \in Seq(Schemas) /\ Len(c) \in 1..(n + 1) /\ c[1] = s
      /\ \A i \in 1..(Len(c) - 1) : link[c[i]] # None /\ c[i + 1] = link[c[i]]
      /\ Len(c) = n + 1 \/ link[c[Len(c)]] = None
      /\ d \in Seq(Schemas) /\ Len(d) \in 1..(n + 1) /\ d[1] = s
      /\ \A i \in 1..(Len(d) - 1) : link[d[i]] # None /\ d[i + 1] = link[d[i]]
      /\ Len(d) = n + 1 \/ link[d[Len(d)]] = None
    BY DEF Linked
<1>0a. Len(c) \in Nat \ {0} /\ Len(d) \in Nat \ {0} /\ Len(c) <= n + 1 /\ Len(d) <= n + 1
    BY <1>0
<1>1. 0 \in N
    BY <1>0
<1>2. ASSUME NEW i \in N PROVE i + 1 \in N
    <2>. SUFFICES ASSUME (i + 1) + 1 <= Len(c), (i + 1) + 1 <= Len(d) PROVE c[(i + 1) + 1] = d[(i + 1) + 1]
        OBVIOUS
    <2>1. i + 1 \in 1..(Len(c) - 1) /\ i + 1 \in 1..(Len(d) - 1) /\ i + 1 <= Len(c) /\ i + 1 <= Len(d)
        BY <1>0a
    <2>2. c[i + 1] = d[i + 1]
        BY <2>1
    <2>. QED BY <1>0, <2>1, <2>2
<1>3. N = Nat
    <2>. HIDE DEF N
    <2>1. N \in SUBSET Nat
        BY DEF N
    <2>. QED BY <1>1, <1>2, <2>1, NatSetInduction
<1>4. ASSUME NEW i \in 1..Len(c), i <= Len(d) PROVE c[i] = d[i]
    <2>0. i - 1 \in Nat /\ (i - 1) + 1 = i /\ i <= Len(c)
        BY <1>0a
    <2>1. i - 1 \in N
        <3>. HIDE DEF N
        <3>. QED BY <2>0, <1>3
    <2>. QED BY <1>4, <2>0, <2>1
<1>5. ~(Len(c) < Len(d))
    <2>. SUFFICES ASSUME Len(c) < Len(d) PROVE FALSE
        OBVIOUS
    <2>1. Len(c) \in 1..(Len(d) - 1) /\ Len(c) # n + 1 /\ Len(c) \in 1..Len(c) /\ Len(c) <= Len(d)
        BY <1>0a
    <2>2. c[Len(c)] = d[Len(c)]
        BY <1>4, <2>1
    <2>. QED BY <1>0, <2>1, <2>2
<1>6. ~(Len(d) < Len(c))
    <2>. SUFFICES ASSUME Len(d) < Len(c) PROVE FALSE
        OBVIOUS
    <2>1. Len(d) \in 1..(Len(c) - 1) /\ Len(d) # n + 1 /\ Len(d) \in 1..Len(c) /\ Len(d) <= Len(d)
        BY <1>0a
    <2>2. c[Len(d)] = d[Len(d)]
        BY <1>4, <2>1
    <2>. QED BY <1>0, <2>1, <2>2
<1>7. Len(c) = Len(d) /\ \A i \in 1..Len(c) : c[i] = d[i]
    BY <1>0a, <1>4, <1>5, <1>6
<1>. QED BY <1>0, <1>7

(* Chains grow at the front only: links of R stay in R, and remain. *)
LEMMA ChainKept ==
    ASSUME NEW link \in [Schemas -> Schemas \cup {None}], NEW more \in [Schemas -> Schemas \cup {None}],
           NEW R \in SUBSET Schemas, \A x \in R : link[x] \in R \cup {None} /\ more[x] = link[x],
           NEW s \in R, NEW n \in Nat
    PROVE  /\ Chain(more, s, n) = Chain(link, s, n)
           /\ \A i \in 1..Len(Chain(link, s, n)) : Chain(link, s, n)[i] \in R
<1>. DEFINE c == Chain(link, s, n)
<1>1. Linked(link, s, n, c) /\ Linked(more, s, n, Chain(more, s, n))
    BY ChainLinked
<1>. HIDE DEF c
<1>2. /\ c \in Seq(Schemas) /\ Len(c) \in 1..(n + 1) /\ c[1] = s
      /\ \A i \in 1..(Len(c) - 1) : link[c[i]] # None /\ c[i + 1] = link[c[i]]
      /\ Len(c) = n + 1 \/ link[c[Len(c)]] = None
    BY <1>1 DEF Linked
<1>. DEFINE N == {i \in Nat : i + 1 <= Len(c) => c[i + 1] \in R}
<1>3. 0 \in N
    BY <1>2
<1>4. ASSUME NEW i \in N PROVE i + 1 \in N
    <2>. SUFFICES ASSUME (i + 1) + 1 <= Len(c) PROVE c[(i + 1) + 1] \in R
        OBVIOUS
    <2>1. i + 1 \in 1..(Len(c) - 1) /\ i + 1 <= Len(c)
        BY <1>2
    <2>2. c[i + 1] \in R
        BY <2>1
    <2>. QED BY <1>2, <2>1, <2>2
<1>5. N = Nat
    <2>. HIDE DEF N
    <2>1. N \in SUBSET Nat
        BY DEF N
    <2>. QED BY <1>3, <1>4, <2>1, NatSetInduction
<1>6. ASSUME NEW i \in 1..Len(c) PROVE c[i] \in R
    <2>0. i - 1 \in Nat /\ (i - 1) + 1 = i /\ i <= Len(c)
        BY <1>2
    <2>1. i - 1 \in N
        <3>. HIDE DEF N
        <3>. QED BY <2>0, <1>5
    <2>. QED BY <2>0, <2>1
<1>7. Linked(more, s, n, c)
    <2>1. \A i \in 1..(Len(c) - 1) : i \in 1..Len(c)
        BY <1>2
    <2>2. Len(c) \in 1..Len(c)
        BY <1>2
    <2>3. \A i \in 1..Len(c) : more[c[i]] = link[c[i]]
        BY <1>6
    <2>. QED BY <1>2, <2>1, <2>2, <2>3 DEF Linked
<1>8. Chain(more, s, n) = c
    BY <1>1, <1>7, LinkedOnce
<1>. QED BY <1>6, <1>8 DEF c

(* A chain begins with s and goes on with the chain of what s links to. *)
LEMMA ChainOfNew ==
    ASSUME NEW more \in [Schemas -> Schemas \cup {None}], NEW s \in Schemas, NEW n \in Nat,
           more[s] # None, Len(Chain(more, more[s], n)) <= n
    PROVE  Len(Chain(more, s, n)) = Len(Chain(more, more[s], n)) + 1
<1>. DEFINE p == more[s]
            c == Chain(more, p, n)
            d == <<s>> \o c
<1>1. p \in Schemas
    OBVIOUS
<1>2. Linked(more, p, n, c) /\ Linked(more, s, n, Chain(more, s, n))
    BY <1>1, ChainLinked
<1>3. p # None /\ Len(c) <= n /\ p = more[s]
    OBVIOUS
<1>. HIDE DEF c, p
<1>4. /\ c \in Seq(Schemas) /\ Len(c) \in 1..(n + 1) /\ c[1] = p
      /\ \A i \in 1..(Len(c) - 1) : more[c[i]] # None /\ c[i + 1] = more[c[i]]
      /\ more[c[Len(c)]] = None
    BY <1>2, <1>3 DEF Linked
<1>5. /\ d \in Seq(Schemas) /\ Len(d) = Len(c) + 1 /\ d[1] = s
      /\ \A i \in 1..Len(c) : d[i + 1] = c[i]
    BY <1>4
<1>. HIDE DEF d
<1>6. Linked(more, s, n, d)
    <2>1. ASSUME NEW i \in 1..(Len(d) - 1) PROVE more[d[i]] # None /\ d[i + 1] = more[d[i]]
        <3>1. i \in 1..Len(c) /\ d[i + 1] = c[i]
            BY <1>4, <1>5
        <3>2. CASE i = 1
            BY <1>3, <1>4, <1>5, <3>1, <3>2
        <3>3. CASE i # 1
            <4>1. i - 1 \in 1..(Len(c) - 1) /\ i - 1 \in 1..Len(c) /\ (i - 1) + 1 = i
                BY <1>4, <3>1, <3>3
            <4>2. d[i] = c[i - 1]
                BY <1>5, <4>1
            <4>. QED BY <1>4, <3>1, <4>1, <4>2
        <3>. QED BY <3>2, <3>3
    <2>2. d[Len(d)] = c[Len(c)] /\ Len(d) \in 1..(n + 1)
        BY <1>3, <1>4, <1>5
    <2>. QED BY <1>4, <1>5, <2>1, <2>2 DEF Linked
<1>7. Chain(more, s, n) = d
    BY <1>2, <1>6, LinkedOnce
<1>. QED BY <1>5, <1>7 DEF c, p

(* Without a link, s is its chain. *)
LEMMA ChainOfRoot ==
    ASSUME NEW more \in [Schemas -> Schemas \cup {None}], NEW s \in Schemas, NEW n \in Nat,
           more[s] = None
    PROVE  Len(Chain(more, s, n)) = 1
<1>1. Linked(more, s, n, Chain(more, s, n))
    BY ChainLinked
<1>2. Linked(more, s, n, <<s>>)
    BY DEF Linked
<1>3. Chain(more, s, n) = <<s>>
    BY <1>1, <1>2, LinkedOnce
<1>. QED BY <1>3

------------------------------------------------------------------------------
(* The registry's index lists the registered schemas, each once, and every *)
(* link leads to an earlier entry.                                         *)

(* What s links to comes before s, and its chain is not cut off. *)
Rooted(ord, link, s, n) ==
    /\ link[s] # None => \E i, j \in 1..Len(ord) : ord[i] = link[s] /\ ord[j] = s /\ i < j
    /\ Len(Chain(link, s, n)) <= n

(* So what R links to has the chains it had. *)
LEMMA ChainsKept ==
    ASSUME NEW link \in [Schemas -> Schemas \cup {None}], NEW more \in [Schemas -> Schemas \cup {None}],
           NEW R \in SUBSET Schemas, \A x \in R : link[x] \in R \cup {None} /\ more[x] = link[x],
           NEW n \in Nat
    PROVE  \A x \in R : Chain(more, x, n) = Chain(link, x, n)
<1>. TAKE x \in R
<1>. QED BY ChainKept

(* Entries that are added at the end, whose links lead to chains with room *)
(* for one more, leave all rooted.                                         *)
LEMMA StillRooted ==
    ASSUME NEW ord \in Seq(Schemas), NEW q \in Seq(Schemas), NEW n \in Nat \ {0},
           NEW link \in [Schemas -> Schemas \cup {None}], NEW more \in [Schemas -> Schemas \cup {None}],
           NEW R \in SUBSET Schemas, \A x : x \in R <=> \E i \in 1..Len(ord) : ord[i] = x,
           \A x \in R : more[x] = link[x] /\ Rooted(ord, link, x, n),
           \A i \in 1..Len(q) : more[q[i]] # None =>
             more[q[i]] \in R /\ Len(Chain(link, more[q[i]], n)) < n
    PROVE  /\ \A x \in R : Rooted(ord \o q, more, x, n)
           /\ \A i \in 1..Len(q) : Rooted(ord \o q, more, q[i], n)
<1>. DEFINE o == ord \o q
            m == Len(ord)
<1>1. /\ m \in Nat /\ Len(q) \in Nat /\ Len(o) = m + Len(q)
      /\ \A i \in 1..m : i \in 1..Len(o) /\ o[i] = ord[i]
      /\ \A i \in 1..Len(q) : m + i \in 1..Len(o) /\ o[m + i] = q[i]
    OBVIOUS
<1>2. R \in SUBSET Schemas /\ \A x \in R : link[x] \in R \cup {None} /\ more[x] = link[x]
    BY DEF Rooted
<1>. HIDE DEF o, m
<1>3. \A x \in R : Chain(more, x, n) = Chain(link, x, n)
    <2>1. n \in Nat /\ R \in SUBSET Schemas
        BY <1>2
    <2>2. \A y \in R : link[y] \in R \cup {None} /\ more[y] = link[y]
        BY <1>2
    <2>. QED BY <2>1, <2>2, ChainsKept
<1>4. ASSUME NEW x \in R PROVE Rooted(o, more, x, n)
    <2>1. more[x] = link[x] /\ Rooted(ord, link, x, n) /\ Chain(more, x, n) = Chain(link, x, n)
        BY <1>3
    <2>2. ASSUME more[x] # None PROVE \E i, j \in 1..Len(o) : o[i] = more[x] /\ o[j] = x /\ i < j
        <3>1. PICK i \in 1..m, j \in 1..m : ord[i] = link[x] /\ ord[j] = x /\ i < j
            BY <2>1, <2>2 DEF Rooted, m
        <3>. QED BY <1>1, <2>1, <3>1
    <2>. QED BY <2>1, <2>2 DEF Rooted
<1>5. ASSUME NEW k \in 1..Len(q) PROVE Rooted(o, more, q[k], n)
    <2>. DEFINE x == q[k]
                p == more[x]
    <2>1. x \in Schemas /\ p \in Schemas \cup {None} /\ p = more[x]
        OBVIOUS
    <2>2. p # None => p \in R /\ Len(Chain(link, p, n)) < n
        OBVIOUS
    <2>3. m + k \in 1..Len(o) /\ o[m + k] = x /\ k \in 1..Len(q)
        BY <1>1
    <2>. HIDE DEF x, p
    <2>4. CASE p = None
        <3>1. Len(Chain(more, x, n)) = 1
            <4>1. more[x] = None /\ n \in Nat
                BY <2>1, <2>4
            <4>. QED BY <2>1, <4>1, ChainOfRoot
        <3>2. Len(Chain(more, x, n)) <= n
            BY <3>1
        <3>3. Rooted(o, more, x, n)
            BY <2>1, <2>4, <3>2 DEF Rooted
        <3>. QED BY <3>3 DEF x
    <2>5. CASE p # None
        <3>1. p \in R /\ Len(Chain(more, p, n)) < n /\ p \in Schemas
            BY <1>2, <1>3, <2>2, <2>5
        <3>2. Len(Chain(more, p, n)) \in Nat
            <4>1. Linked(more, p, n, Chain(more, p, n))
                BY <3>1, ChainLinked
            <4>. QED BY <4>1 DEF Linked
        <3>3. Len(Chain(more, x, n)) = Len(Chain(more, p, n)) + 1
            <4>1. Len(Chain(more, more[x], n)) <= n /\ more[x] # None
                BY <2>1, <2>5, <3>1, <3>2
            <4>. QED BY <2>1, <4>1, ChainOfNew
        <3>4. Len(Chain(more, x, n)) <= n
            BY <3>1, <3>2, <3>3
        <3>5. \E i, j \in 1..Len(o) : o[i] = more[x] /\ o[j] = x /\ i < j
            <4>1. PICK i \in 1..m : ord[i] = p
                BY <3>1 DEF m
            <4>2. i < m + k
                BY <1>1, <4>1
            <4>. QED BY <1>1, <2>1, <2>3, <4>1, <4>2
        <3>6. Rooted(o, more, x, n)
            BY <3>4, <3>5 DEF Rooted
        <3>. QED BY <3>6 DEF x
    <2>. QED BY <2>4, <2>5
<1>. QED BY <1>4, <1>5 DEF o

(* The chain c goes back through ord to a root. *)
ComesFromRoot(ord, link, c, n) ==
    /\ Len(c) \in 1..n /\ link[c[Len(c)]] = None
    /\ \A k \in 1..(Len(c) - 1) :
         \E i, j \in 1..Len(ord) : ord[i] = c[k + 1] /\ ord[j] = c[k] /\ i < j

(* The chain of a rooted one goes back through the index to a root. *)
LEMMA RootedChain ==
    ASSUME NEW ord \in Seq(Schemas), NEW n \in Nat, NEW link \in [Schemas -> Schemas \cup {None}],
           NEW R \in SUBSET Schemas, \A x : x \in R <=> \E i \in 1..Len(ord) : ord[i] = x,
           \A x \in R : Rooted(ord, link, x, n), NEW s \in R
    PROVE  ComesFromRoot(ord, link, Chain(link, s, n), n)
<1>. DEFINE c == Chain(link, s, n)
<1>1. R \in SUBSET Schemas /\ s \in Schemas /\ \A x \in R : link[x] \in R \cup {None} /\ link[x] = link[x]
    BY DEF Rooted
<1>2. Linked(link, s, n, c) /\ Len(c) <= n
    BY <1>1, ChainLinked DEF Rooted
<1>3. \A i \in 1..Len(c) : c[i] \in R
    BY <1>1, ChainKept
<1>. HIDE DEF c
<1>4. /\ Len(c) \in 1..n /\ link[c[Len(c)]] = None
      /\ \A i \in 1..(Len(c) - 1) : link[c[i]] # None /\ c[i + 1] = link[c[i]]
    BY <1>2 DEF Linked
<1>5. ASSUME NEW k \in 1..(Len(c) - 1)
      PROVE  \E i, j \in 1..Len(ord) : ord[i] = c[k + 1] /\ ord[j] = c[k] /\ i < j
    <2>1. k \in 1..Len(c)
        BY <1>4
    <2>2. Rooted(ord, link, c[k], n)
        BY <1>3, <2>1
    <2>. QED BY <1>4, <2>2 DEF Rooted
<1>. QED BY <1>4, <1>5 DEF c, ComesFromRoot

(* The sequence of those listed without repetition. *)
Once(q) == \A i, j \in 1..Len(q) : q[i] = q[j] => i = j

(* The registered schemas are in the index, once, and all their lineages   *)
(* and histories are rooted.                                               *)
IndexInv ==
    /\ order \in Seq(Schemas) /\ Once(order)
    /\ catalog \in [Categories -> Seq(Schemas)]
    /\ \A s \in Schemas : Registered(s) <=> \E i \in 1..Len(order) : order[i] = s
    /\ \A s \in Schemas : Registered(s) =>
         /\ Rooted(order, Parents, s, MAX_SCHEMA_LINEAGE_DEPTH + 1)
         /\ Rooted(order, Predecessors, s, MAX_SCHEMA_HISTORY_DEPTH)

(* What a new schema may link to: the chain has room for one more. *)
Open(link, p, n) == p # None => p \in Schemas /\ Registered(p) /\ Len(Chain(link, p, n)) < n

(* The step registers the schemas of q, in this order. *)
Enrols(q) ==
    /\ q \in Seq(Schemas) /\ Once(q)
    /\ \A i \in 1..Len(q) : ~Registered(q[i])
    /\ order' = order \o q
    /\ catalog' \in [Categories -> Seq(Schemas)]
    /\ \A s \in Schemas : schema'[s] # None <=> Registered(s) \/ \E i \in 1..Len(q) : q[i] = s
    /\ \A i \in 1..Len(q) :
         /\ Open(Parents, schema'[q[i]].parent, MAX_SCHEMA_LINEAGE_DEPTH + 1)
         /\ Open(Predecessors, schema'[q[i]].predecessor, MAX_SCHEMA_HISTORY_DEPTH)

(* The links of the records. *)
LEMMA LinkTypes ==
    ASSUME NEW f \in [Schemas -> SchemaRecord \cup {None}]
    PROVE  /\ [s \in Schemas |-> IF f[s] # None THEN f[s].parent ELSE None] \in [Schemas -> Schemas \cup {None}]
           /\ [s \in Schemas |-> IF f[s] # None THEN f[s].predecessor ELSE None] \in [Schemas -> Schemas \cup {None}]
<1>1. ASSUME NEW s \in Schemas, f[s] # None
      PROVE  f[s].parent \in Schemas \cup {None} /\ f[s].predecessor \in Schemas \cup {None}
    <2>1. f[s] \in SchemaRecord
        BY <1>1
    <2>. QED BY <2>1 DEF SchemaRecord
<1>. QED BY <1>1

(* Registering keeps the index. *)
LEMMA EnrolKeepsIndex ==
    ASSUME RegistryTypeOK, RegistryTypeOK', Faith, IndexInv, NEW q, Enrols(q)
    PROVE  IndexInv'
<1>. DEFINE R == {order[i] : i \in 1..Len(order)}
            L == MAX_SCHEMA_LINEAGE_DEPTH + 1
            H == MAX_SCHEMA_HISTORY_DEPTH
            o == order'
            m == Len(order)
<1>1. /\ q \in Seq(Schemas) /\ order \in Seq(Schemas) /\ o = order \o q /\ L \in Nat \ {0} /\ H \in Nat \ {0}
      /\ catalog' \in [Categories -> Seq(Schemas)]
    BY RegistryAssumption DEF Enrols, IndexInv
<1>2. \A s \in Schemas : Registered(s) <=> s \in R
    BY DEF IndexInv
<1>2a. R \in SUBSET Schemas
    BY <1>1
<1>3. /\ m \in Nat /\ Len(q) \in Nat /\ o \in Seq(Schemas) /\ Len(o) = m + Len(q)
      /\ \A i \in 1..m : i \in 1..Len(o) /\ o[i] = order[i]
      /\ \A i \in 1..Len(q) : m + i \in 1..Len(o) /\ o[m + i] = q[i]
    BY <1>1
<1>4. \A k \in 1..Len(o) : k \in 1..m \/ (k - m \in 1..Len(q) /\ o[k] = q[k - m])
    BY <1>1, <1>3
<1>5. Once(o)
    <2>. SUFFICES ASSUME NEW j \in 1..Len(o), NEW k \in 1..Len(o), o[j] = o[k] PROVE j = k
        BY DEF Once
    <2>1. \A i \in 1..m : order[i] \in R
        OBVIOUS
    <2>2. \A i \in 1..Len(q) : q[i] \in Schemas /\ q[i] \notin R
        BY <1>1, <1>2 DEF Enrols
    <2>3. \A a, b \in 1..m : order[a] = order[b] => a = b
        BY DEF IndexInv, Once
    <2>4. \A a, b \in 1..Len(q) : q[a] = q[b] => a = b
        BY DEF Enrols, Once
    <2>. HIDE DEF R, o, m
    <2>5. CASE j \in 1..m /\ k \in 1..m
        BY <1>3, <2>3, <2>5
    <2>6. CASE j \notin 1..m /\ k \notin 1..m
        <3>1. j - m \in 1..Len(q) /\ k - m \in 1..Len(q) /\ q[j - m] = q[k - m]
            BY <1>4, <2>6
        <3>2. j - m = k - m
            BY <2>4, <3>1
        <3>. QED BY <1>3, <3>2
    <2>7. CASE j \in 1..m /\ k \notin 1..m
        BY <1>3, <1>4, <2>1, <2>2, <2>7
    <2>8. CASE j \notin 1..m /\ k \in 1..m
        BY <1>3, <1>4, <2>1, <2>2, <2>8
    <2>. QED BY <2>5, <2>6, <2>7, <2>8
<1>6. \A s \in Schemas : schema'[s] # None <=> s \in R \/ \E i \in 1..Len(q) : q[i] = s
    BY <1>2 DEF Enrols
<1>7. \A s : (\E k \in 1..Len(o) : o[k] = s) <=> s \in R \/ \E i \in 1..Len(q) : q[i] = s
    <2>1. \A s \in R : \E i \in 1..m : order[i] = s
        OBVIOUS
    <2>2. \A i \in 1..m : order[i] \in R
        OBVIOUS
    <2>3. ASSUME NEW s \in R PROVE \E k \in 1..Len(o) : o[k] = s
        BY <1>3, <2>1
    <2>. HIDE DEF R, o, m
    <2>4. ASSUME NEW i \in 1..Len(q) PROVE \E k \in 1..Len(o) : o[k] = q[i]
        BY <1>3
    <2>5. ASSUME NEW k \in 1..Len(o) PROVE o[k] \in R \/ \E i \in 1..Len(q) : q[i] = o[k]
        BY <1>3, <1>4, <2>2
    <2>. QED BY <2>3, <2>4, <2>5
<1>8. /\ Parents \in [Schemas -> Schemas \cup {None}] /\ Predecessors \in [Schemas -> Schemas \cup {None}]
      /\ Parents' \in [Schemas -> Schemas \cup {None}] /\ Predecessors' \in [Schemas -> Schemas \cup {None}]
    <2>1. /\ schema \in [Schemas -> SchemaRecord \cup {None}]
          /\ schema' \in [Schemas -> SchemaRecord \cup {None}]
        BY DEF RegistryTypeOK
    <2>. QED BY <2>1, LinkTypes DEF Parents, Predecessors, Registered
<1>9. \A x \in R : /\ Parents'[x] = Parents[x] /\ Predecessors'[x] = Predecessors[x]
                   /\ Rooted(order, Parents, x, L) /\ Rooted(order, Predecessors, x, H)
    <2>1. \A x \in R : x \in Schemas /\ Registered(x) /\ schema'[x] # None
        BY <1>2, <1>2a, <1>6
    <2>2. \A x \in R : schema'[x].parent = schema[x].parent /\ schema'[x].predecessor = schema[x].predecessor
        BY <2>1 DEF Faith
    <2>3. \A x \in R : Parents'[x] = Parents[x] /\ Predecessors'[x] = Predecessors[x]
        BY <2>1, <2>2 DEF Parents, Predecessors, Registered
    <2>. QED BY <2>1, <2>3 DEF IndexInv
<1>10. \A i \in 1..Len(q) :
         /\ Parents'[q[i]] # None => Parents'[q[i]] \in R /\ Len(Chain(Parents, Parents'[q[i]], L)) < L
         /\ Predecessors'[q[i]] # None =>
              Predecessors'[q[i]] \in R /\ Len(Chain(Predecessors, Predecessors'[q[i]], H)) < H
    <2>1. ASSUME NEW i \in 1..Len(q)
          PROVE  /\ Parents'[q[i]] = schema'[q[i]].parent /\ Predecessors'[q[i]] = schema'[q[i]].predecessor
                 /\ Open(Parents, schema'[q[i]].parent, L) /\ Open(Predecessors, schema'[q[i]].predecessor, H)
        <3>1. q[i] \in Schemas /\ schema'[q[i]] # None
            BY <1>1, <1>6
        <3>2. Open(Parents, schema'[q[i]].parent, L) /\ Open(Predecessors, schema'[q[i]].predecessor, H)
            BY DEF Enrols
        <3>3. Parents'[q[i]] = schema'[q[i]].parent /\ Predecessors'[q[i]] = schema'[q[i]].predecessor
            BY <3>1 DEF Parents, Predecessors, Registered
        <3>. QED BY <3>2, <3>3
    <2>. HIDE DEF R, L, H
    <2>. QED BY <1>2, <2>1 DEF Open
<1>11. /\ \A x \in R : Rooted(o, Parents', x, L)
       /\ \A i \in 1..Len(q) : Rooted(o, Parents', q[i], L)
    <2>. DEFINE link == Parents
                more == Parents'
    <2>1. link \in [Schemas -> Schemas \cup {None}] /\ more \in [Schemas -> Schemas \cup {None}]
        BY <1>8
    <2>2. \A x \in R : more[x] = link[x] /\ Rooted(order, link, x, L)
        BY <1>9
    <2>3. \A i \in 1..Len(q) : more[q[i]] # None => more[q[i]] \in R /\ Len(Chain(link, more[q[i]], L)) < L
        BY <1>10
    <2>4. R \in SUBSET Schemas /\ \A x : x \in R <=> \E i \in 1..Len(order) : order[i] = x
        BY <1>2a
    <2>. HIDE DEF R, L, o, link, more
    <2>5. /\ \A x \in R : Rooted(order \o q, more, x, L)
          /\ \A i \in 1..Len(q) : Rooted(order \o q, more, q[i], L)
        BY <1>1, <2>1, <2>2, <2>3, <2>4, StillRooted
    <2>. QED BY <1>1, <2>5 DEF more
<1>12. /\ \A x \in R : Rooted(o, Predecessors', x, H)
       /\ \A i \in 1..Len(q) : Rooted(o, Predecessors', q[i], H)
    <2>. DEFINE link == Predecessors
                more == Predecessors'
    <2>1. link \in [Schemas -> Schemas \cup {None}] /\ more \in [Schemas -> Schemas \cup {None}]
        BY <1>8
    <2>2. \A x \in R : more[x] = link[x] /\ Rooted(order, link, x, H)
        BY <1>9
    <2>3. \A i \in 1..Len(q) : more[q[i]] # None => more[q[i]] \in R /\ Len(Chain(link, more[q[i]], H)) < H
        BY <1>10
    <2>4. R \in SUBSET Schemas /\ \A x : x \in R <=> \E i \in 1..Len(order) : order[i] = x
        BY <1>2a
    <2>. HIDE DEF R, H, o, link, more
    <2>5. /\ \A x \in R : Rooted(order \o q, more, x, H)
          /\ \A i \in 1..Len(q) : Rooted(order \o q, more, q[i], H)
        BY <1>1, <2>1, <2>2, <2>3, <2>4, StillRooted
    <2>. QED BY <1>1, <2>5 DEF more
<1>13. \A s \in Schemas : schema'[s] # None => Rooted(o, Parents', s, L) /\ Rooted(o, Predecessors', s, H)
    <2>. HIDE DEF R, L, H, o
    <2>. QED BY <1>6, <1>11, <1>12
<1>14. \A s \in Schemas : schema'[s] # None <=> \E i \in 1..Len(o) : o[i] = s
    <2>. HIDE DEF R, o
    <2>. QED BY <1>6, <1>7
<1>. QED
    <2>1. /\ order' \in Seq(Schemas) /\ Once(order)'
          /\ \A s \in Schemas : Registered(s)' <=> \E i \in 1..Len(order') : order'[i] = s
        BY <1>3, <1>5, <1>14 DEF Once, Registered
    <2>2. \A s \in Schemas : Registered(s)' =>
            /\ Rooted(order, Parents, s, MAX_SCHEMA_LINEAGE_DEPTH + 1)'
            /\ Rooted(order, Predecessors, s, MAX_SCHEMA_HISTORY_DEPTH)'
        BY <1>13 DEF Registered, Rooted, Chain
    <2>. QED BY <1>1, <2>1, <2>2 DEF IndexInv

(* A step that leaves the index alone and registers nothing. *)
Quiet == UNCHANGED <<order, catalog>> /\ \A s \in Schemas : ~Registered(s) => schema'[s] = None

(* It registers no one. *)
LEMMA QuietEnrols ==
    ASSUME IndexInv, Faith, Quiet
    PROVE  Enrols(<<>>)
<1>1. <<>> \in Seq(Schemas) /\ Len(<<>>) = 0 /\ 1..0 = {} /\ order \in Seq(Schemas)
    BY DEF IndexInv
<1>2. order' = order \o <<>> /\ catalog' \in [Categories -> Seq(Schemas)]
    BY <1>1 DEF Quiet, IndexInv
<1>3. \A s \in Schemas : schema'[s] # None <=> Registered(s)
    BY DEF Quiet, Faith
<1>. QED BY <1>1, <1>2, <1>3 DEF Enrols, Once

(* Only registration is not quiet. *)
LEMMA QuietSteps ==
    ASSUME RegistryTypeOK, [Next]_schemaRegistryVars, ~RegisterStep
    PROVE  Quiet
<1>0. schema \in [Schemas -> SchemaRecord \cup {None}]
    BY DEF RegistryTypeOK
<1>1. ASSUME UNCHANGED <<schema, order, catalog>> PROVE Quiet
    BY <1>1 DEF Quiet, Registered
<1>2. ASSUME NEW s \in Schemas, Registered(s), NEW r, schema' = [schema EXCEPT ![s] = r],
             UNCHANGED <<order, catalog>>
      PROVE  Quiet
    BY <1>0, <1>2 DEF Quiet, Registered
<1>3. CASE RegistryStep \/ (Uses("roles") /\ Tick) \/ UNCHANGED schemaRegistryVars
    BY <1>1, <1>3 DEF RegistryStep, Tick, schemaRegistryVars, InitRegistry, UpgradeRegistry,
                      SetRegistrationFee, SetRegistryTreasury, SettingsOnly, recordVars
<1>4. CASE RoleStep
    BY <1>1, <1>4 DEF RoleStep, AddDelegate, AddDelegateWithExpiry, Delegated, RemoveDelegate,
                      SelfRevokeDelegate, AddAuthorizedAttester, RemoveAuthorizedAttester, recordVars
<1>5. groups.schemas \subseteq Schemas
    BY DEF RegistryTypeOK
<1>6. ASSUME NEW s \in Schemas, Registered(s), NEW a, NewOwner(s, a), OwnershipOnly PROVE Quiet
    BY <1>2, <1>6 DEF NewOwner, OwnershipOnly
<1>7. CASE OwnerStep
    <2>1. PICK s \in Used :
         \/ \E who, new \in Addrs :
              TransferOwnership(who, s, new) \/ ProposeOwnershipTransfer(who, s, new)
         \/ \E new \in Addrs : TransferSchemaOwnership(s, new) \/ ProposeSchemaOwner(s, new)
         \/ ClaimSchemaOwnership(s)
         \/ CancelSchemaOwnershipTransfer(s)
         \/ \E who \in Addrs, owners \in (SUBSET Addrs) \ {{}}, n \in Thresholds :
              SetVersion(s) < MaxSets /\ ConfigureOwnerSet(who, s, owners, n)
         \/ \E who \in Addrs : ApproveOwnershipTransfer(who, s)
         \/ \E who \in Addrs : CancelOwnershipTransfer(who, s)
        BY <1>7 DEF OwnerStep
    <2>2. s \in Schemas
        BY <1>5 DEF Used
    <2>3. OwnershipOnly /\ Registered(s) /\ (UNCHANGED schema \/ \E a : NewOwner(s, a))
        BY <2>1 DEF TransferOwnership, TransferSchemaOwnership, Transferred, ProposeOwnershipTransfer,
              ProposeSchemaOwner, ClaimSchemaOwnership, CancelSchemaOwnershipTransfer, ConfigureOwnerSet,
              ApproveOwnershipTransfer, CancelOwnershipTransfer, Finalize, Pend, Live
    <2>. QED BY <1>1, <1>6, <2>2, <2>3 DEF OwnershipOnly
<1>8. CASE StatusStep
    <2>1. ASSUME NEW s \in Used, NEW who \in Addrs, NEW k, NEW v, SetSchemaSetting(who, s, k, v)
          PROVE  Quiet
        BY <1>2, <1>5, <2>1 DEF SetSchemaSetting, SettingsOnly, Live, Used
    <2>2. ASSUME NEW s \in Used, NEW who \in Addrs, DeprecateSchema(who, s) PROVE Quiet
        BY <1>2, <1>5, <2>2 DEF DeprecateSchema, SettingsOnly, Live, Used
    <2>3. ASSUME NEW s \in Used, NEW who \in Addrs, NEW b \in Royalties, SetCreatorRoyalty(who, s, b)
          PROVE  Quiet
        BY <1>2, <1>5, <2>3 DEF SetCreatorRoyalty, SettingsOnly, Used
    <2>4. ASSUME NEW s \in Used, NEW who, NEW b, Deprecate(who, s) \/ SetSchemaQuarantine(s, b)
          PROVE  Quiet
        BY <1>1, <2>4 DEF Deprecate, SetSchemaQuarantine, SettingsOnly
    <2>. QED BY <1>8, <2>1, <2>2, <2>3, <2>4
             DEF StatusStep, SetSchemaFrostGroup, SetSchemaMerkleRoot, UpdateSchemaMetadata,
                 ClearSchemaFrostGroup, ClearSchemaMerkleRoot
<1>. QED BY <1>3, <1>4, <1>7, <1>8 DEF Next

(* register_internal registers one schema. *)
LEMMA RegisterEnrols ==
    ASSUME RegistryTypeOK, IndexInv, NEW s \in Schemas, NEW r \in SchemaRecord, RegisterInternal(s, r),
           catalog' \in [Categories -> Seq(Schemas)],
           Open(Parents, r.parent, MAX_SCHEMA_LINEAGE_DEPTH + 1),
           Open(Predecessors, r.predecessor, MAX_SCHEMA_HISTORY_DEPTH)
    PROVE  Enrols(<<s>>)
<1>. DEFINE q == <<s>>
<1>1. q \in Seq(Schemas) /\ Len(q) = 1 /\ q[1] = s /\ \A i \in 1..Len(q) : i = 1
    OBVIOUS
<1>2. ~Registered(s) /\ schema' = [schema EXCEPT ![s] = r] /\ order' = Append(order, s)
    BY DEF RegisterInternal, Registrable
<1>3. schema'[s] = r /\ r # None /\ \A x \in Schemas : x # s => schema'[x] = schema[x]
    BY <1>2, AbsenceAssumption DEF RegistryTypeOK
<1>4. order' = order \o q
    BY <1>2 DEF IndexInv
<1>. HIDE DEF q
<1>5. \A x \in Schemas : schema'[x] # None <=> Registered(x) \/ \E i \in 1..Len(q) : q[i] = x
    BY <1>1, <1>2, <1>3 DEF Registered
<1>6. Enrols(q)
    BY <1>1, <1>2, <1>3, <1>4, <1>5 DEF Enrols, Once
<1>. QED BY <1>6 DEF q

(* Every registration puts what it registers at the end of the index. *)
LEMMA RegisterStepEnrols ==
    ASSUME RegistryTypeOK, IndexInv, RegisterStep
    PROVE  \E q : Enrols(q)
<1>0. groups.schemas \subseteq Schemas /\ schema \in [Schemas -> SchemaRecord \cup {None}]
      /\ catalog \in [Categories -> Seq(Schemas)] /\ order \in Seq(Schemas)
    BY DEF RegistryTypeOK, IndexInv
<1>. DEFINE L == MAX_SCHEMA_LINEAGE_DEPTH + 1
            H == MAX_SCHEMA_HISTORY_DEPTH
<1>1. Open(Parents, None, L) /\ Open(Predecessors, None, H)
    BY DEF Open
<1>2. ASSUME NEW o \in Addrs, NEW s \in Schemas
      PROVE  /\ NewRecord(o, s) \in SchemaRecord
             /\ NewRecord(o, s).parent = None /\ NewRecord(o, s).predecessor = None
    BY NewRecordType DEF NewRecord
(* A record that is not linked. *)
<1>3. ASSUME NEW s \in Schemas, NEW r \in SchemaRecord, RegisterInternal(s, r),
             catalog' \in [Categories -> Seq(Schemas)], r.parent = None, r.predecessor = None
      PROVE  \E q : Enrols(q)
    BY <1>1, <1>3, RegisterEnrols
<1>4. ASSUME NEW o \in Addrs, NEW s \in Schemas, NEW ttl \in Nat, NEW p \in Schemas \cup {None},
             Register(o, s, ttl, p)
      PROVE  \E q : Enrols(q)
    <2>. DEFINE r == [NewRecord(o, s) EXCEPT !.max_ttl = ttl, !.parent = p]
    <2>0. NewRecord(o, s) \in SchemaRecord /\ NewRecord(o, s).predecessor = None
        BY <1>2
    <2>1. r \in SchemaRecord /\ r.parent = p /\ r.predecessor = None
        <3>1. r \in SchemaRecord
            BY <2>0 DEF SchemaRecord
        <3>2. r.parent = p /\ r.predecessor = NewRecord(o, s).predecessor
            BY <2>0 DEF SchemaRecord
        <3>. QED BY <2>0, <3>1, <3>2
    <2>2. RegisterInternal(s, r) /\ catalog' = catalog /\ ValidParent(o, p)
        BY <1>4 DEF Register
    <2>3. Open(Parents, p, L)
        <3>. SUFFICES ASSUME p # None PROVE p \in Schemas /\ Registered(p) /\ Len(Chain(Parents, p, L)) < L
            BY DEF Open
        <3>1. p \in Schemas /\ Registered(p) /\ LineageDepth(p) < MAX_SCHEMA_LINEAGE_DEPTH
            BY <2>2 DEF ValidParent
        <3>2. Parents \in [Schemas -> Schemas \cup {None}] /\ L \in Nat /\ MAX_SCHEMA_LINEAGE_DEPTH \in Nat
            BY <1>0, LinkTypes, RegistryAssumption DEF Parents, Registered
        <3>3. Linked(Parents, p, L, Chain(Parents, p, L))
            BY <3>1, <3>2, ChainLinked
        <3>4. Len(Chain(Parents, p, L)) \in Nat
            BY <3>3 DEF Linked
        <3>. QED BY <3>1, <3>2, <3>4 DEF LineageDepth
    <2>. HIDE DEF r
    <2>. QED BY <1>0, <1>1, <2>1, <2>2, <2>3, RegisterEnrols
<1>5. ASSUME NEW o \in Addrs, NEW s \in Schemas, NEW uri \in Values \cup {None},
             RegisterSchema(o, s, uri)
      PROVE  \E q : Enrols(q)
    <2>. DEFINE r == [NewRecord(o, s) EXCEPT !.settings["metadata"] = uri]
    <2>1. r \in SchemaRecord /\ r.parent = None /\ r.predecessor = None
        BY <1>2 DEF SchemaRecord, Kinds
    <2>2. RegisterInternal(s, r) /\ catalog' = catalog
        BY <1>5 DEF RegisterSchema
    <2>. HIDE DEF r
    <2>. QED BY <1>0, <1>3, <2>1, <2>2
<1>6. ASSUME NEW o \in Addrs, NEW s \in Schemas, NEW p \in Policies, RegisterWithPolicy(o, s, p)
      PROVE  \E q : Enrols(q)
    <2>. DEFINE r == [NewRecord(o, s) EXCEPT !.policy = p]
    <2>1. r \in SchemaRecord /\ r.parent = None /\ r.predecessor = None
        BY <1>2 DEF SchemaRecord
    <2>2. RegisterInternal(s, r) /\ catalog' = catalog
        BY <1>6 DEF RegisterWithPolicy
    <2>. HIDE DEF r
    <2>. QED BY <1>0, <1>3, <2>1, <2>2
<1>7. ASSUME NEW o \in Addrs, NEW s \in Schemas, NEW b \in Royalties, RegisterWithRoyalty(o, s, b)
      PROVE  \E q : Enrols(q)
    <2>. DEFINE r == [NewRecord(o, s) EXCEPT !.royalty = b]
    <2>0. b \in Nat
        BY RegistryAssumption
    <2>1. r \in SchemaRecord /\ r.parent = None /\ r.predecessor = None
        BY <1>2, <2>0 DEF SchemaRecord
    <2>2. RegisterInternal(s, r) /\ catalog' = catalog
        BY <1>7 DEF RegisterWithRoyalty
    <2>. HIDE DEF r
    <2>. QED BY <1>0, <1>3, <2>1, <2>2
<1>8. ASSUME NEW o \in Addrs, NEW s \in Schemas, NEW p \in Schemas, RegisterWithPredecessor(o, s, p)
      PROVE  \E q : Enrols(q)
    <2>. DEFINE r == [NewRecord(o, s) EXCEPT !.predecessor = p]
    <2>1. r \in SchemaRecord /\ r.parent = None /\ r.predecessor = p
        BY <1>2 DEF SchemaRecord
    <2>2. RegisterInternal(s, r) /\ catalog' = catalog
        BY <1>8 DEF RegisterWithPredecessor
    <2>3. Open(Predecessors, p, H)
        BY <1>8 DEF RegisterWithPredecessor, Open
    <2>. HIDE DEF r
    <2>. QED BY <1>0, <1>1, <2>1, <2>2, <2>3, RegisterEnrols
<1>9. ASSUME NEW o \in Addrs, NEW s \in Schemas, NEW c \in Categories, RegisterWithCategory(o, s, c)
      PROVE  \E q : Enrols(q)
    <2>. DEFINE r == [NewRecord(o, s) EXCEPT !.category = c]
    <2>1. r \in SchemaRecord /\ r.parent = None /\ r.predecessor = None
        BY <1>2 DEF SchemaRecord
    <2>2. RegisterInternal(s, r) /\ catalog' = [catalog EXCEPT ![c] = Append(@, s)]
        BY <1>9 DEF RegisterWithCategory, IndexCategory
    <2>3. catalog' \in [Categories -> Seq(Schemas)]
        <3>1. Append(catalog[c], s) \in Seq(Schemas)
            BY <1>0
        <3>. QED BY <1>0, <2>2, <3>1
    <2>. HIDE DEF r
    <2>. QED BY <1>3, <2>1, <2>2, <2>3
<1>10. ASSUME NEW o \in Addrs, NEW q \in Seq(Schemas), RegisterSchemasBatch(o, q)
       PROVE  Enrols(q)
    <2>1. /\ DOMAIN q = 1..Len(q) /\ (\A i \in 1..Len(q) : ~Registered(q[i])) /\ Once(q)
          /\ order' = order \o q /\ catalog' \in [Categories -> Seq(Schemas)]
        BY <1>0, <1>10 DEF RegisterSchemasBatch, Registrable, Once
    <2>2. \A x \in Schemas : schema'[x] = IF \E i \in 1..Len(q) : q[i] = x THEN NewRecord(o, x) ELSE schema[x]
        BY <1>10, <2>1 DEF RegisterSchemasBatch
    <2>3. \A x \in Schemas : schema'[x] # None <=> Registered(x) \/ \E i \in 1..Len(q) : q[i] = x
        <3>1. \A x \in Schemas : NewRecord(o, x) # None
            BY <1>2, AbsenceAssumption
        <3>. QED BY <2>2, <3>1 DEF Registered
    <2>4. \A i \in 1..Len(q) : schema'[q[i]].parent = None /\ schema'[q[i]].predecessor = None
        <3>1. \A i \in 1..Len(q) : q[i] \in Schemas
            OBVIOUS
        <3>. QED BY <1>2, <2>2, <3>1
    <2>. QED BY <1>1, <2>1, <2>3, <2>4 DEF Enrols
<1>11. Ttls \subseteq Nat /\ 0 \in Nat /\ None \in Schemas \cup {None}
    BY RegistryAssumption
<1>. USE DEF Used
<1>12. CASE Uses("base") /\ \E o \in Addrs, s \in Used : Register(o, s, 0, None)
    BY <1>0, <1>4, <1>11, <1>12
<1>13. CASE \E o \in Addrs, s \in Used :
            \/ \E ttl \in Ttls : Register(o, s, ttl, None)
            \/ \E uri \in Values \cup {None} :
                 RegisterSchema(o, s, uri) \/ RegisterSchemaWithValue(o, s, uri)
            \/ \E uri \in Values : RegisterWithMetadata(o, s, uri)
            \/ \E p \in Policies : RegisterWithPolicy(o, s, p)
            \/ \E b \in Royalties : RegisterWithRoyalty(o, s, b)
            \/ \E ttl \in Ttls : RegisterWithValue(o, s, ttl)
    <2>1. PICK o \in Addrs, s \in Used :
            \/ \E ttl \in Ttls : Register(o, s, ttl, None)
            \/ \E uri \in Values \cup {None} : RegisterSchema(o, s, uri)
            \/ \E p \in Policies : RegisterWithPolicy(o, s, p)
            \/ \E b \in Royalties : RegisterWithRoyalty(o, s, b)
        BY <1>13 DEF RegisterSchemaWithValue, RegisterWithMetadata, RegisterWithValue
    <2>2. s \in Schemas
        BY <1>0
    <2>. QED BY <1>4, <1>5, <1>6, <1>7, <1>11, <2>1, <2>2
<1>14. CASE \E o \in Addrs, s, p \in Used :
            Register(o, s, 0, p) \/ RegisterWithPredecessor(o, s, p)
    BY <1>0, <1>4, <1>8, <1>11, <1>14
<1>15. CASE \E o \in Addrs :
            \/ \E s \in Used, c \in Categories : RegisterWithCategory(o, s, c)
            \/ \E s, t \in Used : RegisterSchemasBatch(o, <<s, t>>)
    <2>1. \A s, t \in Used : <<s, t>> \in Seq(Schemas)
        BY <1>0
    <2>. QED BY <1>0, <1>9, <1>10, <1>15, <2>1
<1>. QED BY <1>12, <1>13, <1>14, <1>15 DEF RegisterStep

(* So the index is kept by every step. *)
LEMMA IndexNextInv ==
    RegistryInv /\ IndexInv /\ [Next]_schemaRegistryVars => RegistryInv' /\ IndexInv'
<1>. SUFFICES ASSUME RegistryInv, IndexInv, [Next]_schemaRegistryVars PROVE RegistryInv' /\ IndexInv'
    OBVIOUS
<1>1. RegistryInv' /\ Faith
    BY RegistryNextInv
<1>2. RegistryTypeOK /\ RegistryTypeOK'
    BY <1>1 DEF RegistryInv
<1>3. \E q : Enrols(q)
    <2>1. CASE RegisterStep
        BY <1>2, <2>1, RegisterStepEnrols
    <2>2. CASE ~RegisterStep
        BY <1>1, <1>2, <2>2, QuietSteps, QuietEnrols
    <2>. QED BY <2>1, <2>2
<1>. QED BY <1>1, <1>2, <1>3, EnrolKeepsIndex

(* An empty index lists the schemas of an empty registry. *)
LEMMA IndexInitInv == Init => IndexInv
<1>. SUFFICES ASSUME Init PROVE IndexInv
    OBVIOUS
<1>1. \A s \in Schemas : ~Registered(s)
    BY DEF Init, Registered
<1>2. order = <<>> /\ Len(order) = 0 /\ 1..0 = {}
    BY DEF Init
<1>3. catalog \in [Categories -> Seq(Schemas)]
    BY DEF Init
<1>. QED BY <1>1, <1>2, <1>3 DEF IndexInv, Once

(* Lineages and histories reach their roots. *)
LEMMA LineagesEnd == RegistryTypeOK /\ IndexInv => LineageEnds
<1>. SUFFICES ASSUME RegistryTypeOK, IndexInv, NEW s \in Schemas, Registered(s)
              PROVE  LET up == GetSchemaLineage(s)
                         back == SchemaHistory(s)
                     IN  /\ Len(up) <= MAX_SCHEMA_LINEAGE_DEPTH + 1
                         /\ Len(back) <= MAX_SCHEMA_HISTORY_DEPTH
                         /\ Parents[up[Len(up)]] = None
                         /\ Predecessors[back[Len(back)]] = None
                         /\ \A c \in {up, back} : \A i \in 1..(Len(c) - 1) :
                              Registered(c[i + 1]) /\ Position(c[i + 1]) < Position(c[i])
    BY DEF LineageEnds
<1>. DEFINE R == {x \in Schemas : Registered(x)}
            L == MAX_SCHEMA_LINEAGE_DEPTH + 1
            H == MAX_SCHEMA_HISTORY_DEPTH
            up == Chain(Parents, s, L)
            back == Chain(Predecessors, s, H)
<1>1. L \in Nat /\ H \in Nat /\ order \in Seq(Schemas) /\ Once(order) /\ s \in R
    BY RegistryAssumption DEF IndexInv
<1>1a. Parents \in [Schemas -> Schemas \cup {None}] /\ Predecessors \in [Schemas -> Schemas \cup {None}]
    <2>1. schema \in [Schemas -> SchemaRecord \cup {None}]
        BY DEF RegistryTypeOK
    <2>. QED BY <2>1, LinkTypes DEF Parents, Predecessors, Registered
<1>2. /\ R \in SUBSET Schemas /\ \A x : x \in R <=> \E i \in 1..Len(order) : order[i] = x
      /\ \A x \in R : Rooted(order, Parents, x, L) /\ Rooted(order, Predecessors, x, H)
    BY DEF IndexInv
<1>3. ASSUME NEW x, NEW i \in 1..Len(order), order[i] = x PROVE x \in R /\ Position(x) = i
    <2>1. DOMAIN order = 1..Len(order) /\ \A j \in 1..Len(order) : order[j] = x => j = i
        BY <1>1, <1>3 DEF Once
    <2>. QED BY <1>2, <1>3, <2>1 DEF Position
<1>4. /\ Len(up) \in 1..L /\ Parents[up[Len(up)]] = None
      /\ \A k \in 1..(Len(up) - 1) :
           \E i, j \in 1..Len(order) : order[i] = up[k + 1] /\ order[j] = up[k] /\ i < j
    <2>. DEFINE link == Parents
    <2>1. link \in [Schemas -> Schemas \cup {None}] /\ \A x \in R : Rooted(order, link, x, L)
        BY <1>1a, <1>2
    <2>. HIDE DEF R, L, link
    <2>2. ComesFromRoot(order, link, Chain(link, s, L), L)
        BY <1>1, <1>2, <2>1, RootedChain
    <2>. QED BY <2>2 DEF link, ComesFromRoot
<1>5. /\ Len(back) \in 1..H /\ Predecessors[back[Len(back)]] = None
      /\ \A k \in 1..(Len(back) - 1) :
           \E i, j \in 1..Len(order) : order[i] = back[k + 1] /\ order[j] = back[k] /\ i < j
    <2>. DEFINE link == Predecessors
    <2>1. link \in [Schemas -> Schemas \cup {None}] /\ \A x \in R : Rooted(order, link, x, H)
        BY <1>1a, <1>2
    <2>. HIDE DEF R, H, link
    <2>2. ComesFromRoot(order, link, Chain(link, s, H), H)
        BY <1>1, <1>2, <2>1, RootedChain
    <2>. QED BY <2>2 DEF link, ComesFromRoot
<1>6. up = GetSchemaLineage(s) /\ back = SchemaHistory(s)
    BY DEF GetSchemaLineage, SchemaHistory
<1>. HIDE DEF up, back
<1>7. \A k \in 1..(Len(up) - 1) : Registered(up[k + 1]) /\ Position(up[k + 1]) < Position(up[k])
    BY <1>3, <1>4
<1>8. \A k \in 1..(Len(back) - 1) : Registered(back[k + 1]) /\ Position(back[k + 1]) < Position(back[k])
    BY <1>3, <1>5
<1>9. Len(up) <= L /\ Len(back) <= H
    BY <1>1, <1>4, <1>5
<1>. QED BY <1>4, <1>5, <1>6, <1>7, <1>8, <1>9

(* What the registry's readers return is complete: every lineage and every *)
(* history of versions reaches its root within the limits the reads trap   *)
(* on, through registered schemas that get older and older; and a reader   *)
(* that follows the cursor of get_schemas_paginated or                     *)
(* get_schemas_by_category, with any page size, gets every schema that is  *)
(* not deprecated, once, in the order of registration, however many        *)
(* deprecated ones use up the scan budget.  For any number of schemas,     *)
(* depths and budgets, through any registrations and deprecations.         *)
THEOREM RegistryReadersComplete == Spec => []RegistryReadsComplete
<1>1. RegistryInv /\ IndexInv => RegistryReadsComplete
    <2>. SUFFICES ASSUME RegistryInv, IndexInv PROVE RegistryReadsComplete
        OBVIOUS
    <2>1. RegistryTypeOK /\ order \in Seq(Schemas) /\ catalog \in [Categories -> Seq(Schemas)]
        BY DEF RegistryInv, IndexInv
    <2>. QED BY <2>1, PagesAll, LineagesEnd DEF RegistryReadsComplete
<1>. QED BY <1>1, RegistryInitInv, IndexInitInv, IndexNextInv, PTL DEF Spec

------------------------------------------------------------------------------
(* The storage of SAS.                                                     *)

StoredEntry == [layout : {"compact", "legacy"}, record : Attestation]

StorageTypeOK ==
    /\ plain \in [StoredUids -> StoredEntry \cup {Nothing}]
    /\ side \in [StoredUids -> Nat \cup {Nothing}]
    /\ anchors \in [StoredUids -> [BOOLEAN -> TimestampAnchor \cup {Nothing}]]
    /\ current \in TimestampAnchor /\ schemaOpen \in BOOLEAN
    /\ truth \in [StoredUids -> Attestation \cup {Nothing}]
    /\ stamped \in [StoredUids -> SUBSET TimestampAnchor]

(* The entries of u are those of the attestation that is meant: a compact  *)
(* record has its valid_from beside it, a full one has nothing beside it.  *)
EntriesMeant(u) ==
    IF plain[u] = Nothing THEN truth[u] = Nothing /\ side[u] = Nothing
    ELSE IF plain[u].layout = "legacy" THEN truth[u] = plain[u].record /\ side[u] = Nothing
    ELSE /\ truth[u] \in Attestation
         /\ plain[u].record = [truth[u] EXCEPT !.valid_from = 0]
         /\ side[u] = IF truth[u].valid_from # 0 THEN truth[u].valid_from ELSE Nothing

Earlier(a, b) == a.ledger_sequence <= b.ledger_sequence /\ a.ledger_timestamp <= b.ledger_timestamp

(* The anchors are the ledgers that were stamped, in their order; what is  *)
(* not there has none.                                                     *)
AnchorsStamped(u) ==
    /\ plain[u] = Nothing => \A b \in BOOLEAN : anchors[u][b] = Nothing
    /\ \A b \in BOOLEAN : anchors[u][b] # Nothing => Earlier(anchors[u][b], current)
    /\ anchors[u][FALSE] # Nothing /\ anchors[u][TRUE] # Nothing => Earlier(anchors[u][FALSE], anchors[u][TRUE])
    /\ \A c : c \in stamped[u] <=> c # Nothing /\ c \in {anchors[u][FALSE], anchors[u][TRUE]}

StorageInv == StorageTypeOK /\ \A u \in StoredUids : EntriesMeant(u) /\ AnchorsStamped(u)

(* The read puts the entries together. *)
LEMMA ReadMeant ==
    ASSUME StorageInv, NEW u \in StoredUids
    PROVE  /\ ReadAttestation(u) = truth[u] /\ truth[u] \in Attestation \cup {Nothing}
           /\ plain[u] = Nothing <=> truth[u] = Nothing
<1>1. /\ plain[u] \in StoredEntry \cup {Nothing} /\ truth[u] \in Attestation \cup {Nothing}
      /\ EntriesMeant(u) /\ Nothing \notin Nat /\ Nothing \notin Attestation
    BY NothingAssumption DEF StorageInv, StorageTypeOK
<1>2. CASE plain[u] = Nothing
    BY <1>1, <1>2 DEF EntriesMeant, ReadAttestation
<1>3. CASE plain[u] # Nothing /\ plain[u].layout = "legacy"
    <2>1. plain[u].record \in Attestation
        BY <1>1, <1>3 DEF StoredEntry
    <2>. QED BY <1>1, <1>3, <2>1 DEF EntriesMeant, ReadAttestation
<1>4. CASE plain[u] # Nothing /\ plain[u].layout # "legacy"
    <2>. DEFINE r == truth[u]
    <2>1. /\ r \in Attestation /\ plain[u].record = [r EXCEPT !.valid_from = 0]
          /\ side[u] = IF r.valid_from # 0 THEN r.valid_from ELSE Nothing
        BY <1>1, <1>4 DEF EntriesMeant
    <2>2. r.valid_from \in Nat /\ [[r EXCEPT !.valid_from = 0] EXCEPT !.valid_from = r.valid_from] = r
        BY <2>1 DEF Attestation
    <2>3. r.valid_from = 0 => [r EXCEPT !.valid_from = 0] = r
        BY <2>1 DEF Attestation
    <2>4. ReadAttestation(u) = r
        BY <1>1, <1>4, <2>1, <2>2, <2>3 DEF ReadAttestation
    <2>. QED BY <1>1, <1>4, <2>1, <2>4
<1>. QED BY <1>2, <1>3, <1>4

(* At the start there are the records of an earlier version. *)
LEMMA StorageInitInv == StorageInit => StorageInv
<1>. SUFFICES ASSUME StorageInit PROVE StorageInv
    OBVIOUS
<1>1. \A i \in Inherited : i \in StoredEntry /\ i.layout = "legacy" /\ i.record \in Attestation
    <2>1. OtherData \in AllData
        BY DEF AllData
    <2>. QED BY <2>1 DEF Inherited, Legacy, StoredEntry, Attestation
<1>2. StorageTypeOK
    <2>1. plain \in [StoredUids -> StoredEntry \cup {Nothing}]
        BY <1>1 DEF StorageInit
    <2>2. truth \in [StoredUids -> Attestation \cup {Nothing}]
        BY <1>1, NothingAssumption DEF StorageInit, StoredEntry
    <2>. QED BY <2>1, <2>2 DEF StorageInit, StorageTypeOK, TimestampAnchor
<1>3. ASSUME NEW u \in StoredUids PROVE EntriesMeant(u) /\ AnchorsStamped(u)
    <2>1. plain[u] = Nothing \/ plain[u] \in Inherited
        BY DEF StorageInit
    <2>2. EntriesMeant(u)
        BY <1>1, <2>1 DEF StorageInit, EntriesMeant
    <2>3. anchors[u][FALSE] = Nothing /\ anchors[u][TRUE] = Nothing /\ stamped[u] = {}
        BY DEF StorageInit
    <2>. QED BY <2>2, <2>3 DEF AnchorsStamped
<1>. QED BY <1>2, <1>3 DEF StorageInv

(* The entries of one attestation change. *)
LEMMA OneRecord ==
    ASSUME StorageInv, StorageTypeOK', NEW u \in StoredUids, UNCHANGED current,
           \A v \in StoredUids : v # u =>
             /\ plain'[v] = plain[v] /\ side'[v] = side[v] /\ truth'[v] = truth[v]
             /\ anchors'[v] = anchors[v] /\ stamped'[v] = stamped[v],
           EntriesMeant(u)', AnchorsStamped(u)'
    PROVE  StorageInv'
<1>1. ASSUME NEW v \in StoredUids, v # u PROVE EntriesMeant(v)' /\ AnchorsStamped(v)'
    <2>1. EntriesMeant(v) /\ AnchorsStamped(v)
        BY DEF StorageInv
    <2>2. EntriesMeant(v)'
        BY <1>1, <2>1 DEF EntriesMeant
    <2>3. AnchorsStamped(v)'
        BY <1>1, <2>1 DEF AnchorsStamped
    <2>. QED BY <2>2, <2>3
<1>. QED BY <1>1 DEF StorageInv

(* A written attestation is the one meant. *)
LEMMA Written ==
    ASSUME StorageInv, NEW u \in StoredUids, NEW r \in Attestation, WriteAttestation(u, r)
    PROVE  /\ plain' \in [StoredUids -> StoredEntry \cup {Nothing}]
           /\ side' \in [StoredUids -> Nat \cup {Nothing}]
           /\ truth' \in [StoredUids -> Attestation \cup {Nothing}]
           /\ EntriesMeant(u)' /\ plain'[u] # Nothing
           /\ \A v \in StoredUids : v # u =>
                plain'[v] = plain[v] /\ side'[v] = side[v] /\ truth'[v] = truth[v]
<1>1. Compact(r) \in StoredEntry /\ Compact(r).layout = "compact"
      /\ Compact(r).record = [r EXCEPT !.valid_from = 0]
    <2>1. [r EXCEPT !.valid_from = 0] \in Attestation
        BY DEF Attestation
    <2>. QED BY <2>1 DEF Compact, StoredEntry
<1>2. Compact(r) # Nothing /\ r # Nothing /\ r.valid_from \in Nat
    BY <1>1, NothingAssumption DEF StoredEntry, Attestation
<1>3. /\ plain \in [StoredUids -> StoredEntry \cup {Nothing}] /\ side \in [StoredUids -> Nat \cup {Nothing}]
      /\ truth \in [StoredUids -> Attestation \cup {Nothing}]
    BY DEF StorageInv, StorageTypeOK
<1>4. /\ plain'[u] = Compact(r) /\ truth'[u] = r
      /\ side'[u] = IF r.valid_from # 0 THEN r.valid_from ELSE Nothing
      /\ \A v \in StoredUids : v # u =>
           plain'[v] = plain[v] /\ side'[v] = side[v] /\ truth'[v] = truth[v]
    BY <1>3 DEF WriteAttestation
<1>5. /\ plain' \in [StoredUids -> StoredEntry \cup {Nothing}] /\ side' \in [StoredUids -> Nat \cup {Nothing}]
      /\ truth' \in [StoredUids -> Attestation \cup {Nothing}]
    BY <1>1, <1>2, <1>3 DEF WriteAttestation
<1>6. EntriesMeant(u)'
    BY <1>1, <1>2, <1>4 DEF EntriesMeant
<1>. QED BY <1>2, <1>4, <1>5, <1>6

(* An anchor is added after those that are there. *)
LEMMA Anchored ==
    ASSUME StorageInv, NEW u \in StoredUids, NEW b \in BOOLEAN, WriteAnchor(u, b),
           b = FALSE => anchors[u][TRUE] = Nothing, UNCHANGED current, plain'[u] # Nothing
    PROVE  /\ anchors' \in [StoredUids -> [BOOLEAN -> TimestampAnchor \cup {Nothing}]]
           /\ stamped' \in [StoredUids -> SUBSET TimestampAnchor]
           /\ AnchorsStamped(u)'
           /\ \A v \in StoredUids : v # u => anchors'[v] = anchors[v] /\ stamped'[v] = stamped[v]
<1>1. /\ anchors \in [StoredUids -> [BOOLEAN -> TimestampAnchor \cup {Nothing}]]
      /\ stamped \in [StoredUids -> SUBSET TimestampAnchor] /\ current \in TimestampAnchor
      /\ AnchorsStamped(u)
    BY DEF StorageInv, StorageTypeOK
<1>2. /\ anchors[u][b] = Nothing /\ anchors' = [anchors EXCEPT ![u][b] = current]
      /\ stamped' = [stamped EXCEPT ![u] = @ \cup {current}]
    BY DEF WriteAnchor
<1>3. anchors' \in [StoredUids -> [BOOLEAN -> TimestampAnchor \cup {Nothing}]]
    BY <1>1, <1>2
<1>4. /\ anchors'[u][b] = current /\ \A c \in BOOLEAN : c # b => anchors'[u][c] = anchors[u][c]
      /\ stamped'[u] = stamped[u] \cup {current}
      /\ \A v \in StoredUids : v # u => anchors'[v] = anchors[v] /\ stamped'[v] = stamped[v]
    BY <1>1, <1>2
<1>5. stamped' \in [StoredUids -> SUBSET TimestampAnchor]
    BY <1>1, <1>2
<1>6. current # Nothing /\ Earlier(current, current)
    BY <1>1, NothingAssumption DEF Earlier, TimestampAnchor
<1>7. AnchorsStamped(u)'
    <2>0. current' = current
        OBVIOUS
    <2>1. CASE b = FALSE
        <3>1. anchors'[u][FALSE] = current /\ anchors'[u][TRUE] = Nothing /\ anchors[u][FALSE] = Nothing
              /\ anchors[u][TRUE] = Nothing
            BY <1>2, <1>4, <2>1
        <3>2. \A c : c \in stamped'[u] <=> c # Nothing /\ c \in {anchors'[u][FALSE], anchors'[u][TRUE]}
            BY <1>1, <1>4, <1>6, <3>1 DEF AnchorsStamped
        <3>3. \A c \in BOOLEAN : anchors'[u][c] # Nothing => Earlier(anchors'[u][c], current')
            BY <1>6, <2>0, <3>1, Zenon
        <3>. QED BY <3>1, <3>2, <3>3 DEF AnchorsStamped, Earlier
    <2>2. CASE b = TRUE
        <3>1. anchors'[u][TRUE] = current /\ anchors'[u][FALSE] = anchors[u][FALSE] /\ anchors[u][TRUE] = Nothing
            BY <1>2, <1>4, <2>2
        <3>2. \A c : c \in stamped'[u] <=> c # Nothing /\ c \in {anchors'[u][FALSE], anchors'[u][TRUE]}
            BY <1>1, <1>4, <1>6, <3>1 DEF AnchorsStamped
        <3>3. anchors[u][FALSE] # Nothing => Earlier(anchors[u][FALSE], current)
            BY <1>1 DEF AnchorsStamped
        <3>4. \A c \in BOOLEAN : anchors'[u][c] # Nothing => Earlier(anchors'[u][c], current')
            BY <1>6, <2>0, <3>1, <3>3, Zenon
        <3>. QED BY <2>0, <3>1, <3>2, <3>3, <3>4 DEF AnchorsStamped, Earlier
    <2>. QED BY <2>1, <2>2
<1>. QED BY <1>3, <1>4, <1>5, <1>7

(* Issuing, *)
LEMMA IssueRecordInv ==
    ASSUME StorageInv, NEW u \in StoredUids, NEW e \in Nat, NEW f \in Nat, NEW d \in AllData,
           IssueRecord(u, e, f, d)
    PROVE  StorageInv'
<1>. DEFINE r == [time |-> Time, expiration_time |-> e, revocation_time |-> 0, valid_from |-> f, data |-> d]
<1>1. r \in Attestation
    BY DEF StorageInv, StorageTypeOK, Time, TimestampAnchor, Attestation
<1>2. /\ WriteAttestation(u, r) /\ WriteAnchor(u, FALSE) /\ UNCHANGED current /\ UNCHANGED schemaOpen
      /\ plain[u] = Nothing
    BY DEF IssueRecord
<1>. HIDE DEF r
<1>3. anchors[u][TRUE] = Nothing
    BY <1>2 DEF StorageInv, AnchorsStamped
<1>. QED BY <1>1, <1>2, <1>3, Written, Anchored, OneRecord DEF StorageInv, StorageTypeOK

(* revoking, *)
LEMMA RevokeRecordInv ==
    ASSUME StorageInv, NEW u \in StoredUids, RevokeRecord(u) PROVE StorageInv'
<1>. DEFINE r == [ReadAttestation(u) EXCEPT !.revocation_time = Time]
<1>1. r \in Attestation
    <2>1. ReadAttestation(u) \in Attestation
        BY ReadMeant DEF RevokeRecord
    <2>2. Time \in Nat
        BY DEF StorageInv, StorageTypeOK, Time, TimestampAnchor
    <2>. QED BY <2>1, <2>2 DEF Attestation
<1>2. WriteAttestation(u, r) /\ WriteAnchor(u, TRUE) /\ UNCHANGED current /\ UNCHANGED schemaOpen
    BY DEF RevokeRecord
<1>. HIDE DEF r
<1>. QED BY <1>1, <1>2, Written, Anchored, OneRecord DEF StorageInv, StorageTypeOK

(* renewing, *)
LEMMA RenewRecordInv ==
    ASSUME StorageInv, NEW u \in StoredUids, NEW e \in Nat, RenewRecord(u, e) PROVE StorageInv'
<1>. DEFINE r == [ReadAttestation(u) EXCEPT !.expiration_time = e]
<1>1. r \in Attestation /\ plain[u] # Nothing
    <2>1. ReadAttestation(u) \in Attestation /\ plain[u] # Nothing
        BY ReadMeant DEF RenewRecord
    <2>. QED BY <2>1 DEF Attestation
<1>2. WriteAttestation(u, r) /\ UNCHANGED <<anchors, stamped, current, schemaOpen>>
    BY DEF RenewRecord
<1>. HIDE DEF r
<1>3. AnchorsStamped(u)'
    BY <1>1, <1>2, Written DEF StorageInv, AnchorsStamped
<1>. QED BY <1>1, <1>2, <1>3, Written, OneRecord DEF StorageInv, StorageTypeOK

(* and pruning: all entries of the attestation go. *)
LEMMA RemoveRecordInv ==
    ASSUME StorageInv, NEW u \in StoredUids, RemoveRecord(u) PROVE StorageInv'
<1>1. StorageTypeOK
    BY DEF StorageInv
<1>2. /\ plain' = [plain EXCEPT ![u] = Nothing] /\ side' = [side EXCEPT ![u] = Nothing]
      /\ anchors' = [anchors EXCEPT ![u] = [revocation \in BOOLEAN |-> Nothing]]
      /\ truth' = [truth EXCEPT ![u] = Nothing] /\ stamped' = [stamped EXCEPT ![u] = {}]
      /\ UNCHANGED current /\ UNCHANGED schemaOpen
    BY DEF RemoveRecord
<1>3. StorageTypeOK'
    BY <1>1, <1>2 DEF StorageTypeOK
<1>4. /\ plain'[u] = Nothing /\ side'[u] = Nothing /\ truth'[u] = Nothing /\ stamped'[u] = {}
      /\ anchors'[u][FALSE] = Nothing /\ anchors'[u][TRUE] = Nothing
      /\ \A b \in BOOLEAN : anchors'[u][b] = Nothing
    BY <1>1, <1>2 DEF StorageTypeOK
<1>5. \A v \in StoredUids : v # u =>
        /\ plain'[v] = plain[v] /\ side'[v] = side[v] /\ truth'[v] = truth[v]
        /\ anchors'[v] = anchors[v] /\ stamped'[v] = stamped[v]
    BY <1>1, <1>2 DEF StorageTypeOK
<1>6. EntriesMeant(u)' /\ AnchorsStamped(u)'
    BY <1>4 DEF EntriesMeant, AnchorsStamped
<1>. QED BY <1>2, <1>3, <1>5, <1>6, OneRecord

(* Moving records to the compact layout keeps what is meant. *)
LEMMA MigrateInv ==
    ASSUME StorageInv, NEW us \in SUBSET StoredUids, MigrateAttestations(us) PROVE StorageInv'
<1>0. /\ plain' = [u \in StoredUids |->
                   IF u \in us /\ InLegacyLayout(u) THEN Compact(plain[u].record) ELSE plain[u]]
      /\ side' = [u \in StoredUids |->
                   IF u \in us /\ InLegacyLayout(u) THEN MovedValidFrom(u) ELSE side[u]]
      /\ UNCHANGED <<anchors, current, schemaOpen, truth, stamped>> /\ StorageTypeOK
    BY DEF MigrateAttestations, StorageInv
<1>1. ASSUME NEW u \in StoredUids
      PROVE  /\ plain'[u] \in StoredEntry \cup {Nothing} /\ side'[u] \in Nat \cup {Nothing}
             /\ EntriesMeant(u)' /\ (plain'[u] = Nothing <=> plain[u] = Nothing)
    <2>0. /\ plain[u] \in StoredEntry \cup {Nothing} /\ side[u] \in Nat \cup {Nothing}
          /\ EntriesMeant(u) /\ truth'[u] = truth[u]
        BY <1>0 DEF StorageInv, StorageTypeOK
    <2>1. CASE ~(u \in us /\ InLegacyLayout(u))
        <3>1. plain'[u] = plain[u] /\ side'[u] = side[u]
            BY <1>0, <2>1
        <3>. QED BY <2>0, <3>1 DEF EntriesMeant
    <2>2. CASE u \in us /\ InLegacyLayout(u)
        <3>. DEFINE r == plain[u].record
        <3>1. plain'[u] = Compact(r) /\ side'[u] = MovedValidFrom(u)
            BY <1>0, <2>2
        <3>2. plain[u] # Nothing /\ r \in Attestation /\ truth[u] = r /\ side[u] = Nothing
            BY <2>0, <2>2 DEF InLegacyLayout, StoredEntry, EntriesMeant
        <3>3. MovedValidFrom(u) = IF r.valid_from # 0 THEN r.valid_from ELSE Nothing
            BY <3>2 DEF MovedValidFrom
        <3>. HIDE DEF r
        <3>4. Compact(r) \in StoredEntry /\ Compact(r).layout = "compact"
              /\ Compact(r).record = [r EXCEPT !.valid_from = 0]
            <4>1. [r EXCEPT !.valid_from = 0] \in Attestation
                BY <3>2 DEF Attestation
            <4>. QED BY <4>1 DEF Compact, StoredEntry
        <3>5. Compact(r) # Nothing /\ r.valid_from \in Nat
            BY <3>2, <3>4, NothingAssumption DEF StoredEntry, Attestation
        <3>6. EntriesMeant(u)'
            BY <2>0, <3>1, <3>2, <3>3, <3>4, <3>5 DEF EntriesMeant
        <3>. QED BY <3>1, <3>2, <3>3, <3>4, <3>5, <3>6
    <2>. QED BY <2>1, <2>2
<1>2. StorageTypeOK'
    <2>1. plain' \in [StoredUids -> StoredEntry \cup {Nothing}] /\ side' \in [StoredUids -> Nat \cup {Nothing}]
        BY <1>0, <1>1
    <2>. QED BY <1>0, <2>1 DEF StorageTypeOK
<1>3. ASSUME NEW u \in StoredUids PROVE AnchorsStamped(u)'
    <2>1. AnchorsStamped(u)
        BY DEF StorageInv
    <2>. QED BY <1>0, <1>1, <2>1 DEF AnchorsStamped
<1>. QED BY <1>1, <1>2, <1>3 DEF StorageInv

(* Ledgers close. *)
LEMMA CloseLedgerInv ==
    ASSUME StorageInv, NEW gap \in Gaps, CloseLedger(gap) PROVE StorageInv'
<1>0. current \in TimestampAnchor /\ gap \in Nat
    BY StorageAssumption DEF StorageInv, StorageTypeOK
<1>1. current' \in TimestampAnchor /\ Earlier(current, current')
    BY <1>0 DEF CloseLedger, Time, Earlier, TimestampAnchor
<1>2. UNCHANGED <<plain, side, anchors, schemaOpen, truth, stamped>>
    BY DEF CloseLedger
<1>3. StorageTypeOK'
    BY <1>1, <1>2 DEF StorageInv, StorageTypeOK
<1>4. ASSUME NEW u \in StoredUids PROVE EntriesMeant(u)' /\ AnchorsStamped(u)'
    <2>1. EntriesMeant(u) /\ AnchorsStamped(u)
        BY DEF StorageInv
    <2>2. \A b \in BOOLEAN : anchors[u][b] # Nothing => Earlier(anchors[u][b], current')
        <3>. SUFFICES ASSUME NEW b \in BOOLEAN, anchors[u][b] # Nothing PROVE Earlier(anchors[u][b], current')
            OBVIOUS
        <3>1. Earlier(anchors[u][b], current) /\ anchors[u][b] \in TimestampAnchor
            BY <2>1 DEF AnchorsStamped, StorageInv, StorageTypeOK
        <3>. QED BY <1>0, <1>1, <3>1 DEF Earlier, TimestampAnchor
    <2>3. EntriesMeant(u)'
        BY <1>2, <2>1 DEF EntriesMeant
    <2>. QED BY <1>2, <2>1, <2>2, <2>3 DEF AnchorsStamped
<1>. QED BY <1>3, <1>4 DEF StorageInv

(* The invariant is inductive. *)
LEMMA StorageNextInv == StorageInv /\ [StorageNext]_storageVars => StorageInv'
<1>. SUFFICES ASSUME StorageInv, [StorageNext]_storageVars PROVE StorageInv'
    OBVIOUS
<1>1. ASSUME UNCHANGED <<plain, side, anchors, current, truth, stamped>>, schemaOpen' \in BOOLEAN
      PROVE  StorageInv'
    BY <1>1 DEF StorageInv, StorageTypeOK, EntriesMeant, AnchorsStamped
<1>2. CASE UNCHANGED storageVars
    BY <1>1, <1>2 DEF storageVars, StorageInv, StorageTypeOK
<1>3. CASE CloseSchema
    BY <1>1, <1>3 DEF CloseSchema
<1>4. {0, 3, 4} \subseteq Nat /\ {0, 3} \subseteq Nat /\ {0, 4, 5} \subseteq Nat
    OBVIOUS
<1>. QED BY <1>2, <1>3, <1>4, IssueRecordInv, RevokeRecordInv, RenewRecordInv, RemoveRecordInv,
            MigrateInv, CloseLedgerInv DEF StorageNext

(* A finite set of naturals that is not empty has a greatest member. *)
LEMMA GreatestMember ==
    ASSUME NEW n \in Nat, NEW S \in SUBSET (1..n), S # {}
    PROVE  Max(S) \in S
<1>1. S \in SUBSET Nat /\ IsFiniteSet(S)
    <2>1. IsFiniteSet(1..n) /\ 1..n \subseteq Nat
        BY UpToFinite
    <2>. QED BY <2>1, FS_Subset
<1>. DEFINE k == Cardinality(S)
            q == InOrder(S)
<1>2. /\ k \in Nat /\ (\A x \in S : \E i \in 1..k : q[i] = x)
      /\ \A i, j \in 1..k : i < j => q[i] < q[j]
    BY <1>1, InOrderLists
<1>3. k # 0
    BY <1>1, FS_EmptySet
<1>4. \A i \in 1..k : q[i] \in S
    BY <1>1, InOrderRanks
<1>. HIDE DEF k, q
<1>5. k \in 1..k /\ q[k] \in S
    BY <1>2, <1>3, <1>4
<1>6. ASSUME NEW y \in S PROVE q[k] >= y
    <2>1. PICK i \in 1..k : q[i] = y
        BY <1>2
    <2>2. i = k \/ i < k
        BY <1>2
    <2>3. q[k] \in Nat /\ y \in Nat
        BY <1>1, <1>5
    <2>. QED BY <1>2, <1>5, <2>1, <2>2, <2>3
<1>. QED BY <1>5, <1>6 DEF Max

(* g says of the sets of D whether v holds of all members, the greatest    *)
(* first: the loop of verify_all_attestations.                             *)
Checks(g, v, D) == g = [s \in D |-> IF s = {} THEN TRUE ELSE g[s \ {Max(s)}] /\ v[Max(s)]]

(* It says so of the first n. *)
LEMMA ChecksAll ==
    ASSUME NEW m \in Nat, NEW v \in [1..m -> BOOLEAN], NEW g, Checks(g, v, SUBSET (1..m))
    PROVE  g[1..m] <=> \A i \in 1..m : v[i]
<1>. DEFINE N == {n \in Nat : n <= m => (g[1..n] <=> \A i \in 1..n : v[i])}
<1>1. 0 \in N
    <2>1. 1..0 = {} /\ {} \in SUBSET (1..m)
        OBVIOUS
    <2>2. g[{}] = TRUE
        BY <2>1 DEF Checks
    <2>. QED BY <2>1, <2>2
<1>2. ASSUME NEW n \in N PROVE n + 1 \in N
    <2>. SUFFICES ASSUME n + 1 <= m PROVE g[1..(n + 1)] <=> \A i \in 1..(n + 1) : v[i]
        OBVIOUS
    <2>. DEFINE s == 1..(n + 1)
    <2>0. n \in Nat /\ n <= m /\ n + 1 \in 1..m
        OBVIOUS
    <2>1. s \in SUBSET (1..m) /\ s # {} /\ n + 1 \in s
        <3>1. \A x \in s : x \in 1..m
            BY <2>0
        <3>2. n + 1 \in s
            BY <2>0
        <3>. HIDE DEF s
        <3>. QED BY <3>1, <3>2
    <2>2. Max(s) \in s
        BY <2>0, <2>1, GreatestMember
    <2>3. Max(s) = n + 1
        <3>1. \A y \in s : n + 1 >= y
            BY <2>0
        <3>2. \A x \in s : (\A y \in s : x >= y) => x = n + 1
            BY <2>0, <2>1
        <3>. QED BY <2>1, <3>1, <3>2 DEF Max
    <2>4. s \ {n + 1} = 1..n
        BY <2>0
    <2>5. g[s] = (g[1..n] /\ v[n + 1])
        <3>1. g[s] = IF s = {} THEN TRUE ELSE g[s \ {Max(s)}] /\ v[Max(s)]
            BY <2>1 DEF Checks
        <3>. HIDE DEF s
        <3>. QED BY <2>1, <2>3, <2>4, <3>1
    <2>6. g[1..n] <=> \A i \in 1..n : v[i]
        BY <2>0
    <2>7. (\A i \in s : v[i]) <=> (\A i \in 1..n : v[i]) /\ v[n + 1]
        <3>1. \A i \in s : i \in 1..n \/ i = n + 1
            BY <2>0
        <3>2. \A i \in 1..n : i \in s
            BY <2>0
        <3>. QED BY <2>1, <3>1, <3>2
    <2>. QED BY <2>5, <2>6, <2>7
<1>3. N = Nat
    <2>. HIDE DEF N
    <2>1. N \in SUBSET Nat
        BY DEF N
    <2>. QED BY <1>1, <1>2, <2>1, NatSetInduction
<1>. QED BY <1>3

(* The library's fold over the UIDs us is such a loop. *)
Verdicts(g, us) ==
    g = [s \in SUBSET (DOMAIN us) |-> IF s = {} THEN TRUE
                                      ELSE g[s \ {Max(s)}] /\ VerifyAttestation(us[Max(s)])]

LEMMA FoldIsVerdicts ==
    ASSUME NEW us, ~(Len(us) > MAX_VERIFY_BATCH)
    PROVE  VerifyAllAttestations(us) = (CHOOSE g : Verdicts(g, us))[DOMAIN us]
BY DEF VerifyAllAttestations, FoldLeft, MapThenFoldSet, Verdicts

(* The batch reader agrees with the verdicts one by one. *)
LEMMA BatchVerdict ==
    ASSUME NEW n \in 0..MAX_VERIFY_BATCH, NEW us \in [1..n -> StoredUids]
    PROVE  VerifyAllAttestations(us) <=> \A i \in DOMAIN us : VerifyAttestations(us)[i]
<1>. DEFINE v == [i \in 1..n |-> VerifyAttestation(us[i])]
            D == SUBSET (1..n)
            G == CHOOSE g : Verdicts(g, us)
<1>0. n \in Nat /\ MAX_VERIFY_BATCH \in Nat /\ n <= MAX_VERIFY_BATCH /\ Len(us) = n /\ DOMAIN us = 1..n
    BY StorageAssumption
<1>1. v \in [1..n -> BOOLEAN]
    BY DEF VerifyAttestation, VerifyAttestationView
<1>7. ASSUME NEW s \in D, s # {} PROVE Max(s) \in s /\ v[Max(s)] = VerifyAttestation(us[Max(s)])
    <2>1. Max(s) \in s
        BY <1>0, <1>7, GreatestMember
    <2>. QED BY <2>1
<1>2. Verdicts(G, us)
    <2>. DEFINE g == [s \in D |-> \A i \in s : v[i]]
    <2>1. ASSUME NEW s \in D, s # {} PROVE g[s] = (g[s \ {Max(s)}] /\ v[Max(s)])
        <3>1. Max(s) \in s
            BY <1>7, <2>1
        <3>2. s \ {Max(s)} \in D
            OBVIOUS
        <3>3. (\A i \in s : v[i]) <=> (\A i \in s \ {Max(s)} : v[i]) /\ v[Max(s)]
            <4>. HIDE DEF v
            <4>. QED BY <3>1
        <3>4. v[Max(s)] \in BOOLEAN
            BY <1>1, <3>1
        <3>. HIDE DEF v
        <3>. QED BY <3>2, <3>3, <3>4
    <2>2. g[{}] = TRUE
        OBVIOUS
    <2>3. \A s \in D : g[s] = IF s = {} THEN TRUE ELSE g[s \ {Max(s)}] /\ VerifyAttestation(us[Max(s)])
        <3>. HIDE DEF g, v, D
        <3>. QED BY <1>7, <2>1, <2>2
    <2>4. g = [s \in D |-> g[s]] /\ D = SUBSET (DOMAIN us)
        BY <1>0
    <2>. HIDE DEF g, v, D
    <2>5. Verdicts(g, us)
        BY <2>3, <2>4 DEF Verdicts
    <2>. QED BY <2>5 DEF G
<1>3. VerifyAllAttestations(us) = G[1..n]
    <2>1. ~(Len(us) > MAX_VERIFY_BATCH)
        BY <1>0
    <2>2. VerifyAllAttestations(us) = G[DOMAIN us]
        BY <2>1, FoldIsVerdicts
    <2>. HIDE DEF G
    <2>. QED BY <1>0, <2>2
<1>4. \A i \in 1..n : VerifyAttestations(us)[i] = v[i]
    BY <1>0 DEF VerifyAttestations
<1>8. Checks(G, v, D)
    <2>1. D = SUBSET (DOMAIN us)
        BY <1>0
    <2>. HIDE DEF v, G, D
    <2>2. G = [s \in D |-> G[s]]
        BY <1>2, <2>1 DEF Verdicts
    <2>3. \A s \in D : G[s] = IF s = {} THEN TRUE ELSE G[s \ {Max(s)}] /\ v[Max(s)]
        <3>1. \A s \in D : G[s] = IF s = {} THEN TRUE
                                  ELSE G[s \ {Max(s)}] /\ VerifyAttestation(us[Max(s)])
            BY <1>2, <2>1 DEF Verdicts
        <3>. QED BY <1>7, <3>1
    <2>. QED BY <2>2, <2>3 DEF Checks
<1>. HIDE DEF v, G
<1>5. G[1..n] <=> \A i \in 1..n : v[i]
    BY <1>0, <1>1, <1>8, ChecksAll
<1>. QED BY <1>0, <1>3, <1>4, <1>5

(* The verdict on a record is the one on the attestation meant. *)
LEMMA VerdictMeant ==
    ASSUME StorageInv, NEW u \in StoredUids
    PROVE  VerifyAttestation(u) <=> LiveNow(truth[u])
<1>0. Time \in Nat
    BY DEF StorageInv, StorageTypeOK, Time, TimestampAnchor
<1>1. ReadAttestation(u) = truth[u] /\ truth[u] \in Attestation \cup {Nothing}
    BY ReadMeant
<1>2. CASE truth[u] = Nothing
    BY <1>1, <1>2 DEF VerifyAttestation, VerifyAttestationView, LiveNow
<1>3. CASE truth[u] \in Attestation
    <2>1. truth[u].valid_from \in Nat
        BY <1>3 DEF Attestation
    <2>. QED BY <1>0, <1>1, <2>1 DEF VerifyAttestation, VerifyAttestationView, LiveNow
<1>. QED BY <1>1, <1>2, <1>3

------------------------------------------------------------------------------
(* Merkle trees.  Both recursions of the tree, over its levels and over a  *)
(* proof, exist: finite pieces of them agree and are put together.         *)

MerkleStep(way, path, x, n) == IF way = "level" THEN NextLevel(x) ELSE NodeHash(x, path[n])

Piece(f, way, path, base, n) ==
    f[0] = base /\ \A i \in 0..(n - 1) : f[i + 1] = MerkleStep(way, path, f[i], i + 1)

Merkles(g, way, path, base) ==
    g = [n \in Nat |-> IF n = 0 THEN base ELSE MerkleStep(way, path, g[n - 1], n)]

LEMMA MerklesExist ==
    ASSUME NEW way, NEW path, NEW base
    PROVE  \E g : Merkles(g, way, path, base)
<1>. DEFINE A(f, n) == Piece(f, way, path, base, n)
            N == {n \in Nat : \E f : A(f, n)}
<1>1. 0 \in N
    <2>1. PICK f : f = [i \in 0..0 |-> base]
        OBVIOUS
    <2>2. f[0] = base /\ 0..(0 - 1) = {}
        BY <2>1
    <2>. QED BY <2>2 DEF Piece
<1>2. ASSUME NEW n \in N PROVE n + 1 \in N
    <2>0. n \in Nat
        OBVIOUS
    <2>1. PICK f : A(f, n)
        OBVIOUS
    <2>2. PICK y : y = MerkleStep(way, path, f[n], n + 1)
        OBVIOUS
    <2>3. PICK g : g = [i \in 0..(n + 1) |-> IF i = n + 1 THEN y ELSE f[i]]
        OBVIOUS
    <2>4. g[n + 1] = y /\ \A i \in 0..n : g[i] = f[i]
        BY <2>0, <2>3
    <2>5. A(g, n + 1)
        <3>1. g[0] = base
            BY <2>0, <2>1, <2>4 DEF Piece
        <3>2. ASSUME NEW i \in 0..((n + 1) - 1) PROVE g[i + 1] = MerkleStep(way, path, g[i], i + 1)
            <4>1. i \in Nat /\ i <= n
                BY <2>0
            <4>2. CASE i = n
                <5>1. g[i] = f[n] /\ g[i + 1] = y
                    BY <2>4, <4>1, <4>2
                <5>. QED BY <2>2, <4>2, <5>1
            <4>3. CASE i # n
                <5>1. i \in 0..(n - 1) /\ i \in 0..n /\ i + 1 \in 0..n
                    BY <2>0, <4>1, <4>3
                <5>2. f[i + 1] = MerkleStep(way, path, f[i], i + 1)
                    BY <2>1, <5>1 DEF Piece
                <5>. QED BY <2>4, <5>1, <5>2
            <4>. QED BY <4>2, <4>3
        <3>. QED BY <3>1, <3>2 DEF Piece
    <2>. QED BY <2>0, <2>5
<1>3. N = Nat
    <2>. HIDE DEF N
    <2>1. N \in SUBSET Nat
        BY DEF N
    <2>. QED BY <1>1, <1>2, <2>1, NatSetInduction
<1>4. ASSUME NEW n \in Nat, NEW m \in Nat, NEW f, NEW g, A(f, n), A(g, m)
      PROVE  \A i \in Nat : i <= n /\ i <= m => f[i] = g[i]
    <2>. DEFINE E == {i \in Nat : i <= n /\ i <= m => f[i] = g[i]}
    <2>1. 0 \in E
        BY <1>4 DEF Piece
    <2>2. ASSUME NEW i \in E PROVE i + 1 \in E
        <3>. SUFFICES ASSUME i + 1 <= n, i + 1 <= m PROVE f[i + 1] = g[i + 1]
            OBVIOUS
        <3>1. i \in 0..(n - 1) /\ i \in 0..(m - 1) /\ f[i] = g[i]
            OBVIOUS
        <3>2. f[i + 1] = MerkleStep(way, path, f[i], i + 1) /\ g[i + 1] = MerkleStep(way, path, g[i], i + 1)
            BY <1>4, <3>1 DEF Piece
        <3>. QED BY <3>1, <3>2
    <2>3. E = Nat
        <3>. HIDE DEF E
        <3>1. E \in SUBSET Nat
            BY DEF E
        <3>. QED BY <2>1, <2>2, <3>1, NatSetInduction
    <2>. QED BY <2>3
<1>. DEFINE a(n) == CHOOSE f : A(f, n)
            F == [n \in Nat |-> a(n)[n]]
<1>5. \A n \in Nat : A(a(n), n)
    BY <1>3
<1>. HIDE DEF a
<1>6. F[0] = base
    <2>1. A(a(0), 0)
        BY <1>5
    <2>. QED BY <2>1 DEF Piece
<1>7. ASSUME NEW n \in Nat PROVE F[n + 1] = MerkleStep(way, path, F[n], n + 1)
    <2>1. n + 1 \in Nat /\ n \in 0..((n + 1) - 1)
        OBVIOUS
    <2>2. A(a(n + 1), n + 1) /\ A(a(n), n)
        BY <1>5, <2>1
    <2>3. a(n + 1)[n + 1] = MerkleStep(way, path, a(n + 1)[n], n + 1)
        BY <2>1, <2>2 DEF Piece
    <2>4. a(n + 1)[n] = a(n)[n]
        <3>. HIDE DEF A
        <3>. QED BY <1>4, <2>1, <2>2
    <2>. QED BY <2>1, <2>3, <2>4
<1>8. F = [n \in Nat |-> F[n]]
    OBVIOUS
<1>. HIDE DEF F
<1>9. ASSUME NEW n \in Nat PROVE F[n] = IF n = 0 THEN base ELSE MerkleStep(way, path, F[n - 1], n)
    <2>1. CASE n = 0
        BY <1>6, <2>1
    <2>2. CASE n # 0
        <3>1. PICK m \in Nat : m = n - 1 /\ m + 1 = n
            BY <2>2
        <3>2. F[m + 1] = MerkleStep(way, path, F[m], m + 1)
            BY <1>7
        <3>. QED BY <2>2, <3>1, <3>2
    <2>. QED BY <2>1, <2>2
<1>10. Merkles(F, way, path, base)
    BY <1>8, <1>9 DEF Merkles
<1>. QED BY <1>10

(* The levels over a list of leaves. *)
LEMMA LevelsAre ==
    ASSUME NEW b
    PROVE  /\ LevelOf(b, 0) = [i \in DOMAIN b |-> LeafHash(b[i])]
           /\ \A k \in Nat : LevelOf(b, k + 1) = NextLevel(LevelOf(b, k))
<1>. DEFINE base == [i \in DOMAIN b |-> LeafHash(b[i])]
            Is(g) == g = [k \in Nat |-> IF k = 0 THEN base ELSE NextLevel(g[k - 1])]
<1>1. \A g : Merkles(g, "level", <<>>, base) <=> Is(g)
    BY DEF Merkles, MerkleStep
<1>2. \A k : LevelOf(b, k) = (CHOOSE g : Is(g))[k]
    BY DEF LevelOf
<1>3. \E g : Is(g)
    <2>. HIDE DEF base, Is
    <2>. QED BY <1>1, MerklesExist
<1>4. PICK L : Is(L) /\ L = CHOOSE g : Is(g)
    <2>. HIDE DEF Is
    <2>. QED BY <1>3
<1>. HIDE DEF base
<1>5. L[0] = base
    BY <1>4
<1>6. ASSUME NEW k \in Nat PROVE L[k + 1] = NextLevel(L[k])
    <2>1. PICK j \in Nat : j = k + 1 /\ j # 0 /\ j - 1 = k
        OBVIOUS
    <2>2. L[j] = NextLevel(L[j - 1])
        BY <1>4, <2>1
    <2>. QED BY <2>1, <2>2
<1>7. \A k : LevelOf(b, k) = L[k]
    <2>. HIDE DEF Is
    <2>. QED BY <1>2, <1>4
<1>. QED BY <1>5, <1>6, <1>7 DEF base

(* The hashes along a proof. *)
LEMMA ClimbIs ==
    ASSUME NEW leaf, NEW path
    PROVE  \E c : /\ c[0] = LeafHash(leaf)
                  /\ \A m \in Nat : c[m + 1] = NodeHash(c[m], path[m + 1])
                  /\ Climb(leaf, path) = c[Len(path)]
<1>. DEFINE Is(g) == g = [i \in Nat |-> IF i = 0 THEN LeafHash(leaf) ELSE NodeHash(g[i - 1], path[i])]
<1>1. \A g : Merkles(g, "path", path, LeafHash(leaf)) <=> Is(g)
    BY DEF Merkles, MerkleStep
<1>2. Climb(leaf, path) = (CHOOSE g : Is(g))[Len(path)]
    BY DEF Climb
<1>3. \E g : Is(g)
    <2>. HIDE DEF Is
    <2>. QED BY <1>1, MerklesExist
<1>4. PICK c : Is(c) /\ c = CHOOSE g : Is(g)
    <2>. HIDE DEF Is
    <2>. QED BY <1>3
<1>5. c[0] = LeafHash(leaf)
    BY <1>4
<1>6. ASSUME NEW m \in Nat PROVE c[m + 1] = NodeHash(c[m], path[m + 1])
    <2>1. PICK j \in Nat : j = m + 1 /\ j # 0 /\ j - 1 = m
        OBVIOUS
    <2>2. c[j] = NodeHash(c[j - 1], path[j])
        BY <1>4, <2>1
    <2>. QED BY <2>1, <2>2
<1>7. Climb(leaf, path) = c[Len(path)]
    <2>. HIDE DEF Is
    <2>. QED BY <1>2, <1>4
<1>. QED BY <1>5, <1>6, <1>7

(* Leaves and nodes are told apart, and hashes determine what they hash. *)
LEMMA HashesInjective ==
    /\ \A x, a, b : LeafHash(x) # NodeHash(a, b)
    /\ \A x, y : LeafHash(x) = LeafHash(y) => x = y
    /\ \A a, b, c, d : NodeHash(a, b) = NodeHash(c, d) => a \in {c, d}
BY DEF LeafHash, NodeHash

(* The level above a level of n hashes: m of them, from below or nodes. *)
Above(w, m, v, n) ==
    /\ DOMAIN w = 1..m /\ w = [i \in 1..m |-> w[i]]
    /\ \A i \in 1..m :
         \/ \E j \in 1..n : w[i] = v[j]
         \/ \E j, l \in 1..n : w[i] = NodeHash(v[j], v[l])

LEMMA NextLevelIs ==
    ASSUME NEW n \in Nat \ {0}, NEW v, DOMAIN v = 1..n, v = [i \in 1..n |-> v[i]]
    PROVE  \E m \in Nat \ {0} : Above(NextLevel(v), m, v, n)
<1>. DEFINE R == {v[i] : i \in 1..n}
            m == (n + 1) \div 2
            w == NextLevel(v)
<1>1. v \in [1..n -> R]
    OBVIOUS
<1>2. v \in Seq(R) /\ Len(v) = n
    BY <1>1, SeqDef, LenProperties
<1>3. m \in Nat \ {0} /\ \A i \in 1..m : 2 * i - 1 \in 1..n /\ (2 * i <= n => 2 * i \in 1..n)
    OBVIOUS
<1>4. w = [i \in 1..m |-> IF 2 * i <= n THEN NodeHash(v[2 * i - 1], v[2 * i]) ELSE v[2 * i - 1]]
    BY <1>2 DEF NextLevel
<1>. HIDE DEF m, w
<1>5. ASSUME NEW i \in 1..m
      PROVE  \/ \E j \in 1..n : w[i] = v[j]
             \/ \E j, l \in 1..n : w[i] = NodeHash(v[j], v[l])
    <2>1. w[i] = IF 2 * i <= n THEN NodeHash(v[2 * i - 1], v[2 * i]) ELSE v[2 * i - 1]
        BY <1>4
    <2>2. PICK j \in 1..n : j = 2 * i - 1
        BY <1>3
    <2>3. CASE 2 * i <= n
        <3>1. PICK l \in 1..n : l = 2 * i
            BY <1>3, <2>3
        <3>. QED BY <2>1, <2>2, <2>3, <3>1
    <2>4. CASE ~(2 * i <= n)
        BY <2>1, <2>2, <2>4
    <2>. QED BY <2>3, <2>4
<1>6. DOMAIN w = 1..m /\ w = [i \in 1..m |-> w[i]]
    BY <1>4
<1>7. Above(w, m, v, n)
    BY <1>5, <1>6 DEF Above
<1>. QED BY <1>3, <1>7 DEF w

(* A proof that leads from a leaf to a hash of the tree starts at one of   *)
(* its leaves.                                                             *)
LEMMA ClimbFromLeaf ==
    ASSUME NEW S, NEW b \in Seq(S), b # <<>>, NEW leaf, NEW path, Len(path) \in Nat,
           Climb(leaf, path) = MerkleRoot(b)
    PROVE  \E i \in DOMAIN b : leaf = b[i]
<1>0. PICK L : L = [k \in Nat |-> LevelOf(b, k)]
    OBVIOUS
<1>1. /\ L[0] = [i \in DOMAIN b |-> LeafHash(b[i])]
      /\ \A k \in Nat : L[k + 1] = NextLevel(L[k])
      /\ MerkleRoot(b) = L[Len(b)][1]
    <2>1. \A k \in Nat : L[k] = LevelOf(b, k) /\ k + 1 \in Nat
        BY <1>0
    <2>2. L[0] = LevelOf(b, 0) /\ L[Len(b)] = LevelOf(b, Len(b))
        BY <2>1
    <2>3. L[0] = [i \in DOMAIN b |-> LeafHash(b[i])]
        BY <2>2, LevelsAre, Zenon
    <2>4. ASSUME NEW k \in Nat PROVE L[k + 1] = NextLevel(L[k])
        <3>1. L[k] = LevelOf(b, k) /\ L[k + 1] = LevelOf(b, k + 1)
            BY <2>1, Zenon
        <3>2. LevelOf(b, k + 1) = NextLevel(LevelOf(b, k))
            BY LevelsAre, Zenon
        <3>. QED BY <3>1, <3>2, Zenon
    <2>. QED BY <2>2, <2>3, <2>4 DEF MerkleRoot
<1>2. PICK c : /\ c[0] = LeafHash(leaf)
               /\ \A m \in Nat : c[m + 1] = NodeHash(c[m], path[m + 1])
               /\ Climb(leaf, path) = c[Len(path)]
    BY ClimbIs
<1>. DEFINE Belongs == \E i \in DOMAIN b : leaf = b[i]
            Level(k, n) == DOMAIN L[k] = 1..n /\ L[k] = [i \in 1..n |-> L[k][i]]
            Leads(k, n) == \A i \in 1..n : \A m \in Nat : c[m] = L[k][i] => Belongs
            N == {k \in Nat : \E n \in Nat \ {0} : Level(k, n) /\ Leads(k, n)}
<1>3. \A m \in Nat : m = 0 \/ \E j \in Nat : m = j + 1 /\ c[m] = NodeHash(c[j], path[m])
    <2>1. ASSUME NEW m \in Nat, m # 0 PROVE \E j \in Nat : m = j + 1 /\ c[m] = NodeHash(c[j], path[m])
        <3>1. PICK j \in Nat : m = j + 1
            BY <2>1
        <3>. QED BY <1>2, <3>1
    <2>. QED BY <2>1
<1>4. 0 \in N
    <2>1. PICK n \in Nat \ {0} : n = Len(b) /\ DOMAIN b = 1..n
        OBVIOUS
    <2>2. Level(0, n)
        BY <1>1, <2>1
    <2>3. ASSUME NEW i \in 1..n, NEW m \in Nat, c[m] = L[0][i] PROVE Belongs
        <3>1. i \in DOMAIN b /\ L[0][i] = LeafHash(b[i])
            BY <1>1, <2>1
        <3>2. m = 0
            BY <1>3, <2>3, <3>1, HashesInjective
        <3>3. LeafHash(leaf) = LeafHash(b[i])
            BY <1>2, <2>3, <3>1, <3>2
        <3>4. leaf = b[i]
            BY <3>3, HashesInjective
        <3>. QED BY <3>1, <3>4
    <2>. HIDE DEF Belongs, Level
    <2>. QED BY <2>2, <2>3
<1>5. ASSUME NEW k \in N PROVE k + 1 \in N
    <2>1. PICK n \in Nat \ {0} : Level(k, n) /\ Leads(k, n)
        OBVIOUS
    <2>2. k \in Nat /\ k + 1 \in Nat /\ L[k + 1] = NextLevel(L[k])
        BY <1>1
    <2>3. PICK v : v = L[k]
        OBVIOUS
    <2>4. DOMAIN v = 1..n /\ v = [i \in 1..n |-> v[i]]
        BY <2>1, <2>3
    <2>4a. PICK m \in Nat \ {0} : Above(NextLevel(v), m, v, n)
        BY <2>4, NextLevelIs, Zenon
    <2>5. /\ DOMAIN NextLevel(v) = 1..m /\ NextLevel(v) = [i \in 1..m |-> NextLevel(v)[i]]
          /\ \A i \in 1..m :
               \/ \E j \in 1..n : NextLevel(v)[i] = v[j]
               \/ \E j, l \in 1..n : NextLevel(v)[i] = NodeHash(v[j], v[l])
        BY <2>4a DEF Above
    <2>6. Level(k + 1, m)
        BY <2>2, <2>3, <2>5, Zenon
    <2>7. ASSUME NEW i \in 1..m, NEW t \in Nat, c[t] = L[k + 1][i] PROVE Belongs
        <3>1. c[t] = NextLevel(v)[i]
            BY <2>2, <2>3, <2>7
        <3>2. CASE \E j \in 1..n : NextLevel(v)[i] = v[j]
            <4>1. PICK j \in 1..n : c[t] = L[k][j]
                BY <2>3, <3>1, <3>2
            <4>. HIDE DEF Belongs
            <4>. QED BY <2>1, <4>1
        <3>3. CASE \E j, l \in 1..n : NextLevel(v)[i] = NodeHash(v[j], v[l])
            <4>1. PICK j \in 1..n, l \in 1..n : c[t] = NodeHash(L[k][j], L[k][l])
                BY <2>3, <3>1, <3>3
            <4>2. t # 0
                <5>1. PICK x, y : c[t] = NodeHash(x, y)
                    BY <4>1
                <5>2. LeafHash(leaf) # NodeHash(x, y)
                    BY HashesInjective
                <5>. QED BY <1>2, <5>1, <5>2
            <4>3. PICK s \in Nat : c[t] = NodeHash(c[s], path[t])
                BY <1>3, <4>2
            <4>4. c[s] \in {L[k][j], L[k][l]}
                <5>1. PICK x, y, z, q : x = c[s] /\ q = path[t] /\ y = L[k][j] /\ z = L[k][l]
                    OBVIOUS
                <5>2. NodeHash(x, q) = NodeHash(y, z)
                    BY <4>1, <4>3, <5>1
                <5>3. x \in {y, z}
                    BY <5>2, HashesInjective
                <5>. QED BY <5>1, <5>3
            <4>. HIDE DEF Belongs
            <4>. QED BY <2>1, <4>4
        <3>. QED BY <2>5, <3>2, <3>3
    <2>. HIDE DEF Belongs, Level
    <2>. QED BY <2>2, <2>6, <2>7
<1>6. N = Nat
    <2>. HIDE DEF N
    <2>1. N \in SUBSET Nat
        BY DEF N
    <2>. QED BY <1>4, <1>5, <2>1, NatSetInduction
<1>7. Len(b) \in N
    <2>. HIDE DEF N
    <2>. QED BY <1>6
<1>8. PICK n \in Nat \ {0} : Leads(Len(b), n)
    BY <1>7
<1>9. 1 \in 1..n /\ c[Len(path)] = L[Len(b)][1]
    <2>1. 1 \in 1..n
        OBVIOUS
    <2>. QED BY <1>1, <1>2, <2>1, Zenon
<1>. HIDE DEF Belongs
<1>10. Belongs
    BY <1>8, <1>9
<1>. QED BY <1>10 DEF Belongs

(* What is disclosed was committed to, by a live attestation. *)
LEMMA DisclosedCommitted == StorageInv => DisclosuresSound
<1>. SUFFICES ASSUME StorageInv, NEW u \in StoredUids, NEW leaf, NEW path \in KnownProofs, VerifyLeaf(u, leaf, path)
              PROVE  LiveNow(truth[u]) /\ truth[u].data # OtherData /\ leaf \in Committed(truth[u].data)
    BY DEF DisclosuresSound
<1>1. ReadAttestation(u) = truth[u] /\ truth[u] \in Attestation \cup {Nothing}
    BY ReadMeant
<1>2. /\ truth[u] # Nothing /\ truth[u].data # OtherData /\ VerifyAttestation(u)
      /\ VerifyProof(truth[u].data, leaf, path)
    BY <1>1 DEF VerifyLeaf
<1>3. truth[u].data \in AllData
    BY <1>1, <1>2 DEF Attestation
<1>4. PICK b \in Bundles : truth[u].data = MerkleRoot(b)
    BY <1>2, <1>3 DEF AllData
<1>5. Len(path) \in Nat
    <2>1. PICK n \in 0..MAX_PROOF : path \in [1..n -> KnownHashes]
        BY DEF KnownProofs
    <2>2. n \in Nat
        BY StorageAssumption
    <2>. QED BY <2>1, <2>2, SeqDef, LenProperties
<1>6. Climb(leaf, path) = MerkleRoot(b)
    BY <1>2, <1>4 DEF VerifyProof
<1>7. b \in Seq(Leaves) /\ b # <<>>
    BY BundleAssumption
<1>8. \E i \in DOMAIN b : leaf = b[i]
    BY <1>5, <1>6, <1>7, ClimbFromLeaf
<1>9. leaf \in Committed(truth[u].data)
    BY <1>4, <1>8 DEF Committed
<1>10. LiveNow(truth[u])
    BY <1>2, VerdictMeant
<1>. QED BY <1>2, <1>9, <1>10

(* For trees of any size and proofs of any depth, selective disclosure     *)
(* accepts nothing but the leaves that a live attestation commits to,      *)
(* through every sequence of issuing, renewing, revoking, pruning and      *)
(* moving records (verify_leaf, verify_proof_with).                        *)
THEOREM DisclosuresAlwaysSound == StorageSpec => []DisclosuresSound
BY DisclosedCommitted, StorageInitInv, StorageNextInv, PTL DEF StorageSpec

------------------------------------------------------------------------------
(* Every leaf has a proof.                                                 *)

(* n hashes. *)
Row(v, n) == n \in Nat \ {0} /\ DOMAIN v = 1..n /\ v = [i \in 1..n |-> v[i]]

LEMMA RowNext ==
    ASSUME NEW n, NEW v, Row(v, n)
    PROVE  /\ Row(NextLevel(v), (n + 1) \div 2)
           /\ \A i \in 1..((n + 1) \div 2) :
                NextLevel(v)[i] = IF 2 * i <= n THEN NodeHash(v[2 * i - 1], v[2 * i]) ELSE v[2 * i - 1]
<1>. DEFINE R == {v[i] : i \in 1..n}
            m == (n + 1) \div 2
            w == NextLevel(v)
<1>1. v \in [1..n -> R] /\ n \in Nat \ {0}
    BY DEF Row
<1>2. v \in Seq(R) /\ Len(v) = n
    BY <1>1, SeqDef, LenProperties
<1>3. m \in Nat \ {0}
    BY <1>1
<1>4. w = [i \in 1..m |-> IF 2 * i <= n THEN NodeHash(v[2 * i - 1], v[2 * i]) ELSE v[2 * i - 1]]
    BY <1>2 DEF NextLevel
<1>. HIDE DEF m, w
<1>5. Row(w, m)
    BY <1>3, <1>4 DEF Row
<1>6. \A i \in 1..m : w[i] = IF 2 * i <= n THEN NodeHash(v[2 * i - 1], v[2 * i]) ELSE v[2 * i - 1]
    BY <1>4
<1>. QED BY <1>5, <1>6 DEF m, w

(* Above the top nothing changes. *)
LEMMA RowTop ==
    ASSUME NEW v, Row(v, 1)
    PROVE  NextLevel(v) = v
<1>1. (1 + 1) \div 2 = 1 /\ 1 \in 1..1 /\ ~(2 * 1 <= 1) /\ 2 * 1 - 1 = 1
    OBVIOUS
<1>2. Row(NextLevel(v), 1) /\ NextLevel(v)[1] = v[1]
    BY <1>1, RowNext
<1>3. \A i \in 1..1 : NextLevel(v)[i] = v[i]
    BY <1>2
<1>4. NextLevel(v) = [i \in 1..1 |-> NextLevel(v)[i]] /\ v = [i \in 1..1 |-> v[i]]
    BY <1>2 DEF Row
<1>. QED BY <1>3, <1>4

(* Widths double. *)
LEMMA WidthIs == Width[0] = 1 /\ \A k \in Nat : Width[k] \in Nat \ {0} /\ Width[k + 1] = 2 * Width[k]
<1>. DEFINE Is(g) == g = [k \in Nat |-> IF k = 0 THEN 1 ELSE 2 * g[k - 1]]
            step == [k \in Nat |-> [x \in Nat |-> 2 * x]]
<1>1. PICK f \in [Nat -> Nat] : f[0] = 1 /\ \A n \in Nat : f[n + 1] = step[n][f[n]]
    <2>1. 1 \in Nat /\ step \in [Nat -> [Nat -> Nat]]
        OBVIOUS
    <2>. HIDE DEF step
    <2>2. \E f : Recursion(f, Nat, 1, step)
        BY <2>1, NatRecursion
    <2>. QED BY <2>2 DEF Recursion
<1>2. ASSUME NEW k \in Nat PROVE f[k] = IF k = 0 THEN 1 ELSE 2 * f[k - 1]
    <2>1. CASE k = 0
        BY <1>1, <2>1
    <2>2. CASE k # 0
        <3>1. PICK j \in Nat : j = k - 1 /\ j + 1 = k
            BY <2>2
        <3>2. f[j + 1] = step[j][f[j]] /\ f[j] \in Nat
            BY <1>1
        <3>3. step[j][f[j]] = 2 * f[j]
            BY <3>2
        <3>. QED BY <2>2, <3>1, <3>2, <3>3
    <2>. QED BY <2>1, <2>2
<1>3. Is(f)
    <2>1. f = [k \in Nat |-> f[k]]
        BY <1>1
    <2>. QED BY <1>2, <2>1
<1>4. Is(Width)
    <2>1. Width = CHOOSE g : Is(g)
        BY DEF Width
    <2>. HIDE DEF Is
    <2>. QED BY <1>3, <2>1
<1>5. Width[0] = 1
    BY <1>4
<1>6. ASSUME NEW k \in Nat PROVE Width[k + 1] = 2 * Width[k]
    <2>1. PICK j \in Nat : j = k + 1 /\ j # 0 /\ j - 1 = k
        OBVIOUS
    <2>2. Width[j] = 2 * Width[j - 1]
        BY <1>4, <2>1
    <2>. QED BY <2>1, <2>2
<1>. DEFINE N == {k \in Nat : Width[k] \in Nat \ {0}}
<1>7. 0 \in N
    BY <1>5
<1>8. ASSUME NEW k \in N PROVE k + 1 \in N
    <2>1. PICK x \in Nat \ {0} : x = Width[k]
        OBVIOUS
    <2>2. 2 * x \in Nat \ {0}
        OBVIOUS
    <2>. QED BY <1>6, <2>1, <2>2
<1>9. N = Nat
    <2>. HIDE DEF N
    <2>1. N \in SUBSET Nat
        BY DEF N
    <2>. QED BY <1>7, <1>8, <2>1, NatSetInduction
<1>10. \A k \in Nat : Width[k] \in Nat \ {0}
    BY <1>9
<1>. HIDE DEF N
<1>. QED BY <1>5, <1>6, <1>10

(* Climbing no step, and one more. *)
LEMMA ClimbNone == ASSUME NEW leaf PROVE Climb(leaf, <<>>) = LeafHash(leaf)
<1>1. PICK c : c[0] = LeafHash(leaf) /\ Climb(leaf, <<>>) = c[Len(<<>>)]
    BY ClimbIs
<1>2. Len(<<>>) = 0
    OBVIOUS
<1>. QED BY <1>1, <1>2

LEMMA ClimbMore ==
    ASSUME NEW leaf, NEW H, NEW p \in Seq(H), NEW x \in H
    PROVE  Climb(leaf, Append(p, x)) = NodeHash(Climb(leaf, p), x)
<1>1. PICK n \in Nat : n = Len(p)
    OBVIOUS
<1>2. Append(p, x) \in Seq(H) /\ Len(Append(p, x)) = n + 1 /\ Append(p, x)[n + 1] = x /\ \A m \in 1..n : Append(p, x)[m] = p[m]
    BY <1>1
<1>3. PICK q : q = Append(p, x)
    OBVIOUS
<1>4. Len(q) = n + 1 /\ q[n + 1] = x /\ \A m \in 1..n : q[m] = p[m]
    BY <1>2, <1>3
<1>5. PICK c : /\ c[0] = LeafHash(leaf)
               /\ \A m \in Nat : c[m + 1] = NodeHash(c[m], p[m + 1])
               /\ Climb(leaf, p) = c[Len(p)]
    BY ClimbIs
<1>6. PICK e : /\ e[0] = LeafHash(leaf)
               /\ \A m \in Nat : e[m + 1] = NodeHash(e[m], q[m + 1])
               /\ Climb(leaf, q) = e[Len(q)]
    BY ClimbIs
<1>. DEFINE N == {m \in Nat : m <= n => c[m] = e[m]}
<1>7. 0 \in N
    BY <1>5, <1>6
<1>8. ASSUME NEW m \in N PROVE m + 1 \in N
    <2>. SUFFICES ASSUME m + 1 <= n PROVE c[m + 1] = e[m + 1]
        OBVIOUS
    <2>1. m \in Nat /\ c[m] = e[m] /\ m + 1 \in 1..n
        OBVIOUS
    <2>2. q[m + 1] = p[m + 1]
        BY <1>4, <2>1
    <2>. QED BY <1>5, <1>6, <2>1, <2>2
<1>9. N = Nat
    <2>. HIDE DEF N
    <2>1. N \in SUBSET Nat
        BY DEF N
    <2>. QED BY <1>7, <1>8, <2>1, NatSetInduction
<1>10. c[n] = e[n]
    BY <1>9
<1>11. e[n + 1] = NodeHash(e[n], q[n + 1])
    BY <1>6
<1>12. Climb(leaf, q) = NodeHash(Climb(leaf, p), x)
    BY <1>1, <1>4, <1>5, <1>6, <1>10, <1>11
<1>. QED BY <1>3, <1>12

(* The rows of a tree become shorter, down to one hash. *)
Narrow(n, k, all) == n <= all - k \/ n = 1

LEMMA RowsShrink ==
    ASSUME NEW S, NEW b \in Seq(S), b # <<>>
    PROVE  \A k \in Nat : \E n : Row(LevelOf(b, k), n) /\ Narrow(n, k, Len(b))
<1>. DEFINE N == {k \in Nat : \E n : Row(LevelOf(b, k), n) /\ Narrow(n, k, Len(b))}
<1>0. Len(b) \in Nat \ {0} /\ DOMAIN b = 1..Len(b)
    OBVIOUS
<1>1. 0 \in N
    <2>1. PICK v : v = LevelOf(b, 0)
        OBVIOUS
    <2>2. v = [i \in DOMAIN b |-> LeafHash(b[i])]
        BY <2>1, LevelsAre, Zenon
    <2>3. Row(v, Len(b))
        BY <1>0, <2>2 DEF Row
    <2>4. Narrow(Len(b), 0, Len(b))
        BY <1>0 DEF Narrow
    <2>. QED BY <2>1, <2>3, <2>4
<1>2. ASSUME NEW k \in N PROVE k + 1 \in N
    <2>1. k \in Nat /\ k + 1 \in Nat
        OBVIOUS
    <2>2. PICK n : Row(LevelOf(b, k), n) /\ Narrow(n, k, Len(b))
        OBVIOUS
    <2>3. LevelOf(b, k + 1) = NextLevel(LevelOf(b, k))
        BY <2>1, LevelsAre
    <2>4. PICK m : m = (n + 1) \div 2
        OBVIOUS
    <2>5. Row(LevelOf(b, k + 1), m)
        BY <2>2, <2>3, <2>4, RowNext
    <2>6. n \in Nat \ {0}
        BY <2>2 DEF Row
    <2>7. Narrow(m, k + 1, Len(b))
        BY <1>0, <2>1, <2>2, <2>4, <2>6 DEF Narrow
    <2>. QED BY <2>1, <2>5, <2>7
<1>3. N = Nat
    <2>. HIDE DEF N
    <2>1. N \in SUBSET Nat
        BY DEF N
    <2>. QED BY <1>1, <1>2, <2>1, NatSetInduction
<1>. QED BY <1>3

(* A row k above the leaves of a tree no wider than Width[d] is no wider   *)
(* than Width[d - k].                                                      *)
LEMMA RowsHalve ==
    ASSUME NEW S, NEW b \in Seq(S), b # <<>>, NEW d \in Nat, Len(b) <= Width[d]
    PROVE  Row(LevelOf(b, d), 1)
<1>. DEFINE N == {k \in Nat : k <= d => \E n : Row(LevelOf(b, k), n) /\ n <= Width[d - k]}
<1>0. Len(b) \in Nat \ {0} /\ DOMAIN b = 1..Len(b)
    OBVIOUS
<1>1. 0 \in N
    <2>1. PICK v : v = LevelOf(b, 0)
        OBVIOUS
    <2>2. v = [i \in DOMAIN b |-> LeafHash(b[i])]
        BY <2>1, LevelsAre, Zenon
    <2>3. Row(v, Len(b))
        BY <1>0, <2>2 DEF Row
    <2>4. d - 0 = d
        OBVIOUS
    <2>. QED BY <2>1, <2>3, <2>4
<1>2. ASSUME NEW k \in N PROVE k + 1 \in N
    <2>. SUFFICES ASSUME k + 1 <= d PROVE \E n : Row(LevelOf(b, k + 1), n) /\ n <= Width[d - (k + 1)]
        OBVIOUS
    <2>1. k \in Nat /\ k + 1 \in Nat /\ k <= d
        OBVIOUS
    <2>2. PICK n : Row(LevelOf(b, k), n) /\ n <= Width[d - k]
        BY <2>1
    <2>3. LevelOf(b, k + 1) = NextLevel(LevelOf(b, k))
        BY <2>1, LevelsAre
    <2>4. PICK m : m = (n + 1) \div 2
        OBVIOUS
    <2>5. Row(LevelOf(b, k + 1), m)
        BY <2>2, <2>3, <2>4, RowNext
    <2>6. n \in Nat \ {0}
        BY <2>2 DEF Row
    <2>7. PICK j \in Nat : j = d - (k + 1) /\ j + 1 = d - k
        BY <2>1
    <2>8. PICK x \in Nat \ {0} : x = Width[j] /\ Width[j + 1] = 2 * x
        BY WidthIs
    <2>9. n <= 2 * x
        BY <2>2, <2>7, <2>8
    <2>10. m <= x
        BY <2>4, <2>6, <2>9
    <2>. QED BY <2>5, <2>7, <2>8, <2>10
<1>3. N = Nat
    <2>. HIDE DEF N
    <2>1. N \in SUBSET Nat
        BY DEF N
    <2>. QED BY <1>1, <1>2, <2>1, NatSetInduction
<1>4. PICK n : Row(LevelOf(b, d), n) /\ n <= Width[d - d]
    <2>1. d \in N
        <3>. HIDE DEF N
        <3>. QED BY <1>3
    <2>. QED BY <2>1
<1>5. d - d = 0 /\ Width[0] = 1 /\ n \in Nat \ {0}
    BY <1>4, WidthIs DEF Row
<1>6. n = 1
    BY <1>4, <1>5
<1>. QED BY <1>4, <1>6

(* The top row is the root's. *)
LEMMA TopIsRoot ==
    ASSUME NEW S, NEW b \in Seq(S), b # <<>>, NEW d \in Nat, Len(b) <= Width[d]
    PROVE  MerkleRoot(b) = LevelOf(b, d)[1]
<1>0. Len(b) \in Nat \ {0}
    OBVIOUS
<1>1. ASSUME NEW k \in Nat, Row(LevelOf(b, k), 1)
      PROVE  \A j \in Nat : LevelOf(b, k + j) = LevelOf(b, k)
    <2>. DEFINE N == {j \in Nat : LevelOf(b, k + j) = LevelOf(b, k)}
    <2>1. 0 \in N
        <3>1. k + 0 = k
            OBVIOUS
        <3>. QED BY <3>1
    <2>2. ASSUME NEW j \in N PROVE j + 1 \in N
        <3>1. PICK i \in Nat : i = k + j /\ i + 1 = k + (j + 1)
            OBVIOUS
        <3>2. LevelOf(b, i) = LevelOf(b, k)
            BY <3>1
        <3>3. LevelOf(b, i + 1) = NextLevel(LevelOf(b, i))
            BY LevelsAre
        <3>4. NextLevel(LevelOf(b, k)) = LevelOf(b, k)
            BY <1>1, RowTop
        <3>. QED BY <3>1, <3>2, <3>3, <3>4
    <2>3. N = Nat
        <3>. HIDE DEF N
        <3>1. N \in SUBSET Nat
            BY DEF N
        <3>. QED BY <2>1, <2>2, <3>1, NatSetInduction
    <2>. QED BY <2>3
<1>2. Row(LevelOf(b, d), 1)
    BY RowsHalve
<1>3. Row(LevelOf(b, Len(b)), 1)
    <2>1. PICK n : Row(LevelOf(b, Len(b)), n) /\ Narrow(n, Len(b), Len(b))
        BY <1>0, RowsShrink
    <2>2. n \in Nat \ {0}
        BY <2>1 DEF Row
    <2>3. n = 1
        BY <1>0, <2>1, <2>2 DEF Narrow
    <2>. QED BY <2>1, <2>3
<1>4. LevelOf(b, Len(b)) = LevelOf(b, d)
    <2>1. CASE Len(b) <= d
        <3>1. PICK j \in Nat : Len(b) + j = d
            <4>1. d - Len(b) \in Nat /\ Len(b) + (d - Len(b)) = d
                BY <1>0, <2>1
            <4>. QED BY <4>1
        <3>. QED BY <1>0, <1>1, <1>3, <3>1
    <2>2. CASE ~(Len(b) <= d)
        <3>1. PICK j \in Nat : d + j = Len(b)
            <4>1. Len(b) - d \in Nat /\ d + (Len(b) - d) = Len(b)
                BY <1>0, <2>2
            <4>. QED BY <4>1
        <3>. QED BY <1>1, <1>2, <3>1
    <2>. QED BY <2>1, <2>2
<1>. QED BY <1>4 DEF MerkleRoot

(* From every leaf a proof leads to every row, no longer than the row is   *)
(* high.                                                                   *)
Reached(b, i, k, j, p) == j \in DOMAIN LevelOf(b, k) /\ Len(p) <= k /\ Climb(b[i], p) = LevelOf(b, k)[j]

LEMMA RowsReached ==
    ASSUME NEW b \in Bundles, NEW i \in DOMAIN b
    PROVE  \A k \in Nat : k <= MAX_PROOF => \E j : \E p \in Seq(TreeHashes) : Reached(b, i, k, j, p)
<1>. DEFINE Q(k) == \E j : \E p \in Seq(TreeHashes) : Reached(b, i, k, j, p)
            N == {k \in Nat : k <= MAX_PROOF => Q(k)}
<1>0. b \in Seq(Leaves) /\ b # <<>> /\ MAX_PROOF \in Nat
    BY BundleAssumption, StorageAssumption
<1>1. 0 \in N
    <2>1. LevelOf(b, 0) = [x \in DOMAIN b |-> LeafHash(b[x])]
        BY LevelsAre
    <2>2. i \in DOMAIN LevelOf(b, 0) /\ LevelOf(b, 0)[i] = LeafHash(b[i])
        BY <2>1
    <2>3. <<>> \in Seq(TreeHashes) /\ Len(<<>>) <= 0
        OBVIOUS
    <2>4. Climb(b[i], <<>>) = LeafHash(b[i])
        BY ClimbNone
    <2>5. Reached(b, i, 0, i, <<>>)
        BY <2>2, <2>3, <2>4 DEF Reached
    <2>. QED BY <2>3, <2>5
<1>2. ASSUME NEW k \in N PROVE k + 1 \in N
    <2>. SUFFICES ASSUME k + 1 <= MAX_PROOF PROVE Q(k + 1)
        OBVIOUS
    <2>1. k \in Nat /\ k \in 0..MAX_PROOF
        BY <1>0
    <2>2. PICK j : \E p \in Seq(TreeHashes) : Reached(b, i, k, j, p)
        BY <2>1
    <2>17. PICK p \in Seq(TreeHashes) : Reached(b, i, k, j, p)
        BY <2>2
    <2>3. PICK v, w : v = LevelOf(b, k) /\ w = LevelOf(b, k + 1)
        OBVIOUS
    <2>4. PICK n : Row(v, n)
        BY <1>0, <2>1, <2>3, RowsShrink
    <2>5. w = NextLevel(v)
        BY <2>1, <2>3, LevelsAre
    <2>6. PICK m : m = (n + 1) \div 2
        OBVIOUS
    <2>7. /\ Row(w, m)
          /\ \A x \in 1..m : w[x] = IF 2 * x <= n THEN NodeHash(v[2 * x - 1], v[2 * x]) ELSE v[2 * x - 1]
        BY <2>4, <2>5, <2>6, RowNext
    <2>8. n \in Nat \ {0} /\ DOMAIN v = 1..n /\ DOMAIN w = 1..m
        BY <2>4, <2>7 DEF Row
    <2>9. j \in 1..n /\ Len(p) <= k /\ Climb(b[i], p) = v[j] /\ Len(p) \in Nat
        BY <2>17, <2>3, <2>8 DEF Reached
    <2>10. \A x \in 1..n : v[x] \in TreeHashes
        BY <2>1, <2>3, <2>8 DEF TreeHashes
    <2>11. PICK x \in 1..m : j = 2 * x - 1 \/ (j = 2 * x /\ 2 * x - 1 \in 1..n)
        <3>1. PICK x : x = (j + 1) \div 2
            OBVIOUS
        <3>2. x \in 1..m /\ (j = 2 * x - 1 \/ (j = 2 * x /\ 2 * x - 1 \in 1..n))
            BY <2>6, <2>8, <2>9, <3>1
        <3>. QED BY <3>2
    <2>12. w[x] = IF 2 * x <= n THEN NodeHash(v[2 * x - 1], v[2 * x]) ELSE v[2 * x - 1]
        BY <2>7
    <2>13. ASSUME NEW y \in TreeHashes, w[x] = NodeHash(v[j], y) PROVE Q(k + 1)
        <3>1. Append(p, y) \in Seq(TreeHashes) /\ Len(Append(p, y)) = Len(p) + 1
            OBVIOUS
        <3>2. Climb(b[i], Append(p, y)) = NodeHash(Climb(b[i], p), y)
            BY ClimbMore
        <3>5. Len(Append(p, y)) <= k + 1
            BY <2>1, <2>9, <3>1
        <3>6. Climb(b[i], Append(p, y)) = w[x]
            BY <2>9, <2>13, <3>2
        <3>3. PICK q \in Seq(TreeHashes) : q = Append(p, y) /\ Len(q) <= k + 1 /\ Climb(b[i], q) = w[x]
            BY <3>1, <3>5, <3>6
        <3>4. Reached(b, i, k + 1, x, q)
            BY <2>3, <2>8, <3>3 DEF Reached
        <3>. QED BY <3>4
    <2>14. CASE 2 * x <= n /\ j = 2 * x - 1
        <3>1. PICK l \in 1..n : l = 2 * x
            BY <2>8, <2>14
        <3>2. w[x] = NodeHash(v[j], v[l])
            BY <2>12, <2>14, <3>1
        <3>. QED BY <2>10, <2>13, <3>2
    <2>15. CASE 2 * x <= n /\ j = 2 * x
        <3>1. PICK l \in 1..n : l = 2 * x - 1
            BY <2>8, <2>15
        <3>2. w[x] = NodeHash(v[l], v[j])
            BY <2>12, <2>15, <3>1
        <3>3. NodeHash(v[l], v[j]) = NodeHash(v[j], v[l])
            BY DEF NodeHash
        <3>. QED BY <2>10, <2>13, <3>2, <3>3
    <2>16. CASE ~(2 * x <= n)
        <3>1. j = 2 * x - 1
            BY <2>8, <2>9, <2>11, <2>16
        <3>2. w[x] = v[j]
            BY <2>12, <2>16, <3>1
        <3>3. Len(p) <= k + 1
            BY <2>1, <2>9
        <3>4. Reached(b, i, k + 1, x, p)
            BY <2>3, <2>8, <2>9, <3>2, <3>3 DEF Reached
        <3>. QED BY <3>4
    <2>. HIDE DEF Q
    <2>. QED BY <2>11, <2>14, <2>15, <2>16
<1>3. N = Nat
    <2>. HIDE DEF N
    <2>1. N \in SUBSET Nat
        BY DEF N
    <2>. QED BY <1>1, <1>2, <2>1, NatSetInduction
<1>. HIDE DEF Q
<1>4. \A k \in Nat : k <= MAX_PROOF => Q(k)
    BY <1>3
<1>. QED BY <1>4 DEF Q

(* What a live attestation commits to can be disclosed. *)
LEMMA CommittedDisclosed == StorageInv => DisclosuresComplete
<1>. SUFFICES ASSUME StorageInv, NEW u \in StoredUids, LiveNow(truth[u]), truth[u].data # OtherData,
                     NEW leaf \in Committed(truth[u].data)
              PROVE  \E path \in KnownProofs : VerifyLeaf(u, leaf, path)
    BY DEF DisclosuresComplete
<1>1. PICK b \in Bundles : MerkleRoot(b) = truth[u].data /\ \E i \in DOMAIN b : leaf = b[i]
    BY DEF Committed
<1>2. PICK i \in DOMAIN b : leaf = b[i]
    BY <1>1
<1>3. MAX_PROOF \in Nat /\ MAX_PROOF <= MAX_PROOF /\ b \in Seq(Leaves) /\ b # <<>> /\ Len(b) <= Width[MAX_PROOF]
    BY BundleAssumption, StorageAssumption
<1>13. PICK j : \E p \in Seq(TreeHashes) : Reached(b, i, MAX_PROOF, j, p)
    BY <1>3, RowsReached
<1>4. PICK p \in Seq(TreeHashes) : Reached(b, i, MAX_PROOF, j, p)
    BY <1>13
<1>5. Row(LevelOf(b, MAX_PROOF), 1)
    BY <1>3, RowsHalve
<1>6. j = 1
    BY <1>4, <1>5 DEF Reached, Row
<1>7. Climb(leaf, p) = MerkleRoot(b) /\ Len(p) <= MAX_PROOF
    BY <1>2, <1>3, <1>4, <1>6, TopIsRoot DEF Reached
<1>8. p \in KnownProofs
    <2>1. PICK n \in 0..MAX_PROOF : n = Len(p)
        BY <1>3, <1>7
    <2>2. p \in [1..n -> TreeHashes]
        BY <2>1
    <2>3. p \in [1..n -> KnownHashes]
        BY <2>2 DEF KnownHashes
    <2>. QED BY <2>3 DEF KnownProofs
<1>9. VerifyAttestation(u)
    BY VerdictMeant
<1>10. ReadAttestation(u) = truth[u] /\ truth[u] # Nothing
    BY ReadMeant DEF LiveNow
<1>11. VerifyProof(truth[u].data, leaf, p)
    BY <1>1, <1>7 DEF VerifyProof
<1>12. VerifyLeaf(u, leaf, p)
    BY <1>9, <1>10, <1>11 DEF VerifyLeaf
<1>. QED BY <1>8, <1>12

(* A tree whose leaves number at most 2^MAX_MERKLE_PROOF_DEPTH hides none  *)
(* of them: each has a proof that verify_leaf accepts as long as the       *)
(* attestation lives.                                                      *)
THEOREM DisclosuresAlwaysComplete == StorageSpec => []DisclosuresComplete
BY CommittedDisclosed, StorageInitInv, StorageNextInv, PTL DEF StorageSpec

------------------------------------------------------------------------------
(* Every reader of the contract answers for the attestation that was last  *)
(* meant, whatever layout its record was written in and however often it   *)
(* was moved by migrate_attestations, renewed, revoked, pruned and issued  *)
(* again: its fields and verdict, one by one and in a batch, the ledgers   *)
(* it is anchored to, the signed copies, and the disclosure of leaves.     *)
(* For any UIDs, data, trees, gaps between ledgers and batch sizes.        *)
THEOREM StorageReadersAgree == StorageSpec => []ReadersAgree
<1>1. StorageInv => ReadersAgree
    <2>. SUFFICES ASSUME StorageInv PROVE ReadersAgree
        OBVIOUS
    <2>0. Time \in Nat /\ current \in TimestampAnchor
        BY DEF StorageInv, StorageTypeOK, Time, TimestampAnchor
    <2>1. ASSUME NEW u \in StoredUids
          PROVE  /\ ReadAttestation(u) = truth[u]
                 /\ VerifyAttestation(u) <=> LiveNow(truth[u])
                 /\ truth[u] # Nothing => GetValidFrom(u) = truth[u].valid_from
        <3>1. ReadAttestation(u) = truth[u] /\ truth[u] \in Attestation \cup {Nothing}
            BY ReadMeant
        <3>2. VerifyAttestation(u) <=> LiveNow(truth[u])
            BY VerdictMeant
        <3>. QED BY <3>1, <3>2 DEF GetValidFrom
    <2>2. ASSUME NEW u \in StoredUids, NEW c \in Claimable \cup stamped[u]
          PROVE  CheckClaim(u, c) <=> c \in stamped[u]
        <3>1. AnchorsStamped(u) /\ stamped[u] \subseteq TimestampAnchor
              /\ anchors[u][FALSE] \in TimestampAnchor \cup {Nothing}
              /\ anchors[u][TRUE] \in TimestampAnchor \cup {Nothing}
            <4>1. AnchorsStamped(u)
                BY DEF StorageInv
            <4>2. stamped[u] \in SUBSET TimestampAnchor
                BY DEF StorageInv, StorageTypeOK
            <4>3. anchors[u] \in [BOOLEAN -> TimestampAnchor \cup {Nothing}]
                BY DEF StorageInv, StorageTypeOK
            <4>. QED BY <4>1, <4>2, <4>3
        <3>2. c \in TimestampAnchor /\ c # Nothing
            <4>1. Claimable \subseteq TimestampAnchor
                BY StorageAssumption DEF Claimable, StorageTimes, TimestampAnchor
            <4>. QED BY <3>1, <4>1, NothingAssumption
        <3>3. ASSUME CheckClaim(u, c) PROVE c \in stamped[u]
            BY <3>1, <3>2, <3>3 DEF CheckClaim, AnchorsStamped
        <3>4. ASSUME c \in stamped[u] PROVE CheckClaim(u, c)
            <4>1. c \in {anchors[u][FALSE], anchors[u][TRUE]} /\ Earlier(c, current)
                <5>1. c \in {anchors[u][FALSE], anchors[u][TRUE]}
                    BY <3>1, <3>4 DEF AnchorsStamped
                <5>2. PICK b \in BOOLEAN : c = anchors[u][b]
                    BY <5>1
                <5>3. \A d \in BOOLEAN : anchors[u][d] # Nothing => Earlier(anchors[u][d], current)
                    BY <3>1 DEF AnchorsStamped
                <5>. QED BY <3>2, <5>1, <5>2, <5>3
            <4>2. anchors[u][FALSE] # Nothing \/ anchors[u][TRUE] # Nothing
                BY <3>2, <4>1
            <4>3. ASSUME anchors[u][FALSE] # Nothing, anchors[u][TRUE] # Nothing
                  PROVE  /\ anchors[u][TRUE].ledger_sequence >= anchors[u][FALSE].ledger_sequence
                         /\ anchors[u][TRUE].ledger_timestamp >= anchors[u][FALSE].ledger_timestamp
                <5>1. /\ Earlier(anchors[u][FALSE], anchors[u][TRUE])
                      /\ anchors[u][FALSE] \in TimestampAnchor /\ anchors[u][TRUE] \in TimestampAnchor
                    BY <3>1, <4>3 DEF AnchorsStamped
                <5>. QED BY <5>1 DEF Earlier, TimestampAnchor
            <4>. QED BY <4>1, <4>2, <4>3 DEF CheckClaim, Earlier, Time
        <3>. QED BY <3>3, <3>4
    <2>3. ASSUME NEW u \in StoredUids PROVE CopiesFollow(u)
        <3>. SUFFICES ASSUME NEW i \in Inherited, VerifyOffchain(u, i.record)
                      PROVE  /\ schemaOpen /\ LiveNow(i.record)
                             /\ truth[u] # Nothing => truth[u].revocation_time = 0
            BY DEF CopiesFollow
        <3>1. i.record \in Attestation /\ i.record # Nothing /\ i.record.valid_from \in Nat
            <4>1. OtherData \in AllData
                BY DEF AllData
            <4>2. i.record \in Attestation
                BY <4>1 DEF Inherited, Legacy, Attestation
            <4>. QED BY <4>2, NothingAssumption DEF Attestation
        <3>2. schemaOpen /\ LiveNow(i.record)
            BY <2>0, <3>1 DEF VerifyOffchain, LiveNow
        <3>3. plain[u] = Nothing <=> truth[u] = Nothing
            BY ReadMeant
        <3>4. plain[u] # Nothing => truth[u] = plain[u].record
            BY DEF VerifyOffchain, InLegacyLayout, StorageInv, EntriesMeant
        <3>. QED BY <3>2, <3>3, <3>4 DEF VerifyOffchain
    <2>4. ASSUME NEW us \in UNION {[1..n -> StoredUids] : n \in 0..MAX_VERIFY_BATCH}
          PROVE  VerifyAllAttestations(us) <=> \A i \in DOMAIN us : VerifyAttestations(us)[i]
        <3>1. PICK n \in 0..MAX_VERIFY_BATCH : us \in [1..n -> StoredUids]
            OBVIOUS
        <3>. QED BY <3>1, BatchVerdict
    <2>. QED BY <2>1, <2>2, <2>3, <2>4, DisclosedCommitted, CommittedDisclosed DEF ReadersAgree
<1>. QED BY <1>1, StorageInitInv, StorageNextInv, PTL DEF StorageSpec
==============================================================================
