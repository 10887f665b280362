--------------------------- MODULE FeeBumpSubmitter ---------------------------
(***************************************************************************)
(* The submitter that raises the fee of stuck transactions                 *)
(* (packages/soroban-sas-sdk/src/transaction_submitter.rs).  Its methods   *)
(* take &mut self, so one runs at a time, but the network moves between    *)
(* their awaits: submit reads the account's sequence before it sends, and  *)
(* check_and_bump reads the ledger number once, then for each entry its    *)
(* status and the sequence before it sends a bump.                         *)
(*                                                                         *)
(* Transaction t has the sequence number t.  An envelope is a transaction  *)
(* with its fee; bumps replace the fee and keep the number.  The network   *)
(* is external: answers get lost after a send, envelopes are dropped, and  *)
(* a status may be looked up by the hash of the original or through the    *)
(* bump that carried it.                                                   *)
(***************************************************************************)
EXTENDS Naturals, FiniteSets

CONSTANTS
    MaxTx,                     \* transactions 1..MaxTx
    NotTracked,                \* no entry
    BaseFees,                  \* fees callers submit with
    pending_ledger_threshold,
    multiplier_percent,        \* fee_bump_multiplier, in hundredths
    max_fee_strops,
    max_attempts,
    MaxClosed                  \* bound: ledgers closed

(* FeeBumpStrategy::validate *)
ValidStrategy ==
    /\ pending_ledger_threshold \in Nat \ {0}
    /\ multiplier_percent \in Nat /\ multiplier_percent > 100
    /\ max_fee_strops \in Nat \ {0}
    /\ max_attempts \in Nat \ {0}
    /\ BaseFees \subseteq Nat \ {0}

(* PendingTransaction: the fee of the envelope that is on record, the      *)
(* ledger it was sent at and the bumps made.                               *)
PendingTransaction == [fee : Nat, at : Nat, attempts : Nat]

ASSUME BumpAssumption ==
    ValidStrategy /\ MaxTx \in Nat /\ MaxClosed \in Nat /\ NotTracked \notin PendingTransaction

Txs == 1..MaxTx

VARIABLES
    closed,    \* the latest ledger
    sequence,  \* the account's sequence
    offered,   \* every envelope that was sent: [tx, fee]
    waiting,   \* those the network holds
    chosen,    \* the envelope of each transaction that was included
    pending,   \* TransactionSubmitter.pending, by original transaction
    accepted,  \* history: transactions submit returned Ok for
    call       \* the method that is running and what it has read

bumpVars == <<closed, sequence, offered, waiting, chosen, pending, accepted, call>>

Idle == [op |-> "idle", tx |-> 0, fee |-> 0, latest |-> 0, todo |-> {}]

Envelope(t, fee) == [tx |-> t, fee |-> fee]

Larger(a, b) == IF a > b THEN a ELSE b

(* next_fee: the product is rounded up; 0 stands for FeeCapExceeded. *)
NextFee(fee) ==
    LET multiplied == (fee * multiplier_percent + 99) \div 100
        next       == Larger(multiplied, fee + 1)
    IN  IF next > max_fee_strops THEN 0 ELSE next

------------------------------------------------------------------------------
(* submit; callers submit each transaction once.                           *)

SubmitStart(t, fee) ==
    /\ call = Idle /\ t \notin accepted /\ \A e \in offered : e.tx # t
    /\ fee <= max_fee_strops
    /\ t = sequence + 1
    /\ call' = [Idle EXCEPT !.op = "ledger", !.tx = t, !.fee = fee]
    /\ UNCHANGED <<closed, sequence, offered, waiting, chosen, pending, accepted>>

(* get_latest_ledger *)
SubmitLedger ==
    /\ call.op = "ledger"
    /\ call' = [call EXCEPT !.op = "submit", !.latest = closed]
    /\ UNCHANGED <<closed, sequence, offered, waiting, chosen, pending, accepted>>

(* submit_with_retry sends the same envelope until it is answered or the   *)
(* retries are used up, and each sending may reach the network or not.     *)
(* Confirmed, Pending and Rejected are its answers; "error" stands for     *)
(* the errors it gives up on.  A node may keep a sending whose answer is   *)
(* lost (502 to 504) and the next sending be rejected.                     *)
Deliver(e, answer) ==
    /\ offered' = offered \cup {e}
    /\ \/ /\ answer \in {"pending", "rejected", "error"} /\ e.tx > sequence
          /\ waiting' = waiting \cup {e}
          /\ UNCHANGED <<sequence, chosen>>
       \/ /\ answer = "confirmed" /\ e.tx = sequence + 1
          /\ sequence' = e.tx /\ chosen' = [chosen EXCEPT ![e.tx] = e.fee]
          /\ UNCHANGED waiting
       \/ answer \in {"rejected", "error"} /\ UNCHANGED <<sequence, waiting, chosen>>

Track(fee, latest, attempts) ==
    [fee |-> fee, at |-> latest, attempts |-> attempts]

SubmitSend(answer) ==
    /\ call.op = "submit"
    /\ Deliver(Envelope(call.tx, call.fee), answer)
    /\ accepted' = IF answer \in {"pending", "confirmed"} THEN accepted \cup {call.tx} ELSE accepted
    /\ pending' = IF answer = "pending"
                    THEN [pending EXCEPT ![call.tx] = Track(call.fee, call.latest, 0)]
                    ELSE pending
    /\ call' = Idle
    /\ UNCHANGED closed

------------------------------------------------------------------------------
(* check_and_bump, with maybe_bump.                                        *)

CheckStart ==
    /\ call = Idle
    /\ \E t \in Txs : pending[t] # NotTracked
    /\ call' = [Idle EXCEPT !.op = "check", !.latest = closed,
                            !.todo = {t \in Txs : pending[t] # NotTracked}]
    /\ UNCHANGED <<closed, sequence, offered, waiting, chosen, pending, accepted>>

Done(t) ==
    LET rest == call.todo \ {t}
    IN  call' = IF rest = {} THEN Idle ELSE [call EXCEPT !.op = "check", !.tx = 0, !.todo = rest]

(* `?`: an error ends the whole round. *)
Abort == call' = Idle

(* get_transaction_status: Confirmed or Failed only for an envelope that   *)
(* was included.                                                           *)
Settled(t) == chosen[t] # 0

Forget(t) == pending' = [pending EXCEPT ![t] = NotTracked]

(* Mutant: a transaction the node does not know is given up. *)
CheckStatus_Forgets(t, found) ==
    /\ call.op = "check" /\ t \in call.todo
    /\ found => Settled(t)
    /\ Forget(t) /\ Done(t)
    /\ UNCHANGED <<closed, sequence, offered, waiting, chosen, accepted>>

CheckStatus(t, found) ==
    /\ call.op = "check" /\ t \in call.todo
    /\ found => Settled(t)
    /\ IF found
         THEN Forget(t) /\ Done(t)
         ELSE /\ IF call.latest < pending[t].at + pending_ledger_threshold
                   THEN Done(t)
                   ELSE IF pending[t].attempts >= max_attempts
                          THEN Abort
                          ELSE call' = [call EXCEPT !.op = "bump", !.tx = t]
              /\ UNCHANGED pending
    /\ UNCHANGED <<closed, sequence, offered, waiting, chosen, accepted>>

(* get_account_sequence and next_fee, then sign_fee_bump. *)
BumpCheck ==
    /\ call.op = "bump"
    /\ IF call.tx # sequence + 1 \/ NextFee(pending[call.tx].fee) = 0
         THEN Abort
         ELSE call' = [call EXCEPT !.op = "send", !.fee = NextFee(pending[call.tx].fee)]
    /\ UNCHANGED <<closed, sequence, offered, waiting, chosen, pending, accepted>>

BumpSend(answer) ==
    /\ call.op = "send"
    /\ LET t == call.tx
       IN  /\ Deliver(Envelope(t, call.fee), answer)
           /\ CASE answer = "pending"   -> /\ pending' = [pending EXCEPT ![t] =
                                                Track(call.fee, call.latest, @.attempts + 1)]
                                           /\ Done(t)
                [] answer = "confirmed" -> Forget(t) /\ Done(t)
                [] OTHER                -> UNCHANGED pending /\ Abort
    /\ UNCHANGED <<closed, accepted>>

(* A read fails: its `?` ends the method. *)
ReadFails ==
    /\ call.op \in {"ledger", "check", "bump"}
    /\ Abort
    /\ UNCHANGED <<closed, sequence, offered, waiting, chosen, pending, accepted>>

------------------------------------------------------------------------------
(* The network.                                                            *)

CloseLedger ==
    /\ closed < MaxClosed
    /\ closed' = closed + 1
    /\ \/ \E e \in waiting :
            /\ e.tx = sequence + 1
            /\ sequence' = e.tx
            /\ chosen' = [chosen EXCEPT ![e.tx] = e.fee]
            /\ waiting' = {x \in waiting : x.tx # e.tx}
       \/ \E e \in waiting : waiting' = waiting \ {e} /\ UNCHANGED <<sequence, chosen>>
       \/ UNCHANGED <<sequence, waiting, chosen>>
    /\ UNCHANGED <<offered, pending, accepted, call>>

BumpInit ==
    /\ closed = 0 /\ sequence = 0
    /\ offered = {} /\ waiting = {} /\ accepted = {}
    /\ chosen = [t \in Txs |-> 0]
    /\ pending = [t \in Txs |-> NotTracked]
    /\ call = Idle

Answers == {"pending", "confirmed", "rejected", "error"}

BumpNext ==
    \/ \E t \in Txs, fee \in BaseFees : SubmitStart(t, fee)
    \/ SubmitLedger
    \/ \E a \in Answers : SubmitSend(a)
    \/ CheckStart
    \/ \E t \in call.todo, found \in BOOLEAN : CheckStatus(t, found)
    \/ BumpCheck
    \/ \E a \in Answers : BumpSend(a)
    \/ ReadFails
    \/ CloseLedger

BumpSpec == BumpInit /\ [][BumpNext]_bumpVars

------------------------------------------------------------------------------
(* Properties.                                                             *)

Fees(t) == {e.fee : e \in {x \in offered : x.tx = t}}

(* A transaction that submit accepted is followed until its number is      *)
(* used, through every lost answer, dropped envelope and aborted round;    *)
(* and whatever was lost, its envelopes cost at most max_fee_strops, there *)
(* are at most max_attempts bumps of it (a bump whose answer was lost is   *)
(* made again as the same envelope), and the fee on record is that of the  *)
(* newest envelope that was answered.                                      *)
BumpsTracked ==
    \A t \in Txs :
      /\ t \in accepted /\ pending[t] = NotTracked => Settled(t)
      /\ \A fee \in Fees(t) : fee <= max_fee_strops
      /\ Cardinality(Fees(t)) <= max_attempts + 1
      /\ pending[t] # NotTracked =>
           /\ Envelope(t, pending[t].fee) \in offered
           /\ Cardinality({fee \in Fees(t) : fee > pending[t].fee}) <= 1
           /\ Cardinality({fee \in Fees(t) : fee < pending[t].fee}) = pending[t].attempts
==============================================================================
