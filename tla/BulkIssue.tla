------------------------------ MODULE BulkIssue ------------------------------
(***************************************************************************)
(* The CLI commands that issue attestations from a file: `attest bulk` and *)
(* `attest import` (packages/soroban-sas-cli/src/main.rs, parsing in       *)
(* bulk.rs and importer.rs).  bulk validates every row, then submits them  *)
(* one by one; import sets invalid and duplicate rows aside and submits    *)
(* the others in chunks with multi_attest.  Both end with a report, which  *)
(* is all the operator has to tell which rows were issued.                 *)
(***************************************************************************)
EXTENDS Naturals, Sequences, FiniteSets, Ordered

CONSTANTS
    MAX_BULK_ROWS, \* rows a file may have
    MaxRows,       \* bound: rows of a file
    ChunkSizes     \* values of --chunk-size

ASSUME BulkAssumption ==
    /\ MAX_BULK_ROWS \in Nat \ {0} /\ MaxRows \in Nat
    /\ ChunkSizes \subseteq 1..100

(* A row fails to parse or validate; has the UID of the first good row; is *)
(* one the contract refuses (its schema does not exist, say); or is good.  *)
RowKinds == {"invalid", "duplicate", "refused", "good"}

VARIABLES
    command,           \* bulk or import
    rows,              \* the file
    dry_run, continue_on_error, chunk_size,
    output,            \* OutputFormat: Human or Json
    stage,             \* validate, submit; or how the run ended: failed,
                       \* preview, done, unsaved (no file of errors)
    work,              \* rows that passed validation, not yet submitted
    alone,             \* rows of a chunk that are submitted one by one
    result,            \* the outcome the run has noted for each row
    shown,             \* the outcome the operator is shown for each row
    issued,            \* rows whose transaction issued an attestation
    sent,              \* history: transactions with each row that may have done so
    open               \* history: rows whose transaction stayed open

bulkVars == <<command, rows, dry_run, continue_on_error, chunk_size, output, stage, work, alone,
              result, shown, issued, sent, open>>
inputs == <<command, rows, dry_run, continue_on_error, chunk_size, output>>

RowSet == 1..Len(rows)

Members(s) == {s[i] : i \in DOMAIN s}

------------------------------------------------------------------------------
(* parse_import, and parse_bulk_csv for bulk: a file without data rows, or *)
(* with too many, is refused as a whole; in an import a row that does not  *)
(* parse is kept with its error and the others go on.                      *)
ParseImport == Len(rows) \in 1..MAX_BULK_ROWS

(* What may be missing before the first submission: the signing key; after *)
(* the exit of a dry run the passphrase, the URL, the clients or the       *)
(* ledger's time.                                                          *)
Troubles == {"none", "key", "network"}

(* How a run ends before anything is submitted, if it does. *)
StageAfter(refusedFile, trouble) ==
    IF trouble = "key" \/ refusedFile THEN "failed"
    ELSE IF dry_run THEN "preview"
    ELSE IF trouble = "network" THEN "failed" ELSE "submit"

(* Validation of the whole file.  bulk stops at the first invalid row and  *)
(* has no check for duplicates.                                            *)
ValidateBulk(trouble) ==
    /\ command = "bulk" /\ stage = "validate"
    /\ stage' = StageAfter(~ParseImport \/ \E r \in RowSet : rows[r] = "invalid", trouble)
    /\ work' = IF stage' = "submit" THEN InOrder(RowSet) ELSE <<>>
    /\ UNCHANGED <<inputs, alone, result, shown, issued, sent, open>>

(* import sets the rows aside that are invalid or repeat a UID. *)
ValidateImport(trouble) ==
    LET bad == {r \in RowSet : rows[r] \in {"invalid", "duplicate"}}
    IN  /\ command = "import" /\ stage = "validate"
        /\ stage' = StageAfter(~ParseImport, trouble)
        /\ IF stage' = "submit"
             THEN /\ work' = InOrder(RowSet \ bad)
                  /\ result' = [r \in RowSet |-> IF r \in bad THEN "error" ELSE "none"]
             ELSE work' = <<>> /\ UNCHANGED result
        /\ UNCHANGED <<inputs, alone, shown, issued, sent, open>>

------------------------------------------------------------------------------
(* Submissions.                                                            *)

FirstGood == CHOOSE r \in RowSet : rows[r] = "good" /\ \A q \in 1..(r - 1) : rows[q] # "good"

(* Rows with one content-addressed UID. *)
Uid(r) == IF rows[r] = "duplicate" THEN FirstGood ELSE r

(* The contract takes a transaction only if it takes every row of it. *)
Acceptable(group) ==
    \A r \in group : rows[r] # "refused" /\ \A q \in issued : Uid(q) # Uid(r)

(* What becomes of a submission: issued; rejected before it is included;   *)
(* included and rolled back; or no answer, whether it was issued or not.   *)
Fates == {"SUCCESS", "rejected", "FAILED", "open"}

(* What the SDK gives the command for it: poll_until_settled turns FAILED  *)
(* into an error like the others.                                          *)
Receipt(fate) == IF fate = "SUCCESS" THEN "SUCCESS" ELSE "Err"

Outcome(group, fate, took) ==
    /\ fate = "SUCCESS" => took
    /\ took => fate \in {"SUCCESS", "open"} /\ Acceptable(group)
    /\ issued' = IF took THEN issued \cup group ELSE issued
    /\ sent' = [r \in RowSet |->
                  IF r \in group /\ fate \in {"SUCCESS", "open"} THEN sent[r] + 1 ELSE sent[r]]
    /\ open' = IF fate = "open" THEN open \cup group ELSE open

Word(fate) == IF Receipt(fate) = "SUCCESS" THEN "ok" ELSE "error"

Note(group, word) == result' = [r \in RowSet |-> IF r \in group THEN word ELSE result[r]]

(* bulk: one row at a time; a failure ends the loop unless                 *)
(* --continue-on-error.                                                    *)
SubmitRow(fate, took) ==
    LET r == Head(work)
    IN  /\ command = "bulk" /\ stage = "submit" /\ work # <<>>
        /\ Outcome({r}, fate, took)
        /\ Note({r}, Word(fate))
        /\ work' = IF Word(fate) = "ok" \/ continue_on_error THEN Tail(work) ELSE <<>>
        /\ UNCHANGED <<inputs, stage, alone, shown>>

Chunk == SubSeq(work, 1, IF Len(work) < chunk_size THEN Len(work) ELSE chunk_size)

Rest == SubSeq(work, Len(Chunk) + 1, Len(work))

(* Mutant: the rows of a chunk are tried one by one after any error. *)
TryAlone_Error(receipt) == receipt # "SUCCESS"

(* Rows are tried one by one only after a receipt with status FAILED.  No  *)
(* receipt of this SDK has it, so the branch is never taken.               *)
TryAlone(receipt) == receipt = "FAILED"

(* import: the next chunk, or the next row of a chunk to be tried alone. *)
SubmitChunk(fate, took) ==
    LET single == alone # <<>>
        group == IF single THEN {Head(alone)} ELSE Members(Chunk)
        split == ~single /\ TryAlone(Receipt(fate))
    IN  /\ command = "import" /\ stage = "submit" /\ group # {}
        /\ Outcome(group, fate, took)
        /\ IF split THEN UNCHANGED result ELSE Note(group, Word(fate))
        /\ alone' = IF single THEN Tail(alone) ELSE IF split THEN Chunk ELSE <<>>
        /\ work' = IF single THEN work ELSE Rest
        /\ UNCHANGED <<inputs, stage, shown>>

------------------------------------------------------------------------------
(* Reports.                                                                *)

Failures == {r \in RowSet : result[r] = "error"}

(* bulk: after a failure the rows are listed in Json only; Human output    *)
(* has the number of failures and the first error.                         *)
ReportBulk ==
    /\ command = "bulk" /\ stage = "submit" /\ work = <<>>
    /\ stage' = "done"
    /\ shown' = IF Failures = {} \/ output = "Json" THEN result ELSE shown
    /\ UNCHANGED <<inputs, work, alone, result, issued, sent, open>>

(* import: the errors go to a file first, and when that cannot be written  *)
(* the run ends with this error alone; otherwise the summary lists the     *)
(* rows that were issued.                                                  *)
ReportImport(saved) ==
    /\ command = "import" /\ stage = "submit" /\ work = <<>> /\ alone = <<>>
    /\ IF Failures = {} \/ saved
         THEN stage' = "done" /\ shown' = result
         ELSE stage' = "unsaved" /\ UNCHANGED shown
    /\ UNCHANGED <<inputs, work, alone, result, issued, sent, open>>

BulkInit ==
    /\ command \in {"bulk", "import"}
    /\ rows \in UNION {[1..n -> RowKinds] : n \in 0..MaxRows}
    /\ \A r \in 1..Len(rows) : rows[r] = "duplicate" => \E q \in 1..(r - 1) : rows[q] = "good"
    /\ dry_run \in BOOLEAN
    /\ continue_on_error \in (IF command = "bulk" THEN BOOLEAN ELSE {FALSE})
    /\ chunk_size \in (IF command = "import" THEN ChunkSizes ELSE {1})
    /\ output \in (IF command = "bulk" THEN {"Human", "Json"} ELSE {"Human"})
    /\ stage = "validate" /\ work = <<>> /\ alone = <<>>
    /\ result = [r \in 1..Len(rows) |-> "none"] /\ shown = [r \in 1..Len(rows) |-> "none"]
    /\ issued = {} /\ open = {} /\ sent = [r \in 1..Len(rows) |-> 0]

BulkNext ==
    \/ \E trouble \in Troubles : ValidateBulk(trouble)
    \/ \E trouble \in Troubles : ValidateImport(trouble)
    \/ \E fate \in Fates, took \in BOOLEAN : SubmitRow(fate, took)
    \/ \E fate \in Fates, took \in BOOLEAN : SubmitChunk(fate, took)
    \/ ReportBulk
    \/ \E saved \in BOOLEAN : ReportImport(saved)

BulkSpec == BulkInit /\ [][BulkNext]_bulkVars

------------------------------------------------------------------------------
(* Properties.                                                             *)

(* The runs whose report does not list the rows. *)
Unlisted == stage = "unsaved" \/ (command = "bulk" /\ output = "Human" /\ Failures # {})

(* What the operator is shown can be acted on, and nothing is paid for     *)
(* twice.  A row shown as issued is issued; once a run has listed its rows *)
(* every issued row is shown as issued, except one whose own transaction   *)
(* got no answer, and an import lists every row; only a bulk run with      *)
(* failures in Human output and an import that cannot write its errors     *)
(* list nothing.  No row is in two transactions that may both take effect  *)
(* ("do not duplicate the spend").  bulk sends nothing of a file with an   *)
(* invalid row, so a typo leaves no half-issued batch, and without         *)
(* --continue-on-error nothing after a failure; a preview and a run that   *)
(* fails before its first submission leave nothing issued.                 *)
RowsAccounted ==
    /\ \A r \in RowSet : sent[r] <= 1 /\ (shown[r] = "ok" => r \in issued)
    /\ stage = "done" /\ ~Unlisted =>
         /\ \A r \in issued : shown[r] = "ok" \/ r \in open
         /\ command = "import" => \A r \in RowSet : shown[r] # "none"
    /\ stage \in {"failed", "preview"} => issued = {} /\ \A r \in RowSet : sent[r] = 0
    /\ command = "bulk" /\ (\E r \in RowSet : rows[r] = "invalid") => \A r \in RowSet : sent[r] = 0
    /\ command = "bulk" /\ ~continue_on_error =>
         \A r, q \in RowSet : r < q /\ result[r] = "error" => sent[q] = 0
==============================================================================
