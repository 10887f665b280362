----------------------------- MODULE EasMigration -----------------------------
(***************************************************************************)
(* `migrate eas` of the CLI (packages/soroban-sas-cli/src/migrate/mod.rs): *)
(* attestations fetched from an EVM node are written to numbered batch     *)
(* files, with a checkpoint after each full batch so that an interrupted   *)
(* run can be resumed, and a report at the end.  Files are created and     *)
(* then filled, so a crash can leave the one being written torn.  Between  *)
(* runs the source may have grown and the operator may change the batch    *)
(* size or start over.  The translation of a log to a record is left out.  *)
(***************************************************************************)
EXTENDS Naturals, Sequences, FiniteSets

CONSTANTS
    Torn,        \* a file cut short by a crash
    NoFile,      \* the file does not exist
    BatchSizes,  \* values of --batch-size
    evm_retries, \* value of --max-retries
    MaxRecords,  \* bound: attestations on the source
    MaxRuns      \* bound: runs of the command

ASSUME MigrationAssumption ==
    /\ BatchSizes \subseteq Nat \ {0} /\ MaxRecords \in Nat /\ MaxRuns \in Nat /\ evm_retries \in Nat
    /\ {Torn, NoFile} \cap Seq(Nat) = {}

VARIABLES
    source,      \* how many attestations the source has: 1..source
    found,       \* how many this run has discovered
    envelopes,   \* the batch files: which attestations each holds
    checkpoint,  \* checkpoint.json
    report,      \* reconciliation.json
    run,         \* the run: its phase, batch size, position and counters
    runs,        \* history: runs begun
    series       \* history: runs that started over; a checkpoint and a run
                 \* carry the number of the start they continue, or 0 after
                 \* a blank answer

migrationVars == <<source, found, envelopes, checkpoint, report, run, runs, series>>

NotRunning == [phase |-> "off", size |-> 1, idx |-> 0, batches |-> 0, migrated |-> 0, batch |-> <<>>,
               series |-> 0]

(* A checkpoint that does not parse counts as none. *)
Resumes(resume) == resume /\ checkpoint \notin {NoFile, Torn}

(* run_migrate asks the node for the logs ... *)
RunMigrate(resume, size) ==
    /\ run.phase = "off" /\ runs < MaxRuns
    /\ runs' = runs + 1
    /\ run' = [phase |-> "fetch", resume |-> resume, size |-> size, attempts |-> 1]
    /\ UNCHANGED <<source, found, envelopes, checkpoint, report, series>>

(* ... again when it is busy or cannot be reached, as long as attempts are *)
(* left; any other error ends the command.                                 *)
EvmNodeFails(transient) ==
    /\ run.phase = "fetch"
    /\ run' = IF transient /\ run.attempts <= evm_retries
                THEN [run EXCEPT !.attempts = @ + 1] ELSE NotRunning
    /\ UNCHANGED <<source, found, envelopes, checkpoint, report, runs, series>>

(* The head of process_migration.  An answer without a list of logs counts *)
(* as an empty list.                                                       *)
StartRun(blank) ==
    LET Number(n) == IF blank THEN 0 ELSE n
    IN  /\ run.phase = "fetch"
        /\ found' = IF blank THEN 0 ELSE source
        /\ run' = IF Resumes(run.resume)
                    THEN [phase |-> "records", size |-> run.size, idx |-> checkpoint.last_index,
                          batches |-> checkpoint.batches_emitted,
                          migrated |-> checkpoint.attestations_migrated, batch |-> <<>>,
                          series |-> Number(checkpoint.series)]
                    ELSE [NotRunning EXCEPT !.phase = "records", !.size = run.size,
                                            !.series = Number(series + 1)]
        /\ series' = IF Resumes(run.resume) THEN series ELSE series + 1
        /\ UNCHANGED <<source, envelopes, checkpoint, report, runs>>

(* The loop over the records: translate (the row appended to audit.csv is  *)
(* left out), then write the batch when it is full, or the rest at the end.*)
NextRecord ==
    /\ run.phase = "records"
    /\ IF run.idx < found
         THEN LET batch == Append(run.batch, run.idx + 1)
              IN  run' = [run EXCEPT !.idx = @ + 1, !.migrated = @ + 1, !.batch = batch,
                                     !.phase = IF Len(batch) >= run.size THEN "batch" ELSE "records"]
         ELSE run' = [run EXCEPT !.phase = IF run.batch = <<>> THEN "final" ELSE "last"]
    /\ UNCHANGED <<source, found, envelopes, checkpoint, report, runs, series>>

(* batch-NNNN.json *)
WriteBatch ==
    /\ run.phase \in {"batch", "last"}
    /\ envelopes' = [envelopes EXCEPT ![run.batches + 1] = run.batch]
    /\ run' = [run EXCEPT !.batches = @ + 1, !.batch = <<>>,
                          !.phase = IF run.phase = "batch" THEN "save" ELSE "final"]
    /\ UNCHANGED <<source, found, checkpoint, report, runs, series>>

Saved(last) ==
    [last_index |-> last, batches_emitted |-> run.batches, attestations_migrated |-> run.migrated,
     series |-> run.series]

(* Mutant: the checkpoint is one record ahead. *)
SaveCheckpoint_Ahead ==
    /\ run.phase \in {"save", "final"}
    /\ checkpoint' = Saved(IF run.phase = "save" /\ run.idx < found THEN run.idx + 1 ELSE found)
    /\ run' = [run EXCEPT !.phase = IF run.phase = "save" THEN "records" ELSE "report"]
    /\ UNCHANGED <<source, found, envelopes, report, runs, series>>

(* The checkpoint of a full batch, and the final one. *)
SaveCheckpoint ==
    /\ run.phase \in {"save", "final"}
    /\ checkpoint' = Saved(IF run.phase = "save" THEN run.idx ELSE found)
    /\ run' = [run EXCEPT !.phase = IF run.phase = "save" THEN "records" ELSE "report"]
    /\ UNCHANGED <<source, found, envelopes, report, runs, series>>

WriteReport ==
    /\ run.phase = "report"
    /\ report' = [discovered |-> found, migrated |-> run.migrated, batches |-> run.batches,
                  status |-> IF run.migrated >= found THEN "complete" ELSE "partial"]
    /\ run' = NotRunning
    /\ UNCHANGED <<source, found, envelopes, checkpoint, runs, series>>

(* The process dies; the file it is writing may be torn. *)
ProcessDies ==
    /\ run.phase # "off"
    /\ run' = NotRunning
    /\ \/ UNCHANGED <<envelopes, checkpoint, report>>
       \/ /\ run.phase \in {"batch", "last"}
          /\ envelopes' = [envelopes EXCEPT ![run.batches + 1] = Torn]
          /\ UNCHANGED <<checkpoint, report>>
       \/ /\ run.phase \in {"save", "final"}
          /\ checkpoint' = Torn
          /\ UNCHANGED <<envelopes, report>>
       \/ run.phase = "report" /\ report' = Torn /\ UNCHANGED <<envelopes, checkpoint>>
    /\ UNCHANGED <<source, found, runs, series>>

SourceGrows ==
    /\ run.phase = "off" /\ source < MaxRecords
    /\ source' = source + 1
    /\ UNCHANGED <<found, envelopes, checkpoint, report, run, runs, series>>

MigrationInit ==
    /\ source \in 0..MaxRecords /\ found = 0
    /\ envelopes = [b \in 1..(MaxRecords + 1) |-> NoFile]
    /\ checkpoint = NoFile /\ report = NoFile
    /\ run = NotRunning /\ runs = 0 /\ series = 0

MigrationNext ==
    \/ \E resume \in BOOLEAN, size \in BatchSizes : RunMigrate(resume, size)
    \/ \E transient \in BOOLEAN : EvmNodeFails(transient)
    \/ \E blank \in BOOLEAN : StartRun(blank)
    \/ NextRecord
    \/ WriteBatch
    \/ SaveCheckpoint
    \/ WriteReport
    \/ ProcessDies
    \/ SourceGrows

MigrationSpec == MigrationInit /\ [][MigrationNext]_migrationVars

------------------------------------------------------------------------------
(* Properties.                                                             *)

(* Positions in the first n batch files. *)
Filled(n) == {p \in (1..n) \X (1..MaxRecords) : p[2] <= Len(envelopes[p[1]])}

Exact(n, upto) ==
    /\ \A b \in 1..n : envelopes[b] \notin {NoFile, Torn}
    /\ {envelopes[p[1]][p[2]] : p \in Filled(n)} = 1..upto
    /\ Cardinality(Filled(n)) = upto

(* Through crashes between any two writes, torn files, resumed runs, fresh *)
(* starts over an old directory, other batch sizes and a growing source: a *)
(* run about to report has written each attestation it discovered to       *)
(* exactly one of the batch files it counts, none of them torn.  Exempt    *)
(* are runs that resume from the checkpoint of an earlier start (a fresh   *)
(* start leaves the old checkpoint in place until its first batch is full, *)
(* and a crash before that hands the old position to --resume) or of a run *)
(* whose node gave no list (it sets the position back to zero).            *)
BatchesExact ==
    run.phase = "report" /\ run.series = series =>
      /\ run.migrated = found
      /\ Exact(run.batches, found)
==============================================================================
