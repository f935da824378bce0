-------------------------- MODULE IngestRefinement --------------------------
(***************************************************************************)
(* StatementIngest implements BatchReview when one process runs at a time  *)
(* and no two statements share a row.  Both conditions are needed: runs    *)
(* ingest_overlap and review_race show what happens without them.          *)
(***************************************************************************)
EXTENDS StatementIngest

AllRows == UNION {external_ids(st) : st \in Statements}

\* The promise, read off the two tables: the verdict and the statement of
\* each batch, and the rows whose status is 'confirmed'.
Promise == INSTANCE BatchReview WITH
    Batch <- BatchIds,
    Row <- AllRows,
    review <- [b \in DOMAIN batches |-> batches[b].review_status],
    content <- [b \in DOMAIN batches |-> external_ids(batches[b].stmt)],
    ledger <- {r \in DOMAIN txns : txns[r].status = "confirmed"}

(***************************************************************************)
(* Every command, with its failures, crashes and --reingest, is a step of  *)
(* the promise or invisible to it: the reports gain whole batches, when    *)
(* they are confirmed, and lose nothing; no batch with a row in the        *)
(* reports is dropped.                                                     *)
(***************************************************************************)
PromiseKept == Promise!AbsSpec
=============================================================================
