----------------------------- MODULE WorkerParts ----------------------------
(***************************************************************************)
(* The background work beside distillation: the delivery of webhooks,      *)
(* consolidation and extraction, each with variables of its own.           *)
(***************************************************************************)
EXTENDS Integers, Sequences, FiniteSets

CONSTANTS
    Pair,  \* worker processes, extractions
    Two,   \* source paths
    Trio,  \* runners of the webhook dispatcher
    \* of webhooks
    HookEvents, Endpoints, Matches, MaxAttempts, RowMax, Limit, HookFaults,
    \* of consolidation
    Derived, Output, MinEntries, RetrieveLimit, RunsListed, MergeRows, MergeRuns, MergeFaults,
    \* of extraction
    ExtractRows, ExtractRuns

VARIABLES
    notified, notify, status, attempts, line, due, batch, hStage, accepted, failures,
    hFaults,
    rows, cRuns, merged, trigger, loop, cFaults,
    xRows, xReplica, xCall, xRuns, mentions, xMerged, xSkipped

hooksVars == <<notified, notify, status, attempts, line, due, batch, hStage, accepted,
               failures, hFaults>>
mergeVars == <<rows, cRuns, merged, trigger, loop, cFaults>>
extractVars == <<xRows, xReplica, xCall, xRuns, mentions, xMerged, xSkipped>>

Hooks == INSTANCE WebhookDispatcher WITH
    Events <- HookEvents, Runners <- Trio, MaxFaults <- HookFaults, stage <- hStage,
    faults <- hFaults

Merge == INSTANCE Consolidation WITH
    Workers <- Pair, Sources <- Two, BatchSize <- RunsListed, MaxRows <- MergeRows,
    MaxRuns <- MergeRuns, MaxFaults <- MergeFaults, runs <- cRuns, faults <- cFaults

Extract == INSTANCE Extraction WITH
    Calls <- Pair, MaxRows <- ExtractRows, MaxRuns <- ExtractRuns,
    rows <- xRows, replica <- xReplica, call <- xCall, runs <- xRuns, merged <- xMerged,
    skipped <- xSkipped

ASSUME HooksAssumption == Hooks!WebhookAssumption
ASSUME MergeAssumption == Merge!ConsolidationAssumption
ASSUME ExtractAssumption == Extract!ExtractionAssumption

\* WebhookDispatcher: delivered means accepted, dead-lettered means that many failures.
OutcomeIsReal == Hooks!OutcomeIsReal

\* Consolidation: a completed run names the row that it stored and what went into it.
CompletedNamesItsResult == Merge!CompletedNamesItsResult

\* Extraction: mentions in the graph and skipped events rest on ok records, and a
\* superseded row is not changed by an extraction that ends late.
ExtractionIsSound == Extract!ExtractionIsSound
=============================================================================
