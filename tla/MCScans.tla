------------------------------ MODULE MCScans ------------------------------
\* Instance of Scans for TLC: what is scanned is what the instances of the
\* components list.
EXTENDS Scans

\* normalize_case_key of the names used.
LowerCase(name) == IF name = "A" THEN "a" ELSE name

ProbeSets == INSTANCE MCVolumeProbe WITH Volumes <- {}
FatSets == INSTANCE MCFatScan WITH Volumes <- {}, ReadError <- 32
QuickSets == INSTANCE MCQuickScan WITH Volumes <- {}, ReadError <- 15
MftSets == INSTANCE MCMftRecords WITH Records <- {}, Garbage <- {}
AccessSets == INSTANCE MCSourceAccess WITH Inputs <- {}
CarveSets == INSTANCE MCCarveScan WITH Sources <- {}

MCProbeVolumes == ProbeSets!MCVolumes
MCFatVolumes == FatSets!MCVolumes
MCQuickVolumes == QuickSets!MCVolumes
MCEndVolumes == QuickSets!MCScanVolumes
MCRecords == MftSets!MCRecords \cup MftSets!MCRunsRecords
MCGarbage == MftSets!MCGarbage
MCInputs == AccessSets!MCInputs
MCCarveSources == CarveSets!MCSources

=============================================================================
