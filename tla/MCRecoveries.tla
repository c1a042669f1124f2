---------------------------- MODULE MCRecoveries ----------------------------
\* Instance of Recoveries for TLC: what is recovered is what the instances of
\* the components list.
EXTENDS Recoveries

ExtSets == INSTANCE MCExtRecovery WITH Files <- {}, ReadError <- 32
FatSets == INSTANCE MCFatRecovery WITH Files <- {}, ReadError <- 32
NtfsSets == INSTANCE MCNtfsStreams WITH Volumes <- {}, ReadError <- 14
TombSets == INSTANCE MCTombstoneScan WITH Images <- {}, ReadError <- 14

MCExtFiles == ExtSets!MCFiles
MCFatFiles == FatSets!MCFiles
MCNtfsVolumes == NtfsSets!MCVolumes
MCImages == TombSets!MCImages

=============================================================================
