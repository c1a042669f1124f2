-------------------------- MODULE RecoveriesProofs --------------------------
(***************************************************************************)
(* Proofs about Recoveries.  A behaviour is one call: the invariant is     *)
(* that of the component which runs, and each of its steps is one of that  *)
(* component.                                                              *)
(***************************************************************************)
EXTENDS Recoveries, FiniteSetTheorems, SequenceTheorems, WellFoundedInduction, TLAPS

ExtProofs == INSTANCE ExtRecoveryProofs WITH Files <- ExtFiles, ReadError <- 32

-----------------------------------------------------------------------------
(* Recovery along the allocation table *)

\* output[i] was reached through the table from the cluster before it.
FatLinked(i) == output[i] = Fat!NextCluster(output[i - 1])

\* ... by an entry that neither clears nor ends the chain.
FatChained(i) == FatLinked(i) /\ Fat!IsNext(output[i])

\* output[i] was reached so, or belongs to no file that exists.
FatFreeAt(i) == FatLinked(i) \/ output[i] \notin file.live

\* A recovery that succeeds without a mark has written a chain of the table
\* from the first cluster of the file on, as long as the file.
FatUnmarkedIsChain ==
  pc = "done" /\ status = 0 /\ ~partial =>
    /\ Len(output) = file.size
    /\ file.size > 0 => output[1] = file.start
    /\ \A i \in 2 .. Len(output) : FatChained(i)

FatTypes ==
  /\ file \in FatFiles
  /\ pc \in {"open", "chain", "next", "neighbours", "end", "done"}
  /\ current \in Nat
  /\ seen \subseteq Fat!Clusters
  /\ output \in Seq(Fat!Clusters)
  /\ Len(output) <= file.size
  /\ partial \in BOOLEAN
  /\ status \in {0, 20, 31, 44, 70, 75, 76, 32}

FatSeenIsWritten == \A i \in DOMAIN output : output[i] \in seen

\* Where the copy stands.
FatPlace ==
  /\ pc = "open" => output = <<>> /\ current = file.start /\ ~partial
  /\ pc = "chain" =>
       /\ ~partial
       /\ IF output = <<>> THEN current = file.start
          ELSE current = Fat!NextCluster(output[Len(output)]) /\ Fat!IsNext(current)
  /\ pc = "next" => ~partial /\ output # <<>> /\ current = output[Len(output)]
  /\ pc \in {"neighbours", "end"} => partial

\* Without a mark the copy has followed the table.
FatKeptToTable ==
  pc # "done" /\ ~partial =>
    /\ output # <<>> => output[1] = file.start
    /\ \A i \in 2 .. Len(output) : FatChained(i)

FatCopyInv ==
  /\ FatTypes /\ FatSeenIsWritten /\ FatPlace /\ FatKeptToTable
  /\ Fat!NoClusterTwice /\ Fat!NeighboursAreFree /\ FatUnmarkedIsChain

-----------------------------------------------------------------------------
LEMMA FatInitHolds ==
  ASSUME Fat!FilesAssumption
  PROVE  Fat!Init => FatCopyInv
<1> SUFFICES ASSUME Fat!Init PROVE FatCopyInv
  OBVIOUS
<1>1. Fat!IsFile(file)
  BY DEF Fat!Init, Fat!FilesAssumption
<1>2. file.start \in Nat /\ file.size \in Nat
  BY <1>1 DEF Fat!IsFile
<1>3. FatTypes
  <2>1. output = <<>> /\ <<>> \in Seq(Fat!Clusters) /\ Len(<<>>) = 0
    BY DEF Fat!Init
  <2>2. file \in FatFiles /\ current \in Nat /\ seen \subseteq Fat!Clusters
    BY <1>2 DEF Fat!Init
  <2>3. output \in Seq(Fat!Clusters)
    BY <2>1
  <2>4. Len(output) <= file.size
    BY <1>2, <2>1
  <2>5. /\ pc = "open" /\ partial \in BOOLEAN
        /\ status \in {0, 20, 31, 44, 70, 75, 76, 32}
    BY DEF Fat!Init
  <2> QED
    BY <2>2, <2>3, <2>4, <2>5 DEF FatTypes
<1> QED
  BY <1>3 DEF Fat!Init, FatCopyInv, FatSeenIsWritten, FatPlace, FatKeptToTable, Fat!NoClusterTwice,
    Fat!NeighboursAreFree, FatUnmarkedIsChain

\* The call ends: nothing that was written changes.
LEMMA FatReturnKeeps ==
  ASSUME Fat!FilesAssumption, FatCopyInv,
         NEW STATE s, s \in {0, 20, 31, 44, 70, 75, 76, 32},
         NEW STATE p, p \in BOOLEAN,
         Fat!Returns(s, p),
         s = 0 /\ ~p => FatUnmarkedIsChain'
  PROVE  FatCopyInv'
<1>1. FatTypes'
  BY DEF FatCopyInv, FatTypes, Fat!Returns, Fat!fileVars, Fat!Clusters
<1>2. FatSeenIsWritten' /\ FatPlace' /\ FatKeptToTable'
  BY DEF FatCopyInv, FatSeenIsWritten, FatPlace, FatKeptToTable, Fat!Returns, Fat!fileVars
<1>3. Fat!NoClusterTwice' /\ Fat!NeighboursAreFree'
  BY DEF FatCopyInv, Fat!NoClusterTwice, Fat!NeighboursAreFree, Fat!Returns, Fat!fileVars, Fat!NextCluster, Fat!Clusters
<1>4. FatUnmarkedIsChain'
  BY DEF Fat!Returns, FatUnmarkedIsChain
<1> QED
  BY <1>1, <1>2, <1>3, <1>4 DEF FatCopyInv

LEMMA FatErrorKeeps ==
  ASSUME Fat!FilesAssumption, FatCopyInv, NEW STATE s, s \in {20, 31, 44, 70, 75, 32}, Fat!Error(s)
  PROVE  FatCopyInv'
<1> DEFINE p == FALSE
<1>1. Fat!Returns(s, p) /\ p \in BOOLEAN /\ s \in {0, 20, 31, 44, 70, 75, 76, 32}
  BY DEF Fat!Error
<1>2. s = 0 /\ ~p => FatUnmarkedIsChain'
  BY DEF Fat!FilesAssumption
<1> HIDE DEF p
<1> QED
  BY <1>1, <1>2, FatReturnKeeps

\* The call ends without an error of the device: unmarked only when the file
\* has its full length, and then along the table.
LEMMA FatEndKeeps ==
  ASSUME Fat!FilesAssumption, FatCopyInv, NEW STATE p, p \in BOOLEAN, pc # "done",
         ~p => ~partial, Fat!Ends(p)
  PROVE  FatCopyInv'
<1> DEFINE s == IF output = <<>> /\ file.size > 0 THEN 76 ELSE 0
<1> DEFINE q == p \/ Fat!Remaining > 0
<1>1. Fat!Returns(s, q) /\ q \in BOOLEAN /\ s \in {0, 20, 31, 44, 70, 75, 76, 32}
  BY DEF Fat!Ends
<1>2. ASSUME s = 0, ~q PROVE FatUnmarkedIsChain'
  <2>1. file.size \in Nat /\ Len(output) \in Nat /\ Len(output) <= file.size
    BY DEF FatCopyInv, FatTypes, Fat!FilesAssumption, Fat!IsFile
  <2>2. Len(output) = file.size
    BY <1>2, <2>1 DEF Fat!Remaining
  <2>3. file.size > 0 => output # <<>>
    BY <1>2
  <2>4. /\ file.size > 0 => output[1] = file.start
        /\ \A i \in 2 .. Len(output) : FatChained(i)
    BY <1>2, <2>3 DEF FatCopyInv, FatKeptToTable
  <2>5. UNCHANGED <<output, file>>
    BY <1>1 DEF Fat!Returns, Fat!fileVars
  <2> QED
    BY <2>2, <2>4, <2>5 DEF FatUnmarkedIsChain, FatChained, FatLinked, Fat!NextCluster, Fat!Clusters
<1> HIDE DEF s, q
<1> QED
  BY <1>1, <1>2, FatReturnKeeps

\* A cluster that was read and not seen before is written.
LEMMA FatCopyKeeps ==
  ASSUME Fat!FilesAssumption, FatCopyInv, Fat!Remaining > 0,
         NEW STATE c, c \in Nat, c \notin seen, Fat!Copied(c), UNCHANGED Fat!fileVars
  PROVE  /\ c \in Fat!Clusters
         /\ output' = Append(output, c)
         /\ output' \in Seq(Fat!Clusters')
         /\ Len(output') = Len(output) + 1 /\ Len(output') <= file.size
         /\ output'[Len(output')] = c
         /\ \A i \in 1 .. Len(output) : output'[i] = output[i]
         /\ seen' \subseteq Fat!Clusters' /\ FatSeenIsWritten' /\ Fat!NoClusterTwice'
<1>1. /\ output \in Seq(Fat!Clusters) /\ seen \subseteq Fat!Clusters
      /\ file.size \in Nat /\ Len(output) <= file.size
  BY DEF FatCopyInv, FatTypes, Fat!FilesAssumption, Fat!IsFile
<1>2. c \in Fat!Clusters /\ output' = Append(output, c) /\ seen' = seen \cup {c}
  BY DEF Fat!Copied, Fat!Reading
<1>3. Fat!Clusters' = Fat!Clusters
  BY DEF Fat!Clusters, Fat!fileVars
<1>4. /\ output' \in Seq(Fat!Clusters') /\ Len(output') = Len(output) + 1
      /\ output'[Len(output')] = c
      /\ \A i \in 1 .. Len(output) : output'[i] = output[i]
  BY <1>1, <1>2, <1>3
<1>5. Len(output') <= file.size
  BY <1>1, <1>4 DEF Fat!Remaining
<1>6. seen' \subseteq Fat!Clusters'
  BY <1>1, <1>2, <1>3
<1>7. DOMAIN output = 1 .. Len(output) /\ DOMAIN output' = 1 .. Len(output) + 1
  BY <1>1, <1>4
<1>8. FatSeenIsWritten'
  BY <1>1, <1>2, <1>4, <1>7 DEF FatCopyInv, FatSeenIsWritten
<1>9. Fat!NoClusterTwice'
  <2> SUFFICES ASSUME NEW i \in DOMAIN output', NEW j \in DOMAIN output', i # j
               PROVE  output'[i] # output'[j]
    BY DEF Fat!NoClusterTwice
  <2>1. CASE i \in 1 .. Len(output) /\ j \in 1 .. Len(output)
    BY <2>1, <1>4, <1>7 DEF FatCopyInv, Fat!NoClusterTwice
  <2>2. CASE i = Len(output) + 1 \/ j = Len(output) + 1
    BY <2>2, <1>1, <1>4, <1>7 DEF FatCopyInv, FatSeenIsWritten
  <2> QED
    BY <2>1, <2>2, <1>7, <1>1
<1> QED
  BY <1>2, <1>4, <1>5, <1>6, <1>8, <1>9

LEMMA FatOpenKeeps ==
  ASSUME Fat!FilesAssumption, FatCopyInv, Fat!Open
  PROVE  FatCopyInv'
<1>1. CASE \E s \in {20, 31, 44, 70, 75, 32} : Fat!Error(s)
  BY <1>1, FatErrorKeeps
<1>2. CASE /\ pc = "open" /\ pc' = "chain"
           /\ UNCHANGED <<Fat!fileVars, current, seen, output, partial, status>>
  <2>1. FatTypes'
    BY <1>2 DEF FatCopyInv, FatTypes, Fat!fileVars, Fat!Clusters
  <2>2. FatSeenIsWritten' /\ Fat!NoClusterTwice' /\ FatUnmarkedIsChain'
    BY <1>2 DEF FatCopyInv, FatSeenIsWritten, Fat!NoClusterTwice, FatUnmarkedIsChain
  <2>3. Fat!NeighboursAreFree'
    BY <1>2 DEF FatCopyInv, Fat!NeighboursAreFree, Fat!NextCluster, Fat!Clusters, Fat!fileVars
  <2>4. FatPlace' /\ FatKeptToTable'
    BY <1>2 DEF FatCopyInv, FatPlace, FatKeptToTable, FatChained, Fat!IsNext, FatLinked, Fat!NextCluster, Fat!Clusters, Fat!fileVars
  <2> QED
    BY <2>1, <2>2, <2>3, <2>4 DEF FatCopyInv
<1> QED
  BY <1>1, <1>2 DEF Fat!Open

LEMMA FatCopyChainKeeps ==
  ASSUME Fat!FilesAssumption, FatCopyInv, Fat!CopyChain
  PROVE  FatCopyInv'
<1>1. CASE Fat!Ends(TRUE)
  BY <1>1, FatEndKeeps DEF Fat!CopyChain
<1>2. CASE \E s \in {44, 32} : Fat!Error(s)
  BY <1>2, FatErrorKeeps
<1>3. CASE /\ pc = "chain" /\ Fat!Remaining > 0
           /\ ~Fat!Stops(current)
           /\ Fat!Copied(current)
           /\ pc' = "next"
           /\ UNCHANGED <<Fat!fileVars, current, partial, status>>
  <2>1. current \in Nat /\ current \notin seen
    BY <1>3 DEF FatCopyInv, FatTypes, Fat!Stops
  <2>2. /\ output' = Append(output, current) /\ output' \in Seq(Fat!Clusters')
        /\ Len(output') = Len(output) + 1 /\ Len(output') <= file.size
        /\ output'[Len(output')] = current
        /\ \A i \in 1 .. Len(output) : output'[i] = output[i]
        /\ seen' \subseteq Fat!Clusters' /\ FatSeenIsWritten' /\ Fat!NoClusterTwice'
    BY <1>3, <2>1, FatCopyKeeps
  <2>3. Len(output) \in Nat /\ output \in Seq(Fat!Clusters)
    BY DEF FatCopyInv, FatTypes
  <2>4. FatTypes'
    BY <1>3, <2>2 DEF FatCopyInv, FatTypes, Fat!fileVars
  <2>5. FatPlace'
    BY <1>3, <2>2, <2>3 DEF FatCopyInv, FatPlace
  <2>6. ASSUME NEW i \in 2 .. Len(output)
        PROVE  (FatLinked(i)' <=> FatLinked(i)) /\ (FatChained(i)' <=> FatChained(i))
    <3>1. i \in 1 .. Len(output) /\ i - 1 \in 1 .. Len(output)
      BY <2>3
    <3>2. output'[i] = output[i] /\ output'[i - 1] = output[i - 1]
      BY <2>2, <3>1
    <3> QED
      BY <1>3, <3>2 DEF FatChained, Fat!IsNext, FatLinked, Fat!NextCluster, Fat!Clusters, Fat!fileVars
  <2>7. ASSUME output # <<>>, NEW i \in Nat, i = Len(output) + 1
        PROVE  FatLinked(i)' /\ FatChained(i)'
    <3>1. Len(output) \in 1 .. Len(output) /\ i - 1 = Len(output)
      BY <2>3, <2>7
    <3>2. output'[i] = current /\ output'[i - 1] = output[i - 1]
      BY <2>2, <2>7, <3>1
    <3>3. current = Fat!NextCluster(output[i - 1]) /\ Fat!IsNext(current)
      BY <1>3, <2>7, <3>1 DEF FatCopyInv, FatPlace
    <3> QED
      BY <1>3, <3>2, <3>3 DEF FatChained, Fat!IsNext, FatLinked, Fat!NextCluster, Fat!Clusters, Fat!fileVars
  <2>8. FatKeptToTable'
    <3>1. output'[1] = file.start
      BY <1>3, <2>2, <2>3 DEF FatCopyInv, FatPlace, FatKeptToTable
    <3>2. \A i \in 2 .. Len(output') : FatChained(i)'
      <4> SUFFICES ASSUME NEW i \in 2 .. Len(output) + 1 PROVE FatChained(i)'
        BY <2>2
      <4>1. CASE i = Len(output) + 1
        <5>1. output # <<>> /\ i \in Nat
          BY <4>1, <2>3
        <5> QED
          BY <4>1, <5>1, <2>7
      <4>2. CASE i # Len(output) + 1
        <5>1. i \in 2 .. Len(output)
          BY <4>2, <2>3
        <5> QED
          BY <5>1, <2>6, <1>3 DEF FatCopyInv, FatPlace, FatKeptToTable
      <4> QED
        BY <4>1, <4>2
    <3> QED
      BY <1>3, <3>1, <3>2 DEF FatKeptToTable, Fat!fileVars
  <2>9. Fat!NeighboursAreFree'
    <3> SUFFICES ASSUME NEW i \in 2 .. Len(output) + 1 PROVE FatFreeAt(i)'
      BY <2>2 DEF Fat!NeighboursAreFree, FatFreeAt, FatLinked
    <3>1. CASE i = Len(output) + 1
      <4>1. output # <<>> /\ i \in Nat
        BY <3>1, <2>3
      <4> QED
        BY <3>1, <4>1, <2>7 DEF FatFreeAt
    <3>2. CASE i # Len(output) + 1
      <4>1. i \in 2 .. Len(output) /\ i \in 1 .. Len(output)
        BY <3>2, <2>3
      <4>2. FatFreeAt(i)
        BY <4>1 DEF FatCopyInv, Fat!NeighboursAreFree, FatFreeAt, FatLinked
      <4>3. output'[i] = output[i] /\ file' = file
        BY <4>1, <2>2, <1>3 DEF Fat!fileVars
      <4> QED
        BY <4>1, <4>2, <4>3, <2>6 DEF FatFreeAt
    <3> QED
      BY <3>1, <3>2
  <2>10. FatUnmarkedIsChain'
    BY <1>3 DEF FatUnmarkedIsChain
  <2> QED
    BY <2>2, <2>4, <2>5, <2>8, <2>9, <2>10 DEF FatCopyInv
<1> QED
  BY <1>1, <1>2, <1>3 DEF Fat!CopyChain, Fat!WriteFails

LEMMA FatFollowTableKeeps ==
  ASSUME Fat!FilesAssumption, FatCopyInv, Fat!FollowTable
  PROVE  FatCopyInv'
<1>1. CASE Fat!Error(32)
  BY <1>1, FatErrorKeeps
<1>2. CASE /\ pc = "next"
           /\ pc' = Fat!AfterCluster(current)[1]
           /\ current' = Fat!AfterCluster(current)[2]
           /\ partial' = (Fat!AfterCluster(current)[1] # "chain")
           /\ UNCHANGED <<Fat!fileVars, seen, output, status>>
  <2>1. \/ /\ pc' = "chain" /\ current' = Fat!NextCluster(current) /\ ~partial'
           /\ Fat!IsNext(Fat!NextCluster(current))
        \/ pc' = "end" /\ current' = current /\ partial'
        \/ pc' = "neighbours" /\ current' = current + 1 /\ partial'
    <3>1. CASE Fat!IsNext(Fat!NextCluster(current))
      <4>1. Fat!AfterCluster(current) = <<"chain", Fat!NextCluster(current)>>
        BY <3>1 DEF Fat!AfterCluster, Fat!IsNext
      <4>2. Fat!AfterCluster(current)[1] = "chain" /\ Fat!AfterCluster(current)[2] = Fat!NextCluster(current)
        BY <4>1
      <4> QED
        BY <1>2, <3>1, <4>2
    <3>2. CASE ~Fat!IsNext(Fat!NextCluster(current)) /\ Fat!NextCluster(current) = 1
      BY <1>2, <3>2 DEF Fat!AfterCluster
    <3>3. CASE ~Fat!IsNext(Fat!NextCluster(current)) /\ Fat!NextCluster(current) # 1
      <4>1. Fat!AfterCluster(current) = <<"neighbours", current + 1>>
        BY <3>3 DEF Fat!AfterCluster
      <4>2. Fat!AfterCluster(current)[1] = "neighbours" /\ Fat!AfterCluster(current)[2] = current + 1
        BY <4>1
      <4> QED
        BY <1>2, <4>2
    <3> QED
      BY <3>1, <3>2, <3>3
  <2>2. Fat!NextCluster(current) \in Nat
    BY DEF Fat!NextCluster, Fat!Clusters, FatCopyInv, FatTypes, Fat!FilesAssumption, Fat!IsFile
  <2>3. FatTypes'
    BY <1>2, <2>1, <2>2 DEF FatCopyInv, FatTypes, Fat!fileVars, Fat!Clusters
  <2>4. FatSeenIsWritten' /\ Fat!NoClusterTwice' /\ FatUnmarkedIsChain'
    BY <1>2, <2>1 DEF FatCopyInv, FatSeenIsWritten, Fat!NoClusterTwice, FatUnmarkedIsChain
  <2>5. Fat!NeighboursAreFree'
    BY <1>2 DEF FatCopyInv, Fat!NeighboursAreFree, Fat!NextCluster, Fat!Clusters, Fat!fileVars
  <2>6. FatPlace'
    BY <1>2, <2>1 DEF FatCopyInv, FatPlace, Fat!NextCluster, Fat!Clusters, Fat!fileVars
  <2>7. FatKeptToTable'
    BY <1>2, <2>1 DEF FatCopyInv, FatPlace, FatKeptToTable, FatChained, Fat!IsNext, FatLinked, Fat!NextCluster, Fat!Clusters, Fat!fileVars
  <2> QED
    BY <2>3, <2>4, <2>5, <2>6, <2>7 DEF FatCopyInv
<1> QED
  BY <1>1, <1>2 DEF Fat!FollowTable

LEMMA FatCopyNeighbourKeeps ==
  ASSUME Fat!FilesAssumption, FatCopyInv, Fat!CopyNeighbour
  PROVE  FatCopyInv'
<1>1. CASE Fat!Ends(TRUE)
  BY <1>1, FatEndKeeps DEF Fat!CopyNeighbour
<1>2. CASE \E s \in {44, 32} : Fat!Error(s)
  BY <1>2, FatErrorKeeps
<1>3. CASE /\ pc = "neighbours" /\ Fat!Remaining > 0
           /\ current \notin seen /\ Fat!LooksFree(current)
           /\ Fat!Copied(current)
           /\ current' = current + 1
           /\ UNCHANGED <<Fat!fileVars, pc, partial, status>>
  <2>1. current \in Nat
    BY DEF FatCopyInv, FatTypes
  <2>2. /\ current \in Fat!Clusters
        /\ output' = Append(output, current) /\ output' \in Seq(Fat!Clusters')
        /\ Len(output') = Len(output) + 1 /\ Len(output') <= file.size
        /\ output'[Len(output')] = current
        /\ \A i \in 1 .. Len(output) : output'[i] = output[i]
        /\ seen' \subseteq Fat!Clusters' /\ FatSeenIsWritten' /\ Fat!NoClusterTwice'
    BY <1>3, <2>1, FatCopyKeeps
  <2>3. Len(output) \in Nat
    BY DEF FatCopyInv, FatTypes
  <2>4. FatTypes'
    BY <1>3, <2>1, <2>2 DEF FatCopyInv, FatTypes, Fat!fileVars
  <2>5. FatPlace' /\ FatKeptToTable' /\ FatUnmarkedIsChain'
    BY <1>3 DEF FatCopyInv, FatPlace, FatKeptToTable, FatUnmarkedIsChain
  <2>6. current \notin file.live
    BY <1>3, <2>2 DEF Fat!LooksFree, Fat!NextCluster, FatCopyInv, FatTypes, Fat!FilesAssumption, Fat!IsFile
  <2>7. Fat!NeighboursAreFree'
    <3> SUFFICES ASSUME NEW i \in 2 .. Len(output) + 1 PROVE FatFreeAt(i)'
      BY <2>2 DEF Fat!NeighboursAreFree, FatFreeAt, FatLinked
    <3>1. CASE i = Len(output) + 1
      BY <3>1, <1>3, <2>2, <2>6 DEF FatFreeAt, Fat!fileVars
    <3>2. CASE i # Len(output) + 1
      <4>1. i \in 2 .. Len(output) /\ i - 1 \in 1 .. Len(output) /\ i \in 1 .. Len(output)
        BY <3>2, <2>3
      <4>2. FatFreeAt(i)
        BY <4>1 DEF FatCopyInv, Fat!NeighboursAreFree, FatFreeAt, FatLinked
      <4>3. output'[i] = output[i] /\ output'[i - 1] = output[i - 1] /\ file' = file
        BY <4>1, <2>2, <1>3 DEF Fat!fileVars
      <4> QED
        BY <4>2, <4>3 DEF FatFreeAt, FatLinked, Fat!NextCluster, Fat!Clusters
    <3> QED
      BY <3>1, <3>2
  <2> QED
    BY <2>2, <2>4, <2>5, <2>7 DEF FatCopyInv
<1> QED
  BY <1>1, <1>2, <1>3 DEF Fat!CopyNeighbour, Fat!WriteFails

LEMMA FatFinishKeeps ==
  ASSUME Fat!FilesAssumption, FatCopyInv, Fat!Finish
  PROVE  FatCopyInv'
<1>1. partial \in BOOLEAN
  BY DEF FatCopyInv, FatTypes
<1> QED
  BY <1>1, FatEndKeeps DEF Fat!Finish

\* Every step keeps the invariant.
LEMMA FatNextKeeps ==
  ASSUME Fat!FilesAssumption, FatCopyInv, [Fat!Next]_(Fat!vars)
  PROVE  FatCopyInv'
<1>1. CASE Fat!Open
  BY <1>1, FatOpenKeeps
<1>2. CASE Fat!CopyChain
  BY <1>2, FatCopyChainKeeps
<1>3. CASE Fat!FollowTable
  BY <1>3, FatFollowTableKeeps
<1>4. CASE Fat!CopyNeighbour
  BY <1>4, FatCopyNeighbourKeeps
<1>5. CASE Fat!Finish
  BY <1>5, FatFinishKeeps
<1>6. CASE UNCHANGED Fat!vars
  BY <1>6 DEF Fat!vars, Fat!fileVars, FatCopyInv, FatTypes, FatSeenIsWritten, FatPlace, FatKeptToTable,
    Fat!NoClusterTwice, Fat!NeighboursAreFree, FatUnmarkedIsChain, FatChained, Fat!IsNext, FatLinked, Fat!NextCluster, Fat!Clusters
<1> QED
  BY <1>1, <1>2, <1>3, <1>4, <1>5, <1>6 DEF Fat!Next

FatContract == INSTANCE RecoveredFile WITH outcome <- Fat!Outcome

\* The cluster after c: along the table, and the neighbour where that ends.
Following(f, c) ==
  LET n == IF c \in 2 .. f.last THEN f.table[c] ELSE 0
  IN IF Fat!IsNext(n) THEN n ELSE c + 1

\* The first n clusters of the chain from the start of f.
IsChain(f, n, c) ==
  c = [i \in 1 .. n |-> IF i = 1 THEN f.start ELSE Following(f, c[i - 1])]

\* A set of numbers that is not empty has a least one.
LEMMA Least ==
  ASSUME NEW T, T \subseteq Nat, T # {}
  PROVE  \E x \in T : \A y \in T : x <= y
<1> DEFINE Segments == {1 .. x : x \in T}
<1>1. IsWellFoundedOn(StrictSubsetOrdering(Nat), FiniteSubsetsOf(Nat))
  BY FS_StrictSubsetOrderingWellFounded
<1>2. \A x \in T : 1 .. x \in FiniteSubsetsOf(Nat)
  <2> TAKE x \in T
  <2>1. IsFiniteSet(1 .. x)
    BY FS_Interval
  <2> QED
    BY <2>1 DEF FiniteSubsetsOf
<1>3. Segments \subseteq FiniteSubsetsOf(Nat) /\ Segments # {}
  BY <1>2
<1>4. PICK least \in Segments :
        \A s \in Segments : ~ (<<s, least>> \in StrictSubsetOrdering(Nat))
  <2> HIDE DEF Segments
  <2> QED
    BY <1>1, <1>3, WFMin
<1>5. PICK x \in T : least = 1 .. x
  OBVIOUS
<1>6. ASSUME NEW y \in T, y < x
      PROVE  FALSE
  <2>1. 1 .. y \in Segments /\ <<1 .. y, 1 .. x>> \notin StrictSubsetOrdering(Nat)
    BY <1>4, <1>5
  <2>2. 1 .. y \subseteq 1 .. x /\ x \in 1 .. x /\ x \notin 1 .. y
    BY <1>6
  <2>3. 1 .. y \in SUBSET Nat /\ 1 .. x \in SUBSET Nat
    OBVIOUS
  <2> QED
    BY <2>1, <2>2, <2>3 DEF StrictSubsetOrdering
<1> QED
  BY <1>6

\* A set that holds 0 and the successor of each of its numbers holds them all.
LEMMA Inductive ==
  ASSUME NEW T, T \subseteq Nat, 0 \in T, \A n \in T : n + 1 \in T
  PROVE  T = Nat
<1> SUFFICES ASSUME Nat \ T # {} PROVE FALSE
  OBVIOUS
<1>1. PICK x \in Nat \ T : \A y \in Nat \ T : x <= y
  <2> DEFINE U == Nat \ T
  <2>1. U \subseteq Nat /\ U # {}
    OBVIOUS
  <2> HIDE DEF U
  <2>2. \E x \in U : \A y \in U : x <= y
    BY <2>1, Least
  <2> QED
    BY <2>2 DEF U
<1>2. x - 1 \in Nat /\ x - 1 \notin Nat \ T
  BY <1>1
<1>3. (x - 1) + 1 \in T
  BY <1>2
<1> QED
  BY <1>3

\* The recursion that defines the content of a file has a solution.
LEMMA ChainExists ==
  ASSUME NEW f
  PROVE  \A n \in Nat : \E c : IsChain(f, n, c)
<1> DEFINE T == {n \in Nat : \E c : IsChain(f, n, c)}
<1>1. T \subseteq Nat
  OBVIOUS
<1>2. 0 \in T
  <2>1. IsChain(f, 0, [i \in 1 .. 0 |-> 0])
    BY DEF IsChain
  <2> QED
    BY <2>1
<1>3. ASSUME NEW n \in T PROVE n + 1 \in T
  <2>1. PICK c : IsChain(f, n, c)
    OBVIOUS
  <2> DEFINE d == [i \in 1 .. n + 1 |-> IF i = 1 THEN f.start ELSE Following(f, c[i - 1])]
  <2>2. \A i \in 1 .. n : d[i] = c[i]
    BY <2>1 DEF IsChain
  <2>3. \A i \in 1 .. n + 1 : i # 1 => i - 1 \in 1 .. n
    OBVIOUS
  <2>4. \A i \in 1 .. n + 1 : i # 1 => Following(f, c[i - 1]) = Following(f, d[i - 1])
    BY <2>2, <2>3
  <2>5. d = [i \in 1 .. n + 1 |-> IF i = 1 THEN f.start ELSE Following(f, d[i - 1])]
    BY <2>4
  <2>6. IsChain(f, n + 1, d)
    <3> HIDE DEF d
    <3> QED
      BY <2>5 DEF IsChain
  <2> QED
    BY <2>6
<1>4. T = Nat
  <2> HIDE DEF T
  <2> QED
    BY <1>1, <1>2, <1>3, Inductive
<1> QED
  BY <1>4

LEMMA ContentIsChain ==
  ASSUME NEW f, f.size \in Nat
  PROVE  IsChain(f, f.size, Fat!Content(f))
<1>1. \E c : IsChain(f, f.size, c)
  BY ChainExists
<1>2. Fat!Content(f) = CHOOSE c : IsChain(f, f.size, c)
  BY DEF Fat!Content, IsChain, Following
<1> QED
  BY <1>1, <1>2

\* The invariant with the content, which stays that of the file.
FatInv == FatCopyInv /\ content = Fat!Content(file)

LEMMA FatContentKept ==
  ASSUME FatInv, [Fat!Next]_(Fat!vars)
  PROVE  file' = file /\ content' = content /\ (content = Fat!Content(file))'
<1>1. UNCHANGED Fat!fileVars
  BY DEF Fat!Next, Fat!vars, Fat!fileVars, Fat!Open, Fat!CopyChain, Fat!FollowTable, Fat!CopyNeighbour, Fat!Finish,
    Fat!Copied, Fat!WriteFails, Fat!Ends, Fat!Error, Fat!Returns
<1>2. file' = file /\ content' = content
  BY <1>1 DEF Fat!fileVars
<1>3. Fat!Content(file)' = Fat!Content(file)
  BY <1>2 DEF Fat!Content, Fat!IsNext
<1> QED
  BY <1>2, <1>3 DEF FatInv

\* A chain of the table as long as the file is its content.
LEMMA WholeChain ==
  ASSUME Fat!FilesAssumption, FatInv, Len(output) = file.size,
         file.size > 0 => output[1] = file.start,
         \A i \in 2 .. Len(output) : FatChained(i)
  PROVE  output = content
<1>1. /\ file.size \in Nat /\ output \in Seq(Fat!Clusters)
      /\ DOMAIN output = 1 .. file.size
  BY DEF FatInv, FatCopyInv, FatTypes, Fat!FilesAssumption, Fat!IsFile
<1>2. IsChain(file, file.size, content)
  BY <1>1, ContentIsChain DEF FatInv
<1> DEFINE T == {i \in 1 .. file.size : output[i] # content[i]}
<1>3. T = {}
  <2> SUFFICES ASSUME T # {} PROVE FALSE
    OBVIOUS
  <2>1. PICK x \in T : \A y \in T : x <= y
    <3>1. T \subseteq Nat
      OBVIOUS
    <3> HIDE DEF T
    <3> QED
      BY <3>1, Least
  <2>2. x \in 1 .. file.size /\ output[x] # content[x]
    BY <2>1
  <2>3. CASE x = 1
    <3>1. content[1] = file.start
      BY <1>2, <2>2, <2>3 DEF IsChain
    <3> QED
      BY <1>1, <2>2, <2>3, <3>1
  <2>4. CASE x # 1
    <3>1. /\ x - 1 \in 1 .. file.size /\ ~(x <= x - 1)
          /\ x \in 2 .. Len(output)
      BY <1>1, <2>2, <2>4
    <3>2. output[x - 1] = content[x - 1]
      BY <2>1, <3>1
    <3>3. output[x] = Fat!NextCluster(output[x - 1]) /\ Fat!IsNext(output[x])
      BY <3>1 DEF FatChained, FatLinked
    <3>4. output[x] = Following(file, output[x - 1])
      BY <3>3 DEF Following, Fat!NextCluster, Fat!Clusters
    <3>5. content[x] = Following(file, content[x - 1])
      BY <1>2, <2>2, <2>4 DEF IsChain
    <3> QED
      BY <2>2, <3>2, <3>4, <3>5
  <2> QED
    BY <2>3, <2>4
<1>4. DOMAIN content = 1 .. file.size /\ content = [i \in 1 .. file.size |-> content[i]]
  BY <1>2 DEF IsChain
<1>5. output = [i \in 1 .. file.size |-> output[i]]
  BY <1>1
<1>6. \A i \in 1 .. file.size : output[i] = content[i]
  BY <1>3
<1> QED
  BY <1>4, <1>5, <1>6

\* The call returns: complete when all of the chain is written.
LEMMA FatReturnIsAllowed ==
  ASSUME Fat!FilesAssumption, FatInv, pc # "done",
         NEW STATE s, s \in {0, 20, 31, 44, 70, 75, 76, 32},
         NEW STATE p, p \in BOOLEAN,
         Fat!Returns(s, p),
         s \in {0, 76} /\ ~p => output = content
  PROVE  FatContract!Next
<1>1. Fat!Outcome = "running" /\ content' = content /\ output' = output
  BY DEF Fat!Outcome, Fat!Returns, Fat!fileVars
<1>2. Fat!Outcome' = IF s \in {0, 76} THEN IF p THEN "partial" ELSE "complete" ELSE "failed"
  BY DEF Fat!Outcome, Fat!Returns
<1>3. CASE s \in {0, 76} /\ ~p
  BY <1>1, <1>2, <1>3 DEF FatContract!Next, FatContract!Complete
<1>4. CASE ~(s \in {0, 76} /\ ~p)
  BY <1>1, <1>2, <1>4 DEF FatContract!Next, FatContract!GiveUp
<1> QED
  BY <1>3, <1>4

LEMMA FatErrorIsAllowed ==
  ASSUME Fat!FilesAssumption, FatInv, pc # "done",
         NEW STATE s, s \in {20, 31, 44, 70, 75, 32}, Fat!Error(s)
  PROVE  FatContract!Next
<1> DEFINE p == FALSE
<1>1. Fat!Returns(s, p) /\ p \in BOOLEAN /\ s \in {0, 20, 31, 44, 70, 75, 76, 32}
  BY DEF Fat!Error
<1>2. s \notin {0, 76}
  BY DEF Fat!FilesAssumption
<1> HIDE DEF p
<1> QED
  BY <1>1, <1>2, FatReturnIsAllowed

LEMMA FatEndIsAllowed ==
  ASSUME Fat!FilesAssumption, FatInv, NEW STATE p, p \in BOOLEAN, pc # "done",
         ~p => ~partial, Fat!Ends(p)
  PROVE  FatContract!Next
<1> DEFINE s == IF output = <<>> /\ file.size > 0 THEN 76 ELSE 0
<1> DEFINE q == p \/ Fat!Remaining > 0
<1>1. Fat!Returns(s, q) /\ q \in BOOLEAN /\ s \in {0, 20, 31, 44, 70, 75, 76, 32}
  BY DEF Fat!Ends
<1>2. ASSUME ~q PROVE output = content
  <2>1. file.size \in Nat /\ Len(output) \in Nat /\ Len(output) <= file.size
    BY DEF FatInv, FatCopyInv, FatTypes, Fat!FilesAssumption, Fat!IsFile
  <2>2. Len(output) = file.size
    BY <1>2, <2>1 DEF Fat!Remaining
  <2>3. /\ file.size > 0 => output[1] = file.start
        /\ \A i \in 2 .. Len(output) : FatChained(i)
    BY <1>2, <2>1, <2>2 DEF FatInv, FatCopyInv, FatKeptToTable
  <2> QED
    BY <2>2, <2>3, WholeChain
<1> HIDE DEF s, q
<1> QED
  BY <1>1, <1>2, FatReturnIsAllowed

LEMMA FatCopyIsAllowed ==
  ASSUME Fat!FilesAssumption, FatInv, Fat!Remaining > 0, pc # "done", pc' # "done",
         NEW STATE c, c \in Nat, c \notin seen, Fat!Copied(c), UNCHANGED Fat!fileVars
  PROVE  FatContract!Next
<1>1. /\ output' = Append(output, c) /\ output \in Seq(Fat!Clusters)
      /\ Len(output) < file.size /\ file.size \in Nat
  BY DEF FatInv, FatCopyInv, FatTypes, Fat!FilesAssumption, Fat!IsFile, Fat!Copied, Fat!Remaining
<1>2. Len(output') = Len(output) + 1 /\ SubSeq(output', 1, Len(output)) = output
  <2>1. DOMAIN output = 1 .. Len(output) /\ Len(output) \in Nat
    BY <1>1
  <2>2. Len(output') = Len(output) + 1
    BY <1>1
  <2>3. \A i \in 1 .. Len(output) : output'[i] = output[i]
    BY <1>1
  <2>4. SubSeq(output', 1, Len(output)) = [i \in 1 .. Len(output) |-> output'[i]]
    BY <2>1, <2>2
  <2>5. output = [i \in 1 .. Len(output) |-> output[i]]
    BY <2>1, <1>1
  <2> QED
    BY <2>2, <2>3, <2>4, <2>5
<1>3. Len(content) = file.size
  BY <1>1, ContentIsChain DEF FatInv, IsChain
<1>4. Fat!Outcome = "running" /\ Fat!Outcome' = "running" /\ content' = content
  BY DEF Fat!Outcome, Fat!fileVars
<1> QED
  BY <1>1, <1>2, <1>3, <1>4 DEF FatContract!Next, FatContract!Write

LEMMA FatStepIsAllowed ==
  ASSUME Fat!FilesAssumption, FatInv, [Fat!Next]_(Fat!vars)
  PROVE  [FatContract!Next]_(FatContract!vars)
<1>1. current \in Nat /\ partial \in BOOLEAN
  BY DEF FatInv, FatCopyInv, FatTypes
<1>2. ASSUME UNCHANGED <<content, output>>, pc # "done", pc' # "done"
      PROVE  UNCHANGED FatContract!vars
  BY <1>2 DEF FatContract!vars, Fat!Outcome
<1>3. CASE Fat!Open
  <2>1. CASE \E s \in {20, 31, 44, 70, 75, 32} : Fat!Error(s)
    BY <2>1, <1>3, FatErrorIsAllowed DEF Fat!Open
  <2>2. CASE pc = "open" /\ pc' = "chain" /\ UNCHANGED <<Fat!fileVars, output>>
    BY <2>2, <1>2 DEF Fat!fileVars
  <2> QED
    BY <1>3, <2>1, <2>2 DEF Fat!Open
<1>4. CASE Fat!CopyChain
  <2>1. CASE Fat!Ends(TRUE)
    BY <1>4, <2>1, FatEndIsAllowed DEF Fat!CopyChain
  <2>2. CASE \E s \in {44, 32} : Fat!Error(s)
    BY <1>4, <2>2, FatErrorIsAllowed DEF Fat!CopyChain
  <2>3. CASE ~Fat!Stops(current) /\ Fat!Copied(current) /\ pc' = "next" /\ UNCHANGED Fat!fileVars
    BY <1>1, <1>4, <2>3, FatCopyIsAllowed DEF Fat!CopyChain, Fat!Stops
  <2> QED
    BY <1>4, <2>1, <2>2, <2>3 DEF Fat!CopyChain, Fat!WriteFails
<1>5. CASE Fat!FollowTable
  <2>1. CASE Fat!Error(32)
    BY <1>5, <2>1, FatErrorIsAllowed DEF Fat!FollowTable
  <2>2. CASE pc = "next" /\ pc' = Fat!AfterCluster(current)[1] /\ UNCHANGED <<Fat!fileVars, output>>
    <3>1. pc' # "done"
      BY <2>2 DEF Fat!AfterCluster
    <3> QED
      BY <2>2, <3>1, <1>2 DEF Fat!fileVars
  <2> QED
    BY <1>5, <2>1, <2>2 DEF Fat!FollowTable
<1>6. CASE Fat!CopyNeighbour
  <2>1. CASE Fat!Ends(TRUE)
    BY <1>6, <2>1, FatEndIsAllowed DEF Fat!CopyNeighbour
  <2>2. CASE \E s \in {44, 32} : Fat!Error(s)
    BY <1>6, <2>2, FatErrorIsAllowed DEF Fat!CopyNeighbour
  <2>3. CASE current \notin seen /\ Fat!Copied(current) /\ UNCHANGED <<Fat!fileVars, pc>>
    BY <1>1, <1>6, <2>3, FatCopyIsAllowed DEF Fat!CopyNeighbour
  <2> QED
    BY <1>6, <2>1, <2>2, <2>3 DEF Fat!CopyNeighbour, Fat!WriteFails
<1>7. CASE Fat!Finish
  BY <1>1, <1>7, FatEndIsAllowed DEF Fat!Finish
<1>8. CASE UNCHANGED Fat!vars
  BY <1>8 DEF Fat!vars, Fat!fileVars, FatContract!vars, Fat!Outcome
<1> QED
  BY <1>3, <1>4, <1>5, <1>6, <1>7, <1>8 DEF Fat!Next

LEMMA FatStarts ==
  ASSUME Fat!FilesAssumption
  PROVE  Fat!Init => FatInv /\ FatContract!Init
BY FatInitHolds DEF Fat!Init, FatInv, FatContract!Init, Fat!Outcome

LEMMA FatContinues ==
  ASSUME Fat!FilesAssumption, FatInv, [Fat!Next]_(Fat!vars)
  PROVE  FatInv'
<1>1. FatCopyInv'
  BY FatNextKeeps DEF FatInv
<1>2. (content = Fat!Content(file))'
  BY FatContentKept
<1> QED
  BY <1>1, <1>2 DEF FatInv
-----------------------------------------------------------------------------
\* The scan of tombstones counts like everyone.
LEMMA TombCounts == \A S : Tomb!Cardinality(S) = Cardinality(S)
BY DEF Tomb!Cardinality, Cardinality

-----------------------------------------------------------------------------
\* Search and scan
TombTypes ==
  /\ image \in Images
  /\ pc \in {"list", "scan", "listed", "search", "copy", "done"}
  /\ offset \in Nat
  /\ candidates \in Seq(DOMAIN image.marks)
  /\ output \in Seq(Nat)
  /\ status \in {0, 20, 31, 43, 44, 80, 100, 110, 120, 130, 170, 171, 172, 14}

\* Before a candidate is chosen
Unchosen == 
  /\ pc \in {"list", "scan", "listed"} => chosen = 0
  /\ pc # "done" => partial = FALSE
  /\ pc \notin {"copy", "done"} => output = <<>>
  /\ pc # "done" => status = 0
  /\ pc = "list" => offset = 0

KeysDiffer ==
  \A i, j \in DOMAIN candidates : i # j => Tomb!KeyOf(candidates[i]) # Tomb!KeyOf(candidates[j])

\* No mark hides another one and the scan keeps to its grid.
Clear ==
  /\ Tomb!Format.scan.record % Tomb!Step = 0
  /\ \A o \in DOMAIN image.marks :
       /\ o + Tomb!RecordLength(image.marks[o]) <= image.length
       /\ \A p \in DOMAIN image.marks : o < p => o + Tomb!RecordLength(image.marks[o]) <= p

ClearSearch ==
  /\ \A o, p \in DOMAIN Tomb!Search.marks : o # p => Tomb!Search.marks[o].id # Tomb!Search.marks[p].id
  /\ \A o \in DOMAIN Tomb!Search.marks :
       /\ o + Tomb!Search.jump <= image.length
       /\ \A p \in DOMAIN Tomb!Search.marks : o < p => o + Tomb!Search.jump <= p

ListedBefore ==
  /\ pc = "scan" /\ Clear =>
       /\ offset % Tomb!Step = 0
       /\ \A o \in Tomb!Wanted : o < offset => Tomb!Listed(o)
  /\ pc = "listed" /\ Clear /\ Len(candidates) < Tomb!Maximum => \A o \in Tomb!Wanted : Tomb!Listed(o)

Asked(o) == o \in DOMAIN Tomb!Search.marks /\ Tomb!Search.marks[o].id = image.marks[chosen].id

SearchedBefore ==
  /\ pc = "search" /\ ClearSearch => \A o \in DOMAIN Tomb!Search.marks : o < offset => ~Asked(o)
  /\ pc = "copy" => 
      /\ Asked(offset)
      /\ Len(output) <= Tomb!Payload.size
      /\ \A i \in DOMAIN output : output[i] = Tomb!Payload.from + i - 1

TombInv ==
  /\ TombTypes /\ Unchosen /\ KeysDiffer /\ ListedBefore /\ SearchedBefore
  /\ Tomb!OwnPayload /\ Tomb!RefusedIsWithoutPayload

LEMMA ImageFacts ==
  ASSUME Tomb!ImagesAssumption, image \in Images
  PROVE  /\ DOMAIN image.marks \subseteq Nat
         /\ \A o \in DOMAIN image.marks : Tomb!RecordLength(image.marks[o]) \in Nat \ {0}
         /\ image.length \in Nat
         /\ Tomb!Format.scan.record \in Nat
         /\ Tomb!Format.scan.kind = "usn" <=> image.volume = "refs"
         /\ Tomb!Format.scan.kind = "usn" => Tomb!Format.scan.record = 0
         /\ Tomb!Format.scan.kind # "usn" => Tomb!Format.scan.record \in {3, 4}
         /\ Tomb!Format.invalid \in {80, 100, 110, 120, 130}
<1>1. Tomb!IsImage(image)
  BY DEF Tomb!ImagesAssumption
<1>2. image.volume \in {"refs", "apfs", "hfs", "xfs", "ufs"}
  BY <1>1 DEF Tomb!IsImage
<1>3. /\ Tomb!Format.scan.record \in Nat
      /\ Tomb!Format.scan.kind = "usn" <=> image.volume = "refs"
      /\ Tomb!Format.scan.kind = "usn" => Tomb!Format.scan.record = 0
      /\ Tomb!Format.scan.kind # "usn" => Tomb!Format.scan.record \in {3, 4}
      /\ Tomb!Format.invalid \in {80, 100, 110, 120, 130}
  BY <1>2 DEF Tomb!Format, Tomb!RefsList, Tomb!ApfsList, Tomb!HfsList, Tomb!XfsList, Tomb!UfsList, Tomb!RefsScan, Tomb!ApfsScan, Tomb!HfsScan, Tomb!XfsScan, Tomb!UfsScan
<1>4. ASSUME NEW o \in DOMAIN image.marks PROVE Tomb!RecordLength(image.marks[o]) \in Nat \ {0}
  <2>1. image.marks[o].length \in Nat \ {0}
    BY <1>1 DEF Tomb!IsImage, Tomb!IsMark
  <2>2. CASE Tomb!Format.scan.kind = "usn"
    BY <2>1, <2>2 DEF Tomb!RecordLength
  <2>3. CASE Tomb!Format.scan.kind # "usn"
    BY <1>3, <2>3 DEF Tomb!RecordLength
  <2> QED BY <2>2, <2>3
<1>5. DOMAIN image.marks \subseteq Nat /\ image.length \in Nat
  BY <1>1 DEF Tomb!IsImage
<1> QED
  BY <1>3, <1>4, <1>5

LEMMA EvenSum == \A a, b \in Nat : a % 2 = 0 /\ b % 2 = 0 => (a + b) % 2 = 0
OBVIOUS

LEMMA TombStarts == ASSUME Tomb!ImagesAssumption, Tomb!Init PROVE TombInv
<1>1. TombTypes /\ Unchosen
  BY DEF Tomb!Init, TombTypes, Unchosen
<1>2. KeysDiffer /\ ListedBefore /\ SearchedBefore /\ Tomb!OwnPayload /\ Tomb!RefusedIsWithoutPayload
  BY DEF Tomb!Init, KeysDiffer, ListedBefore, SearchedBefore, Tomb!OwnPayload, Tomb!RefusedIsWithoutPayload
<1> QED BY <1>1, <1>2 DEF TombInv

\* scan steps
LEMMA ScanMarkKeeps == ASSUME Tomb!ImagesAssumption, TombInv, Tomb!ScanMark PROVE TombInv'
<1> DEFINE m == image.marks[offset]
<1>1. /\ pc = "scan" /\ pc' = "scan" /\ Tomb!MarkAt(offset) /\ UNCHANGED <<image, chosen, output, partial, status>>
      /\ candidates' = IF Tomb!Yields(m) /\ ~Tomb!Listed(offset)
                         THEN Append(candidates, offset) ELSE candidates
      /\ offset' = offset + Tomb!RecordLength(m)
  BY DEF Tomb!ScanMark, Tomb!Scanning
<1>2. /\ candidates \in Seq(DOMAIN image.marks) /\ offset \in Nat /\ offset \in DOMAIN image.marks
      /\ Tomb!RecordLength(m) \in Nat \ {0}
  BY <1>1, ImageFacts DEF TombInv, TombTypes, Tomb!MarkAt
<1>3. TombTypes' /\ Unchosen'
  <2>1. candidates' \in Seq(DOMAIN image'.marks)
    <3>1. CASE candidates' = candidates
      BY <1>1, <1>2, <3>1
    <3>2. CASE candidates' = Append(candidates, offset)
      <4> DEFINE D == DOMAIN image.marks
      <4>1. candidates \in Seq(D) /\ offset \in D
        BY <1>2
      <4> HIDE DEF D
      <4>2. Append(candidates, offset) \in Seq(D)
        BY <4>1
      <4> QED BY <4>2, <1>1, <3>2 DEF D
    <3> QED BY <1>1, <3>1, <3>2
  <2> HIDE DEF m
  <2> QED BY <1>1, <1>2, <2>1 DEF TombInv, TombTypes, Unchosen
<1>4. KeysDiffer'
  <2>1. CASE candidates' = candidates
    BY <1>1, <2>1 DEF TombInv, KeysDiffer, Tomb!KeyOf
  <2>2. CASE ~Tomb!Listed(offset) /\ candidates' = Append(candidates, offset)
    <3> SUFFICES ASSUME NEW i \in DOMAIN candidates', NEW j \in DOMAIN candidates', i # j
                 PROVE  Tomb!KeyOf(candidates'[i]) # Tomb!KeyOf(candidates'[j])
      BY <1>1 DEF KeysDiffer, Tomb!KeyOf
    <3>1. /\ DOMAIN candidates = 1 .. Len(candidates) /\ Len(candidates) \in Nat
          /\ DOMAIN candidates' = 1 .. Len(candidates) + 1
          /\ \A x \in DOMAIN candidates : candidates'[x] = candidates[x]
          /\ candidates'[Len(candidates) + 1] = offset
      BY <1>2, <2>2
    <3>2. \A x \in DOMAIN candidates : Tomb!KeyOf(candidates[x]) # Tomb!KeyOf(offset)
      BY <2>2 DEF Tomb!Listed
    <3>3. CASE i \in DOMAIN candidates /\ j \in DOMAIN candidates
      BY <3>1, <3>3 DEF TombInv, KeysDiffer
    <3>4. CASE i = Len(candidates) + 1 \/ j = Len(candidates) + 1
      BY <3>1, <3>2, <3>4
    <3> QED BY <3>1, <3>3, <3>4
  <2> QED BY <1>1, <2>1, <2>2
<1>5. ASSUME NEW o PROVE Tomb!Listed(o) => Tomb!Listed(o)'
  <2>1. CASE candidates' = candidates
    BY <1>1, <2>1 DEF Tomb!Listed, Tomb!KeyOf
  <2>2. CASE candidates' = Append(candidates, offset)
    <3>1. \A x \in DOMAIN candidates : x \in DOMAIN candidates' /\ candidates'[x] = candidates[x]
      BY <1>2, <2>2
    <3> QED BY <1>1, <3>1 DEF Tomb!KeyOf, Tomb!Listed
  <2> QED BY <1>1, <2>1, <2>2
<1>6. ASSUME NEW o, o = offset, Tomb!Yields(m) PROVE Tomb!Listed(o)'
  <2>1. CASE Tomb!Listed(offset)
    BY <2>1, <1>5, <1>6
  <2>2. CASE ~Tomb!Listed(offset)
    <3>1. candidates' = Append(candidates, offset)
      BY <1>1, <1>6, <2>2
    <3>2. candidates'[Len(candidates) + 1] = o /\ Len(candidates) + 1 \in DOMAIN candidates'
      BY <1>2, <1>6, <3>1
    <3> QED BY <3>2, <1>1 DEF Tomb!Listed, Tomb!KeyOf
  <2> QED BY <2>1, <2>2
<1>7. ListedBefore'
  <2>1. Clear' <=> Clear
    BY <1>1 DEF Clear, Tomb!Format, Tomb!RecordLength
  <2>2. Tomb!Wanted' = Tomb!Wanted
    BY <1>1 DEF Tomb!Wanted, Tomb!Yields, Tomb!Format
  <2> SUFFICES ASSUME Clear PROVE offset' % Tomb!Step = 0 /\ \A o \in Tomb!Wanted : o < offset' => Tomb!Listed(o)'
    BY <1>1, <2>1, <2>2 DEF ListedBefore
  <2>3. offset % Tomb!Step = 0 /\ \A o \in Tomb!Wanted : o < offset => Tomb!Listed(o)
    BY <1>1 DEF TombInv, ListedBefore
  <2>4. Tomb!RecordLength(m) % Tomb!Step = 0
    <3>1. CASE Tomb!Format.scan.kind = "usn"
      BY <1>2, <3>1, ImageFacts DEF TombInv, TombTypes, Tomb!RecordLength, Tomb!ImagesAssumption, Tomb!IsImage
    <3>2. CASE Tomb!Format.scan.kind # "usn"
      BY <3>2 DEF Clear, Tomb!RecordLength
    <3> QED BY <3>1, <3>2
  <2>5. offset' % Tomb!Step = 0
    BY <1>1, <1>2, <2>3, <2>4, EvenSum DEF Tomb!Step
  <2>6. ASSUME NEW o \in Tomb!Wanted, o < offset' PROVE Tomb!Listed(o)'
    <3>1. o \in DOMAIN image.marks /\ Tomb!Yields(image.marks[o]) /\ o \in Nat
      BY ImageFacts DEF TombInv, TombTypes, Tomb!Wanted
    <3>2. CASE o < offset
      BY <2>3, <3>2, <1>5
    <3>3. CASE o = offset
      BY <3>1, <3>3, <1>6
    <3>4. CASE o > offset
      <4>1. offset + Tomb!RecordLength(m) <= o
        BY <3>1, <3>4, <1>2 DEF Clear
      <4> QED BY <3>1, <4>1, <2>6, <1>1, <1>2
    <3> QED BY <3>1, <3>2, <3>3, <3>4, <1>2
  <2> QED BY <2>5, <2>6
<1>8. SearchedBefore' /\ Tomb!OwnPayload' /\ Tomb!RefusedIsWithoutPayload'
  BY <1>1 DEF SearchedBefore, Tomb!OwnPayload, Tomb!RefusedIsWithoutPayload
<1> QED BY <1>3, <1>4, <1>7, <1>8 DEF TombInv

LEMMA ScanOnKeeps == ASSUME Tomb!ImagesAssumption, TombInv, Tomb!ScanOn PROVE TombInv'
<1>1. /\ pc = "scan" /\ pc' = "scan" /\ ~Tomb!MarkAt(offset)
      /\ UNCHANGED <<image, candidates, chosen, output, partial, status>>
      /\ offset' = offset + Tomb!Step
  BY DEF Tomb!ScanOn, Tomb!Scanning
<1>2. TombTypes' /\ Unchosen'
  BY <1>1 DEF TombInv, TombTypes, Unchosen, Tomb!Step
<1>3. KeysDiffer'
  BY <1>1 DEF TombInv, KeysDiffer, Tomb!KeyOf
<1>4. ListedBefore'
  <2>1. Clear' <=> Clear
    BY <1>1 DEF Clear, Tomb!Format, Tomb!RecordLength
  <2>2. Tomb!Wanted' = Tomb!Wanted /\ \A o : Tomb!Listed(o)' <=> Tomb!Listed(o)
    BY <1>1 DEF Tomb!Wanted, Tomb!Yields, Tomb!Format, Tomb!Listed, Tomb!KeyOf
  <2> SUFFICES ASSUME Clear PROVE offset' % Tomb!Step = 0 /\ \A o \in Tomb!Wanted : o < offset' => Tomb!Listed(o)
    BY <1>1, <2>1, <2>2 DEF ListedBefore
  <2>3. offset % Tomb!Step = 0 /\ \A o \in Tomb!Wanted : o < offset => Tomb!Listed(o)
    BY <1>1 DEF TombInv, ListedBefore
  <2>4. offset \in Nat
    BY DEF TombInv, TombTypes
  <2>5. offset' % Tomb!Step = 0
    BY <1>1, <2>3, <2>4 DEF Tomb!Step
  <2>6. ASSUME NEW o \in Tomb!Wanted, o < offset' PROVE o < offset
    <3>1. o \in DOMAIN image.marks /\ o \in Nat /\ o % Tomb!Step = 0
      BY ImageFacts DEF TombInv, TombTypes, Tomb!Wanted
    <3>2. o # offset
      BY <1>1, <3>1 DEF Tomb!MarkAt, Clear
    <3> QED BY <1>1, <2>3, <2>4, <2>6, <3>1, <3>2 DEF Tomb!Step
  <2> QED BY <2>3, <2>5, <2>6
<1>5. SearchedBefore' /\ Tomb!OwnPayload' /\ Tomb!RefusedIsWithoutPayload'
  BY <1>1 DEF SearchedBefore, Tomb!OwnPayload, Tomb!RefusedIsWithoutPayload
<1> QED BY <1>2, <1>3, <1>4, <1>5 DEF TombInv

LEMMA ScanEndsKeeps == ASSUME Tomb!ImagesAssumption, TombInv, Tomb!ScanEnds PROVE TombInv'
<1>1. /\ pc = "scan" /\ pc' = "listed" /\ ~Tomb!Scanning
      /\ UNCHANGED <<image, offset, candidates, chosen, output, partial, status>>
  BY DEF Tomb!ScanEnds
<1>2. TombTypes' /\ Unchosen'
  BY <1>1 DEF TombInv, TombTypes, Unchosen
<1>3. KeysDiffer'
  BY <1>1 DEF TombInv, KeysDiffer, Tomb!KeyOf
<1>4. ListedBefore'
  <2>1. Clear' <=> Clear
    BY <1>1 DEF Clear, Tomb!Format, Tomb!RecordLength
  <2>2. Tomb!Wanted' = Tomb!Wanted /\ \A o : Tomb!Listed(o)' <=> Tomb!Listed(o)
    BY <1>1 DEF Tomb!Wanted, Tomb!Yields, Tomb!Format, Tomb!Listed, Tomb!KeyOf
  <2>3. Len(candidates') = Len(candidates) /\ Tomb!Maximum' = Tomb!Maximum
    BY <1>1 DEF Tomb!Maximum
  <2> SUFFICES ASSUME Clear, Len(candidates) < Tomb!Maximum, NEW o \in Tomb!Wanted PROVE Tomb!Listed(o)
    BY <1>1, <2>1, <2>2, <2>3 DEF ListedBefore
  <2>4. o \in DOMAIN image.marks /\ o \in Nat /\ image.length \in Nat
    BY ImageFacts DEF TombInv, TombTypes, Tomb!Wanted
  <2>5. Tomb!RecordLength(image.marks[o]) \in Nat \ {0} /\ o + Tomb!RecordLength(image.marks[o]) <= image.length
    BY <2>4, ImageFacts DEF Clear, TombInv, TombTypes
  <2>6. offset \in Nat
    BY DEF TombInv, TombTypes
  <2>7. o < offset
    <3>1. CASE Tomb!Format.scan.kind = "usn"
      <4>1. Tomb!RecordLength(image.marks[o]) % 2 = 0
        BY <2>4, <3>1, ImageFacts DEF TombInv, TombTypes, Tomb!RecordLength, Tomb!ImagesAssumption, Tomb!IsImage, Tomb!Step
      <4>2. ~(offset + Tomb!Step <= image.length)
        BY <1>1, <3>1 DEF Tomb!Scanning
      <4> QED BY <2>4, <2>5, <2>6, <4>1, <4>2 DEF Tomb!Step
    <3>2. CASE Tomb!Format.scan.kind # "usn"
      <4>1. Tomb!RecordLength(image.marks[o]) = Tomb!Format.scan.record /\ Tomb!Format.scan.record \in Nat
        BY <3>2, ImageFacts DEF Tomb!RecordLength, TombInv, TombTypes
      <4>2. ~(offset + Tomb!Format.scan.record <= image.length)
        BY <1>1, <3>2 DEF Tomb!Scanning
      <4> QED BY <2>4, <2>5, <2>6, <4>1, <4>2
    <3> QED BY <3>1, <3>2
  <2> QED BY <1>1, <2>7 DEF TombInv, ListedBefore
<1>5. SearchedBefore' /\ Tomb!OwnPayload' /\ Tomb!RefusedIsWithoutPayload'
  BY <1>1 DEF SearchedBefore, Tomb!OwnPayload, Tomb!RefusedIsWithoutPayload
<1> QED BY <1>2, <1>3, <1>4, <1>5 DEF TombInv

\* The rest
LEMMA ListedIsComplete == 
  ASSUME Tomb!ImagesAssumption, TombInv PROVE Tomb!EveryDeletionListed
<1> SUFFICES ASSUME pc = "listed", Len(candidates) < Tomb!Maximum, Tomb!Apart(image.marks, Tomb!RecordLength),
                    Tomb!Format.scan.record % Tomb!Step = 0, NEW o \in Tomb!Wanted
             PROVE  Tomb!Cardinality({i \in DOMAIN candidates : Tomb!KeyOf(candidates[i]) = Tomb!KeyOf(o)}) = 1
  BY DEF Tomb!EveryDeletionListed, Tomb!Complete
<1>1. Clear
  BY DEF Tomb!Apart, Clear
<1>2. PICK i \in DOMAIN candidates : Tomb!KeyOf(candidates[i]) = Tomb!KeyOf(o)
  BY <1>1 DEF TombInv, ListedBefore, Tomb!Listed
<1>3. {j \in DOMAIN candidates : Tomb!KeyOf(candidates[j]) = Tomb!KeyOf(o)} = {i}
  BY <1>2 DEF TombInv, KeysDiffer
<1> QED BY <1>3, TombCounts, FS_Singleton

LEMMA UnambiguousIs == Tomb!Unambiguous <=> ClearSearch
BY DEF Tomb!Unambiguous, ClearSearch, Tomb!Apart

\* Nothing of what the properties of the search name changes before it starts.
LEMMA ListKeeps == ASSUME Tomb!ImagesAssumption, TombInv, Tomb!List PROVE TombInv'
<1>1. pc = "list" /\ UNCHANGED <<image, offset, candidates, chosen, output, partial>>
      /\ (\/ pc' = "scan" /\ status' = status
          \/ pc' = "done" /\ status' \in {20, 31, 14, Tomb!Format.invalid})
  <2>1. CASE \E x \in {20, 31, 14, Tomb!Format.invalid} : Tomb!Returns(x)
    BY <2>1 DEF Tomb!List, Tomb!Returns
  <2>2. CASE pc' = "scan" /\ UNCHANGED <<image, offset, candidates, chosen, output, partial, status>>
    BY <2>2 DEF Tomb!List
  <2> QED BY <2>1, <2>2 DEF Tomb!List
<1>2. TombTypes'
  <2>1. Tomb!Format.invalid \in {80, 100, 110, 120, 130}
    BY ImageFacts DEF TombInv, TombTypes
  <2>2. status' \in {0, 20, 31, 43, 44, 80, 100, 110, 120, 130, 170, 171, 172, 14}
    BY <1>1, <2>1 DEF TombInv, TombTypes
  <2> QED BY <1>1, <2>2 DEF TombInv, TombTypes
<1>3. Unchosen' /\ KeysDiffer'
  BY <1>1 DEF TombInv, Unchosen, KeysDiffer, Tomb!KeyOf
<1>4. chosen' = 0
  BY <1>1 DEF TombInv, Unchosen
<1>5. ListedBefore'
  <2>1. offset' = 0 /\ \A o \in Tomb!Wanted' : o \in Nat
    <3>1. Tomb!Wanted' = Tomb!Wanted
      BY <1>1 DEF Tomb!Wanted, Tomb!Yields, Tomb!Format
    <3> QED BY <1>1, <3>1, ImageFacts DEF TombInv, TombTypes, Unchosen, Tomb!Wanted
  <2> QED BY <1>1, <2>1 DEF ListedBefore, Tomb!Step
<1>6. SearchedBefore' /\ Tomb!OwnPayload' /\ Tomb!RefusedIsWithoutPayload'
  BY <1>1, <1>4 DEF SearchedBefore, Tomb!OwnPayload, Tomb!RefusedIsWithoutPayload
<1> QED BY <1>2, <1>3, <1>5, <1>6 DEF TombInv
LEMMA SearchKept == ASSUME image' = image, chosen' = chosen 
  PROVE /\ Tomb!Search' = Tomb!Search /\ (ClearSearch' <=> ClearSearch)
        /\ \A o : (Asked(o)' <=> Asked(o)) /\ (Tomb!HasPayload(o)' <=> Tomb!HasPayload(o))
<1>1. Tomb!Search' = Tomb!Search
  BY DEF Tomb!Search, Tomb!FindRefsPayload, Tomb!FindPayload64, Tomb!FindPayload32, Tomb!Format
<1> QED BY <1>1 DEF ClearSearch, Asked, Tomb!HasPayload

LEMMA SearchFacts ==
  ASSUME Tomb!ImagesAssumption, image \in Images
  PROVE  /\ DOMAIN Tomb!Search.marks \subseteq Nat /\ Tomb!Search.jump \in Nat \ {0}
         /\ \A o \in DOMAIN Tomb!Search.marks : Tomb!Search.marks[o].size \in Nat /\ Tomb!Search.marks[o].from \in Nat
<1>1. Tomb!IsImage(image)
  BY DEF Tomb!ImagesAssumption
<1>2. CASE image.volume = "refs"
  <2>1. Tomb!Search.marks = image.payloads /\ Tomb!Search.jump = 1
    BY <1>2 DEF Tomb!Search, Tomb!FindRefsPayload
  <2>2. \A o \in DOMAIN image.payloads :
          o \in Nat /\ image.payloads[o].size \in Nat /\ image.payloads[o].from \in Nat
    BY <1>1 DEF Tomb!IsImage, Tomb!IsMark
  <2> QED BY <2>1, <2>2
<1>3. CASE image.volume # "refs"
  <2>1. Tomb!Search.marks = image.marks /\ Tomb!Search.jump = Tomb!Format.scan.record
    BY <1>1, <1>3 DEF Tomb!IsImage, Tomb!Search, Tomb!FindPayload64, Tomb!FindPayload32
  <2>2. Tomb!Format.scan.record \in {3, 4}
    BY <1>3, ImageFacts
  <2>3. \A o \in DOMAIN image.marks :
          o \in Nat /\ image.marks[o].size \in Nat /\ image.marks[o].from \in Nat
    BY <1>1 DEF Tomb!IsImage, Tomb!IsMark
  <2> QED BY <2>1, <2>2, <2>3
<1> QED BY <1>2, <1>3

\* When the copy ends.
LEMMA OwnIs ==
  ASSUME Tomb!ImagesAssumption, TombInv, pc = "copy", UNCHANGED <<image, offset, chosen, output>>,
         partial' \in BOOLEAN, partial' <=> Len(output) < Tomb!Payload.size
  PROVE Tomb!OwnPayload'
<1> SUFFICES ASSUME Tomb!Unambiguous'
    PROVE LET own == CHOOSE o \in DOMAIN Tomb!Search.marks :
                 Tomb!Search.marks[o].id = image.marks[chosen].id
              m == Tomb!Search.marks[own]
    IN /\ \A i \in DOMAIN output : output[i] = m.from + i - 1
       /\ partial' <=> (Len(output) < m.size)
  BY SearchKept DEF Tomb!OwnPayload
<1>1. ClearSearch
  BY SearchKept, UnambiguousIs DEF Tomb!Unambiguous, Tomb!Apart, ClearSearch
<1>2. Asked(offset)
  BY DEF TombInv, SearchedBefore
<1>3. (CHOOSE o \in DOMAIN Tomb!Search.marks : Tomb!Search.marks[o].id = image.marks[chosen].id) = offset
  BY <1>1, <1>2 DEF ClearSearch, Asked
<1>4. \A i \in DOMAIN output : output[i] = Tomb!Payload.from + i - 1
  BY DEF TombInv, SearchedBefore
<1> QED BY <1>3, <1>4 DEF Tomb!Payload

LEMMA RecoverKeeps == ASSUME Tomb!ImagesAssumption, TombInv, Tomb!Recover PROVE TombInv'
<1>1. /\ pc = "listed" /\ offset' = 0 /\ UNCHANGED <<image, candidates, output, partial>>
      /\ \/ pc' = "search" /\ status' = status
         \/ pc' = "done" /\ status' \in {43, 20, 14, 31}
         \/ pc' = "done" /\ status' = 170 /\ image.again = "id"
  BY DEF Tomb!Recover
<1>2. TombTypes'
  <2>1. /\ image' \in Images /\ candidates' \in Seq(DOMAIN image'.marks) /\ output' \in Seq(Nat)
        /\ offset' \in Nat
    BY <1>1 DEF TombInv, TombTypes
  <2>2. /\ pc' \in {"list", "scan", "listed", "search", "copy", "done"}
        /\ status' \in {0, 20, 31, 43, 44, 80, 100, 110, 120, 130, 170, 171, 172, 14}
    <3>1. CASE pc' = "search" /\ status' = status
      BY <3>1 DEF TombInv, TombTypes
    <3>2. CASE pc' = "done" /\ status' \in {43, 20, 14, 31, 170}
      BY <3>2
    <3> QED BY <1>1, <3>1, <3>2
  <2> QED BY <2>1, <2>2 DEF TombTypes
<1>3. Unchosen' /\ KeysDiffer'
  BY <1>1 DEF TombInv, Unchosen, KeysDiffer, Tomb!KeyOf
<1>4. ListedBefore'
  BY <1>1 DEF ListedBefore
<1>5. SearchedBefore'
  <2>1. \A o \in DOMAIN Tomb!Search'.marks : o \in Nat
    <3>1. Tomb!Search' = Tomb!Search
      BY <1>1 DEF Tomb!Search, Tomb!FindRefsPayload, Tomb!FindPayload64, Tomb!FindPayload32, Tomb!Format
    <3> QED BY <3>1, SearchFacts DEF TombInv, TombTypes
  <2> QED BY <1>1, <2>1 DEF SearchedBefore
<1>6. 14 \in Nat \ {0, 170, 172}
  BY DEF Tomb!ImagesAssumption
<1>7. Tomb!OwnPayload' /\ Tomb!RefusedIsWithoutPayload'
  BY <1>1, <1>6 DEF Tomb!OwnPayload, Tomb!RefusedIsWithoutPayload
<1> QED BY <1>2, <1>3, <1>4, <1>5, <1>7 DEF TombInv

LEMMA NothingKeeps == ASSUME Tomb!ImagesAssumption, TombInv, Tomb!Nothing PROVE TombInv'
<1>1. pc = "listed" /\ pc' = "done" /\ status' = 0 /\ UNCHANGED <<image, offset, candidates, chosen, output, partial>>
  BY DEF Tomb!Nothing, Tomb!Returns
<1>2. TombTypes'
  BY <1>1 DEF TombInv, TombTypes
<1>3. Unchosen' /\ KeysDiffer'
  BY <1>1 DEF TombInv, Unchosen, KeysDiffer, Tomb!KeyOf
<1>4. chosen' = 0
  BY <1>1 DEF TombInv, Unchosen
<1>5. ListedBefore' /\ SearchedBefore' /\ Tomb!OwnPayload' /\ Tomb!RefusedIsWithoutPayload'
  BY <1>1, <1>4 DEF ListedBefore, SearchedBefore, Tomb!OwnPayload, Tomb!RefusedIsWithoutPayload
<1> QED BY <1>2, <1>3, <1>5 DEF TombInv

LEMMA SearchOnKeeps == ASSUME Tomb!ImagesAssumption, TombInv, Tomb!SearchOn PROVE TombInv'
<1>1. /\ pc = "search" /\ pc' = pc /\ ~Asked(offset)
      /\ UNCHANGED <<image, pc, candidates, chosen, output, partial, status>>
      /\ offset' = offset + (IF offset \in DOMAIN Tomb!Search.marks THEN Tomb!Search.jump ELSE Tomb!SearchStep)
  BY DEF Tomb!SearchOn, Tomb!Searching, Tomb!IsTarget, Asked
<1>2. /\ offset \in Nat /\ Tomb!Search.jump \in Nat \ {0} /\ DOMAIN Tomb!Search.marks \subseteq Nat 
  BY SearchFacts DEF TombInv, TombTypes
<1>3. TombTypes' /\ Unchosen' /\ KeysDiffer'
  BY <1>1, <1>2 DEF TombInv, TombTypes, Unchosen, KeysDiffer, Tomb!KeyOf, Tomb!SearchStep
<1>4. ListedBefore' /\ Tomb!OwnPayload' /\ Tomb!RefusedIsWithoutPayload'
  BY <1>1 DEF ListedBefore, Tomb!OwnPayload, Tomb!RefusedIsWithoutPayload
<1>5. SearchedBefore'
  <2> SUFFICES ASSUME ClearSearch, NEW o \in DOMAIN Tomb!Search.marks, o < offset' PROVE ~Asked(o)
    BY <1>1, SearchKept DEF SearchedBefore
  <2>1. CASE o < offset
    BY <1>1, <2>1 DEF TombInv, SearchedBefore
  <2>2. CASE o = offset
    BY <1>1, <2>2
  <2>3. CASE o > offset
    <3>1. o \in Nat
      BY <1>2
    <3>2. CASE offset \in DOMAIN Tomb!Search.marks
      BY <1>1, <1>2, <2>3, <3>1, <3>2 DEF ClearSearch
    <3>3. CASE offset \notin DOMAIN Tomb!Search.marks
      BY <1>1, <1>2, <2>3, <3>1, <3>3 DEF Tomb!SearchStep
    <3> QED BY <3>2, <3>3
  <2> QED BY <1>2, <2>1, <2>2, <2>3
<1> QED BY <1>3, <1>4, <1>5 DEF TombInv

LEMMA FoundKeeps == ASSUME Tomb!ImagesAssumption, TombInv, Tomb!Found PROVE TombInv'
<1>1. /\ pc = "search" /\ Asked(offset) /\ UNCHANGED <<image, offset, candidates, chosen, output, partial>>
      /\ \/ pc' = "done" /\ status' \in {44, 171}
         \/ pc' = "done" /\ status' = 170 /\ ~Tomb!HasPayload(offset)
         \/ pc' = "copy" /\ status' = status
  BY DEF Tomb!Found, Tomb!Searching, Tomb!IsTarget, Asked, Tomb!Returns
<1>2. TombTypes' /\ Unchosen' /\ KeysDiffer'
  BY <1>1 DEF TombInv, TombTypes, Unchosen, KeysDiffer, Tomb!KeyOf
<1>3. ListedBefore' /\ Tomb!OwnPayload'
  BY <1>1 DEF ListedBefore, Tomb!OwnPayload
<1>4. SearchedBefore'
  <2> SUFFICES ASSUME pc' = "copy" 
        PROVE /\ Asked(offset') /\ Len(output') <= Tomb!Search.marks[offset'].size
              /\ \A i \in DOMAIN output' : output'[i] = Tomb!Search.marks[offset'].from + i - 1
    BY <1>1, SearchKept DEF SearchedBefore, Tomb!Payload, Asked
  <2>1. Tomb!Search.marks[offset].size \in Nat
    BY <1>1, SearchFacts DEF Asked, TombInv, TombTypes
  <2> QED BY <1>1, <2>1 DEF TombInv, Unchosen
<1>5. Tomb!RefusedIsWithoutPayload'
  <2> SUFFICES ASSUME status' = 170, Tomb!Unambiguous, NEW o \in DOMAIN Tomb!Search.marks, Asked(o), Tomb!HasPayload(o)
        PROVE FALSE
    <3>1. Tomb!Unambiguous' <=> Tomb!Unambiguous
      BY <1>1, SearchKept, UnambiguousIs DEF Tomb!Unambiguous, Tomb!Apart
    <3> QED BY <1>1, <3>1, SearchKept DEF Tomb!RefusedIsWithoutPayload, Asked
  <2>1. o = offset
    BY <1>1, UnambiguousIs DEF ClearSearch, Asked
  <2> QED BY <1>1, <2>1 DEF TombInv, Unchosen
<1> QED BY <1>2, <1>3, <1>4, <1>5 DEF TombInv

LEMMA NotFoundKeeps == ASSUME Tomb!ImagesAssumption, TombInv, Tomb!NotFound PROVE TombInv'
<1>1. /\ pc = "search" /\ ~Tomb!Searching /\ UNCHANGED <<image, offset, candidates, chosen, output, partial>>
      /\ pc' = "done" /\ status' = 170 
  BY DEF Tomb!NotFound, Tomb!Returns
<1>2. TombTypes' /\ Unchosen' /\ KeysDiffer'
  BY <1>1 DEF TombInv, TombTypes, Unchosen, KeysDiffer, Tomb!KeyOf
<1>3. ListedBefore' /\ Tomb!OwnPayload' /\ SearchedBefore'
  BY <1>1 DEF ListedBefore, Tomb!OwnPayload, SearchedBefore
<1>5. Tomb!RefusedIsWithoutPayload'
  <2> SUFFICES ASSUME Tomb!Unambiguous, NEW o \in DOMAIN Tomb!Search.marks, Asked(o)
        PROVE FALSE
    <3>1. Tomb!Unambiguous' <=> Tomb!Unambiguous
      BY <1>1, SearchKept, UnambiguousIs DEF Tomb!Unambiguous, Tomb!Apart
    <3> QED BY <1>1, <3>1, SearchKept DEF Tomb!RefusedIsWithoutPayload, Asked
  <2>1. ClearSearch
    BY UnambiguousIs
  <2>2. /\ offset \in Nat /\ Tomb!Search.jump \in Nat \ {0} /\ o \in Nat /\ image.length \in Nat
    BY SearchFacts, ImageFacts DEF TombInv, TombTypes
  <2>3. o + Tomb!Search.jump <= image.length /\ ~(offset + Tomb!Search.jump <= image.length)
    BY <1>1, <2>1 DEF ClearSearch, Tomb!Searching
  <2>4. o < offset
    BY <2>2, <2>3
  <2> QED BY <1>1, <2>1, <2>4 DEF TombInv, SearchedBefore
<1> QED BY <1>2, <1>3, <1>5 DEF TombInv

LEMMA CopyKeeps == ASSUME Tomb!ImagesAssumption, TombInv, Tomb!Copy PROVE TombInv'
<1>1. /\ pc = "copy" /\ UNCHANGED <<image, offset, candidates, chosen>>
      /\ Asked(offset) /\ Len(output) < Tomb!Payload.size
      /\ \/ pc' = "done" /\ status' \in {44, 172} /\ UNCHANGED <<output, partial>>
         \/ pc' = "done" /\ status' = status /\ partial' = TRUE /\ UNCHANGED output
         \/ /\ UNCHANGED <<pc, partial, status>>
            /\ output' = Append(output, Tomb!Payload.from + Len(output))
  BY DEF Tomb!Copy, Tomb!Returns, TombInv, SearchedBefore
<1>2. Tomb!Payload.from \in Nat /\ Tomb!Payload.size \in Nat /\ output \in Seq(Nat)
  BY <1>1, SearchFacts DEF Asked, TombInv, TombTypes, Tomb!Payload
<1>3. TombTypes' /\ Unchosen' /\ KeysDiffer'
  <2>1. output' \in Seq(Nat)
    BY <1>1, <1>2
  <2>2. status' \in {0, 20, 31, 43, 44, 80, 100, 110, 120, 130, 170, 171, 172, 14}
    BY <1>1 DEF TombInv, TombTypes
  <2> QED BY <1>1, <2>1, <2>2 DEF TombInv, TombTypes, Unchosen, KeysDiffer, Tomb!KeyOf
<1>4. ListedBefore' /\ Tomb!RefusedIsWithoutPayload'
  BY <1>1 DEF ListedBefore, Tomb!RefusedIsWithoutPayload, TombInv, Unchosen
<1>5. SearchedBefore'
  <2> SUFFICES ASSUME pc' = "copy" 
        PROVE /\ Len(output') <= Tomb!Payload.size
              /\ \A i \in DOMAIN output' : output'[i] = Tomb!Payload.from + i - 1
    BY <1>1, SearchKept DEF SearchedBefore, Tomb!Payload, Asked
  <2>1. output' = Append(output, Tomb!Payload.from + Len(output))
    BY <1>1
  <2>2. \A i \in DOMAIN output : output[i] = Tomb!Payload.from + i - 1
    BY <1>1 DEF TombInv, SearchedBefore
  <2>3. DOMAIN output' = 1 .. Len(output) + 1 /\ DOMAIN output = 1 .. Len(output) /\ Len(output) \in Nat
        /\ Len(output') = Len(output) + 1
    BY <1>2, <2>1
  <2> QED BY <1>1, <1>2, <2>1, <2>2, <2>3
<1>6. Tomb!OwnPayload'
  <2>1. CASE pc' # "done" \/ status' # 0
    BY <2>1 DEF Tomb!OwnPayload
  <2>2. CASE pc' = "done" /\ status' = 0
    <3>1. partial' = TRUE /\ UNCHANGED <<image, offset, chosen, output>>
      BY <1>1, <2>2
    <3> QED BY <1>1, <3>1, OwnIs
  <2> QED BY <2>1, <2>2
<1> QED BY <1>3, <1>4, <1>5, <1>6 DEF TombInv

LEMMA CopiedKeeps == ASSUME Tomb!ImagesAssumption, TombInv, Tomb!Copied PROVE TombInv'
<1>1. /\ pc = "copy" /\ UNCHANGED <<image, offset, candidates, chosen, output, partial>>
      /\ Asked(offset) /\ Len(output) = Tomb!Payload.size /\ pc' = "done" /\ status' = 0
  BY DEF Tomb!Copied, Tomb!Returns, TombInv, SearchedBefore
<1>3. TombTypes' /\ Unchosen' /\ KeysDiffer'
  BY <1>1 DEF TombInv, TombTypes, Unchosen, KeysDiffer, Tomb!KeyOf
<1>4. ListedBefore' /\ Tomb!RefusedIsWithoutPayload' /\ SearchedBefore'
  BY <1>1 DEF ListedBefore, Tomb!RefusedIsWithoutPayload, SearchedBefore
<1>6. Tomb!OwnPayload'
  <2>1. Tomb!Payload.size \in Nat
    BY <1>1, SearchFacts DEF Asked, TombInv, TombTypes, Tomb!Payload
  <2>2. partial' = FALSE /\ ~(Len(output) < Tomb!Payload.size) /\ UNCHANGED <<image, offset, chosen, output>>
    BY <1>1, <2>1 DEF TombInv, Unchosen
  <2> QED BY <1>1, <2>2, OwnIs
<1> QED BY <1>3, <1>4, <1>6 DEF TombInv

LEMMA TombStep == ASSUME Tomb!ImagesAssumption, TombInv, Tomb!Next \/ UNCHANGED Tomb!vars PROVE TombInv'
<1>1. CASE UNCHANGED Tomb!vars
  <2>1. TombTypes' /\ Unchosen' /\ KeysDiffer'
    BY <1>1 DEF Tomb!vars, TombInv, TombTypes, Unchosen, KeysDiffer, Tomb!KeyOf
  <2>2. UNCHANGED <<image, pc, offset, candidates, chosen, output, partial, status>>
    BY <1>1 DEF Tomb!vars
  <2>3. SearchedBefore'
    BY <2>2, SearchKept DEF TombInv, SearchedBefore, Tomb!Payload
  <2>4. ListedBefore'
    BY <2>2 DEF TombInv, ListedBefore, Clear, Tomb!Format, Tomb!RecordLength, Tomb!Wanted, Tomb!Yields, Tomb!Listed, Tomb!KeyOf, Tomb!Maximum
  <2>5. Tomb!Unambiguous' <=> Tomb!Unambiguous
    BY <2>2, SearchKept, UnambiguousIs DEF Tomb!Unambiguous, Tomb!Apart
  <2>6. Tomb!OwnPayload' /\ Tomb!RefusedIsWithoutPayload'
    BY <2>2, <2>5, SearchKept DEF TombInv, Tomb!OwnPayload, Tomb!RefusedIsWithoutPayload
  <2> QED BY <2>1, <2>3, <2>4, <2>6 DEF TombInv
<1> QED
  BY <1>1, ListKeeps, ScanMarkKeeps, ScanOnKeeps, ScanEndsKeeps, RecoverKeeps, NothingKeeps,
     SearchOnKeeps, FoundKeeps, NotFoundKeeps, CopyKeeps, CopiedKeeps DEF Tomb!Next

-----------------------------------------------------------------------------
\* A stream and its parts.
IsPower(n, p) == p = [e \in 0 .. n |-> IF e = 0 THEN 1 ELSE 2 * p[e - 1]]

LEMMA PowerExists == \A n \in Nat : \E p : IsPower(n, p)
<1> DEFINE T == {n \in Nat : \E p : IsPower(n, p)}
<1>1. 0 \in T
  <2> DEFINE q == [e \in 0 .. 0 |-> 1]
  <2>1. IsPower(0, q)
    BY DEF IsPower
  <2> QED
    BY <2>1
<1>2. ASSUME NEW n \in T PROVE n + 1 \in T
  <2>1. PICK p : IsPower(n, p)
    OBVIOUS
  <2> DEFINE q == [e \in 0 .. n + 1 |-> IF e = 0 THEN 1 ELSE 2 * p[e - 1]]
  <2>2. \A e \in 0 .. n : q[e] = p[e]
    BY <2>1 DEF IsPower
  <2>3. \A e \in 0 .. n + 1 : e # 0 => e - 1 \in 0 .. n
    OBVIOUS
  <2>4. \A e \in 0 .. n + 1 : e # 0 => p[e - 1] = q[e - 1]
    BY <2>2, <2>3
  <2>5. \A e \in 0 .. n + 1 : q[e] = IF e = 0 THEN 1 ELSE 2 * q[e - 1]
    <3> TAKE e \in 0 .. n + 1
    <3>1. CASE e = 0
      BY <3>1
    <3>2. CASE e # 0
      <4>1. q[e] = 2 * p[e - 1]
        BY <3>2
      <4> QED
        BY <4>1, <3>2, <2>4
    <3> QED
      BY <3>1, <3>2
  <2>6. q = [e \in 0 .. n + 1 |-> q[e]]
    OBVIOUS
  <2> HIDE DEF q
  <2>7. IsPower(n + 1, q)
    BY <2>5, <2>6 DEF IsPower
  <2> QED
    BY <2>7
<1>3. T = Nat
  <2>1. T \subseteq Nat
    OBVIOUS
  <2> HIDE DEF T
  <2> QED
    BY <1>1, <1>2, <2>1, Inductive
<1> QED
  BY <1>3

LEMMA PowerPositive ==
  ASSUME NEW n \in Nat, NEW p, IsPower(n, p)
  PROVE  \A e \in 0 .. n : p[e] \in Nat \ {0}
<1> DEFINE T == {e \in 0 .. n : p[e] \notin Nat \ {0}}
<1> SUFFICES ASSUME T # {} PROVE FALSE
  OBVIOUS
<1>1. PICK x \in T : \A y \in T : x <= y
  <2>1. T \subseteq Nat
    OBVIOUS
  <2> HIDE DEF T
  <2> QED
    BY <2>1, Least
<1>2. p[x] = IF x = 0 THEN 1 ELSE 2 * p[x - 1]
  BY DEF IsPower
<1>3. CASE x = 0
  BY <1>2, <1>3
<1>4. CASE x # 0
  <2>1. x - 1 \in 0 .. n /\ ~(x <= x - 1)
    BY <1>4
  <2>2. p[x - 1] \in Nat \ {0}
    BY <1>1, <2>1
  <2>3. p[x] = 2 * p[x - 1]
    BY <1>2, <1>4
  <2> QED
    BY <2>2, <2>3
<1> QED
  BY <1>3, <1>4

LEMMA UnitPositive ==
  ASSUME NEW s, Ntfs!IsStream(s)
  PROVE  Ntfs!UnitOf(s) \in Nat \ {0}
<1>1. s.exponent \in Nat
  BY DEF Ntfs!IsStream
<1> DEFINE power == CHOOSE p : IsPower(s.exponent, p)
<1>2. IsPower(s.exponent, power)
  BY <1>1, PowerExists
<1>3. Ntfs!UnitOf(s) = power[s.exponent]
  BY DEF Ntfs!UnitOf, IsPower
<1> HIDE DEF power
<1> QED
 BY <1>1, <1>2, <1>3, PowerPositive

\* The named streams are taken from the record.
NamedStep(v, i, before) ==
  IF i = 0 THEN <<>>
  ELSE IF v.streams[i].name = <<>> THEN before
  ELSE Append(before, v.streams[i])

IsNamed(v, n, f) == f = [i \in 0 .. n |-> NamedStep(v, i, f[i - 1])]

LEMMA NamedExists == ASSUME NEW v PROVE \A n \in Nat : \E f : IsNamed(v, n, f)
<1> DEFINE T == {n \in Nat : \E f : IsNamed(v, n, f)}
<1>1. 0 \in T
  <2> DEFINE q == [e \in 0 .. 0 |-> <<>>]
  <2>1. IsNamed(v, 0, q)
    BY DEF IsNamed
  <2> QED
    BY <2>1
<1>2. ASSUME NEW n \in T PROVE n + 1 \in T
  <2>1. PICK p : IsNamed(v, n, p)
    OBVIOUS
  <2> DEFINE q == [i \in 0 .. n + 1 |-> NamedStep(v, i, p[i - 1])]
  <2>2. \A e \in 0 .. n : q[e] = p[e]
    BY <2>1 DEF IsNamed
  <2>3. \A e \in 0 .. n + 1 : e # 0 => e - 1 \in 0 .. n
    OBVIOUS
  <2>4. \A e \in 0 .. n + 1 : NamedStep(v, e, p[e - 1]) = NamedStep(v, e, q[e - 1])
    <3> TAKE e \in 0 .. n + 1
    <3>1. CASE e = 0
      BY <3>1 DEF NamedStep
    <3>2. CASE e # 0
      <4>1. p[e - 1] = q[e - 1]
        BY <2>2, <2>3, <3>2
      <4> HIDE DEF q
      <4> QED
        BY <4>1
    <3> QED
      BY <3>1, <3>2
  <2>5. q = [i \in 0 .. n + 1 |-> NamedStep(v, i, q[i - 1])]
    BY <2>4
  <2>6. IsNamed(v, n + 1, q)
    <3> HIDE DEF q
    <3> QED
      BY <2>5 DEF IsNamed
  <2> QED
    BY <2>6
<1>3. T = Nat
  <2>1. T \subseteq Nat
    OBVIOUS
  <2> HIDE DEF T
  <2> QED
    BY <1>1, <1>2, <2>1, Inductive
<1> QED
  BY <1>3

Streams(v) == {v.streams[i] : i \in DOMAIN v.streams}

LEMMA NamedAreStreams ==
  ASSUME NEW v, Ntfs!IsVolume(v)
  PROVE  Ntfs!NamedOf(v) \in Seq(Streams(v))
<1> DEFINE n == Len(v.streams)
<1>1. n \in Nat /\ DOMAIN v.streams = 1 .. n
  BY DEF Ntfs!IsVolume
<1> DEFINE f == CHOOSE f : IsNamed(v, n, f)
<1>2. IsNamed(v, n, f)
  <2> HIDE DEF n
  <2>1. \E g : IsNamed(v, n, g)
    BY <1>1, NamedExists
  <2> QED
    BY <2>1
<1>3. Ntfs!NamedOf(v) = f[n]
  BY DEF Ntfs!NamedOf, IsNamed, NamedStep
<1> DEFINE T == {i \in 0 .. n : f[i] \notin Seq(Streams(v))}
<1> HIDE DEF f, n
<1>4. T = {}
  <2> SUFFICES ASSUME T # {} PROVE FALSE
    OBVIOUS
  <2>1. PICK x \in T : \A y \in T : x <= y
    <3>1. T \subseteq Nat
      OBVIOUS
    <3> HIDE DEF T
    <3> QED
      BY <3>1, Least
  <2>2. f[x] = NamedStep(v, x, f[x - 1])
    <3>1. x \in 0 .. n
      BY <2>1
    <3>2. f = [i \in 0 .. n |-> NamedStep(v, i, f[i - 1])]
      BY <1>2 DEF IsNamed
    <3> HIDE DEF T
    <3> QED
      BY <3>1, <3>2
  <2>3. CASE x = 0
    <3>1. f[x] = <<>>
      BY <2>2, <2>3 DEF NamedStep
    <3>2. <<>> \in Seq(Streams(v))
      OBVIOUS
    <3>3. f[x] \in Seq(Streams(v))
      BY <3>1, <3>2
    <3> QED
      BY <3>3
  <2>4. CASE x # 0
    <3>1. x - 1 \in 0 .. n /\ ~(x <= x - 1) /\ x \in 1 .. n
      BY <2>4, <1>1
    <3>2. f[x - 1] \in Seq(Streams(v))
      BY <2>1, <3>1
    <3>3. v.streams[x] \in Streams(v)
      BY <1>1, <3>1 DEF Streams
    <3>4. f[x] = f[x - 1] \/ f[x] = Append(f[x - 1], v.streams[x])
      BY <2>2, <2>4 DEF NamedStep
    <3> HIDE DEF T
    <3>5. f[x] \in Seq(Streams(v))
      BY <3>2, <3>3, <3>4
    <3> QED
      BY <3>5 DEF T
  <2> QED
    BY <2>3, <2>4
<1> QED
  BY <1>1, <1>3, <1>4

LEMMA SelectedAreStreams ==
  ASSUME NEW v, Ntfs!IsVolume(v)
  PROVE  /\ Ntfs!SelectedOf(v) \in Seq(Streams(v))
         /\ \A i \in DOMAIN Ntfs!SelectedOf(v) : Ntfs!IsStream(Ntfs!SelectedOf(v)[i])
<1> DEFINE first == IF Ntfs!UnnamedOf(v) = {} THEN <<>>
                    ELSE <<v.streams[CHOOSE i \in Ntfs!UnnamedOf(v) : \A j \in Ntfs!UnnamedOf(v) : i <= j]>>
<1>1. first \in Seq(Streams(v))
  <2>1. CASE Ntfs!UnnamedOf(v) = {}
    BY <2>1
  <2>2. CASE Ntfs!UnnamedOf(v) # {}
    <3>1. Ntfs!UnnamedOf(v) \subseteq Nat
      BY DEF Ntfs!UnnamedOf, Ntfs!IsVolume
    <3>2. \E i \in Ntfs!UnnamedOf(v) : \A j \in Ntfs!UnnamedOf(v) : i <= j
      BY <2>2, <3>1, Least
    <3>3. (CHOOSE i \in Ntfs!UnnamedOf(v) : \A j \in Ntfs!UnnamedOf(v) : i <= j) \in Ntfs!UnnamedOf(v)
      BY <3>2
    <3>4. v.streams[CHOOSE i \in Ntfs!UnnamedOf(v) : \A j \in Ntfs!UnnamedOf(v) : i <= j] \in Streams(v)
      BY <3>3 DEF Ntfs!UnnamedOf, Streams
    <3> QED
      BY <2>2, <3>4
  <2> QED
    BY <2>1, <2>2
<1>2. Ntfs!NamedOf(v) \in Seq(Streams(v))
  BY NamedAreStreams
<1>3. Ntfs!SelectedOf(v) = first \o Ntfs!NamedOf(v)
  BY DEF Ntfs!SelectedOf
<1> HIDE DEF first
<1>4. Ntfs!SelectedOf(v) \in Seq(Streams(v))
  BY <1>1, <1>2, <1>3
<1>5. \A s \in Streams(v) : Ntfs!IsStream(s)
  BY DEF Streams, Ntfs!IsVolume
<1> QED
  BY <1>4, <1>5


-----------------------------------------------------------------------------
\* The state of a recovery.
NtfsTypes ==
  /\ volume \in NtfsVolumes
  /\ contents = [i \in DOMAIN Ntfs!Selected |-> Ntfs!ContentOf(Ntfs!Selected[i])]
  /\ pc \in {"open", "mft", "absent", "select", "create", "copy", "short", "end", "done"}
  /\ at \in Nat /\ at <= MaxRecords /\ at <= Len(volume.mft)
  /\ k \in 1 .. Len(Ntfs!Selected) + 1
  /\ vcn \in Nat
  /\ exported \subseteq DOMAIN Ntfs!Selected
  /\ partial \in BOOLEAN
  /\ \A p \in DOMAIN files : files[p] \in Seq(Int)
  /\ pc \in {"copy", "short", "end"} => k \in DOMAIN Ntfs!Selected /\ Ntfs!Path(k) \in DOMAIN files

NtfsBefore ==
  /\ pc # "done" => status = 0
  /\ pc \in {"open", "mft", "absent", "select"} =>
       k = 1 /\ exported = {} /\ flags = {} /\ files = [p \in {} |-> <<>>] /\ partial = FALSE
  /\ pc = "open" => at = 0 /\ empties = 0
  /\ pc = "create" => Ntfs!Selected # <<>>
  /\ pc = "done" /\ status = 0 => k = Len(Ntfs!Selected) + 1

NtfsSearched ==
  /\ pc \in {"mft", "absent"} => \A i \in 1 .. at : volume.mft[i] # volume.asked
  /\ empties \in 0 .. at /\ \A n \in at - empties + 1 .. at : volume.mft[n] = Ntfs!Empty
  /\ pc = "absent" => empties >= MaxEmpty
  /\ pc = "done" /\ status = 41 => Ntfs!NotFoundIsAbsent

NtfsSkipped ==
  /\ exported \subseteq 1 .. k - 1
  /\ pc # "done" \/ status = 0 => (("skipped" \in flags) <=> (exported # 1 .. k - 1))

Whole(i) == Ntfs!Path(i) \in DOMAIN files /\ files[Ntfs!Path(i)] = contents[i]

\* Each cell of s is that of t.
Fits(s, t) == Len(s) <= Len(t) /\ \A j \in 1 .. Len(s) : s[j] = t[j]

NtfsPlaced ==
  Ntfs!PathsDiffer =>
    /\ \A i \in DOMAIN Ntfs!Selected : Ntfs!Path(i) \in DOMAIN files => Fits(files[Ntfs!Path(i)], contents[i])
    /\ ~partial => \A i \in 1 .. k - 1 : Whole(i)

NtfsStands ==
  pc = "copy" =>
    /\ ~Ntfs!InUnits(Ntfs!Stream) => vcn = Len(Ntfs!Output)
    /\ Ntfs!Stream.form = "resident" => vcn = 0
    /\ Ntfs!InUnits(Ntfs!Stream) /\ Len(Ntfs!Output) < Ntfs!Stream.size /\ vcn < Len(Ntfs!Stream.cells) =>
         vcn = Len(Ntfs!Output) /\ vcn % Ntfs!UnitOf(Ntfs!Stream) = 0

NtfsInv ==
  NtfsTypes /\ NtfsBefore /\ NtfsSearched /\ NtfsSkipped /\ NtfsPlaced /\ NtfsStands

LEMMA VolumeFacts ==
  ASSUME Ntfs!StreamsAssumption, volume \in NtfsVolumes
  PROVE  /\ Ntfs!Selected \in Seq(Streams(volume))
         /\ Len(Ntfs!Selected) \in Nat /\ DOMAIN Ntfs!Selected = 1 .. Len(Ntfs!Selected)
         /\ \A i \in DOMAIN Ntfs!Selected : Ntfs!IsStream(Ntfs!Selected[i])
         /\ volume.mft \in Seq(Int) /\ volume.asked \in Nat
<1>1. Ntfs!IsVolume(volume)
  BY DEF Ntfs!StreamsAssumption
<1>2. Ntfs!Selected \in Seq(Streams(volume)) /\ \A i \in DOMAIN Ntfs!Selected : Ntfs!IsStream(Ntfs!Selected[i])
  BY <1>1, SelectedAreStreams DEF Ntfs!Selected
<1> QED
  BY <1>1, <1>2 DEF Ntfs!IsVolume

LEMMA ContentLength ==
  ASSUME Ntfs!StreamsAssumption, volume \in NtfsVolumes, NEW i \in DOMAIN Ntfs!Selected,
         contents = [j \in DOMAIN Ntfs!Selected |-> Ntfs!ContentOf(Ntfs!Selected[j])]
  PROVE  /\ contents[i] = Ntfs!ContentOf(Ntfs!Selected[i])
         /\ DOMAIN contents[i] = 1 .. Ntfs!Selected[i].size
         /\ Len(contents[i]) = Ntfs!Selected[i].size /\ Ntfs!Selected[i].size \in Nat
<1>1. Ntfs!Selected[i].size \in Nat
  BY VolumeFacts DEF Ntfs!IsStream
<1>2. contents[i] = Ntfs!ContentOf(Ntfs!Selected[i])
  OBVIOUS
<1>3. DOMAIN Ntfs!ContentOf(Ntfs!Selected[i]) = 1 .. Ntfs!Selected[i].size
  BY DEF Ntfs!ContentOf
<1> QED
  BY <1>1, <1>2, <1>3

LEMMA VolumeKept ==
  ASSUME volume' = volume
  PROVE  /\ Ntfs!Selected' = Ntfs!Selected /\ (Ntfs!PathsDiffer' <=> Ntfs!PathsDiffer)
         /\ \A i : Ntfs!Path(i)' = Ntfs!Path(i)
<1>1. Ntfs!Selected' = Ntfs!Selected
  BY DEF Ntfs!Selected, Ntfs!SelectedOf, Ntfs!UnnamedOf, Ntfs!NamedOf
<1>2. \A i : Ntfs!Path(i)' = Ntfs!Path(i)
  BY <1>1 DEF Ntfs!Path
<1> QED
  BY <1>1, <1>2 DEF Ntfs!PathsDiffer

LEMMA NtfsStarts ==
  ASSUME Ntfs!StreamsAssumption, Ntfs!Init
  PROVE  NtfsInv
<1>1. volume \in NtfsVolumes
  BY DEF Ntfs!Init
<1>2. NtfsTypes
  <2>1. contents = [i \in DOMAIN Ntfs!Selected |-> Ntfs!ContentOf(Ntfs!Selected[i])]
    BY DEF Ntfs!Init, Ntfs!Selected
  <2>2. Len(Ntfs!Selected) \in Nat /\ volume.mft \in Seq(Int)
    BY <1>1, VolumeFacts
  <2>3. MaxRecords \in Nat
    BY DEF Ntfs!StreamsAssumption
  <2>4. \A p \in DOMAIN files : files[p] \in Seq(Int)
    BY DEF Ntfs!Init
  <2>5. at = 0 /\ 0 <= MaxRecords /\ 0 <= Len(volume.mft)
    BY <2>2, <2>3 DEF Ntfs!Init
  <2>6. k \in 1 .. Len(Ntfs!Selected) + 1
    BY <2>2 DEF Ntfs!Init
  <2>7. /\ pc = "open" /\ vcn \in Nat /\ exported \subseteq DOMAIN Ntfs!Selected
        /\ partial \in BOOLEAN
    BY DEF Ntfs!Init
  <2> QED
    BY <1>1, <2>1, <2>4, <2>5, <2>6, <2>7 DEF NtfsTypes
<1>3. NtfsBefore /\ NtfsSearched
  BY DEF Ntfs!Init, NtfsBefore, NtfsSearched
<1>4. NtfsSkipped
  BY DEF Ntfs!Init, NtfsSkipped
<1>5. NtfsPlaced /\ NtfsStands
  BY DEF Ntfs!Init, NtfsPlaced, NtfsStands
<1> QED
  BY <1>2, <1>3, <1>4, <1>5 DEF NtfsInv

\* Steps that leave the streams alone.
LEMMA QuietKeeps ==
  ASSUME Ntfs!StreamsAssumption, NtfsInv,
         UNCHANGED <<volume, contents, k, files, exported>>, pc' # "copy",
         partial \/ partial' \in BOOLEAN, partial => partial'
  PROVE  NtfsPlaced' /\ NtfsStands'
<1>1. ~partial' => ~partial
  OBVIOUS
<1>2. \A i : Whole(i)' <=> Whole(i)
  BY VolumeKept DEF Whole
<1> QED
  BY <1>1, <1>2, VolumeKept DEF NtfsInv, NtfsPlaced, NtfsStands, Fits

LEMMA ReturnsKeeps ==
  ASSUME Ntfs!StreamsAssumption, NtfsInv, NEW STATE s, Ntfs!Returns(s), pc # "done",
         partial' \in BOOLEAN, partial => partial',
         s = 0 => k = Len(Ntfs!Selected) + 1 /\ (("skipped" \in flags') <=> ("skipped" \in flags)),
         s = 41 => Ntfs!NotFoundIsAbsent'
  PROVE  NtfsInv'
<1>1. /\ UNCHANGED <<volume, contents, at, empties, k, vcn, files, exported>>
      /\ pc' = "done" /\ status' = s
  BY DEF Ntfs!Returns
<1>2. NtfsTypes'
  BY <1>1, VolumeKept DEF NtfsInv, NtfsTypes
<1>3. NtfsBefore'
  BY <1>1, VolumeKept DEF NtfsInv, NtfsBefore
<1>4. NtfsSearched'
  BY <1>1, VolumeKept DEF NtfsInv, NtfsSearched
<1>5. NtfsSkipped'
  BY <1>1, VolumeKept DEF NtfsInv, NtfsSkipped
<1>6. NtfsPlaced' /\ NtfsStands'
  BY <1>1, QuietKeeps
<1> QED
  BY <1>2, <1>3, <1>4, <1>5, <1>6 DEF NtfsInv

LEMMA ErrorKeeps ==
  ASSUME Ntfs!StreamsAssumption, NtfsInv, NEW STATE s, s \notin {0, 41}, Ntfs!Error(s), pc # "done"
  PROVE  NtfsInv'
<1>1. Ntfs!Returns(s) /\ partial' = partial
  BY DEF Ntfs!Error
<1>2. partial' \in BOOLEAN /\ (partial => partial')
  BY <1>1 DEF NtfsInv, NtfsTypes
<1> QED
  BY <1>1, <1>2, ReturnsKeeps

LEMMA OpenKeeps ==
  ASSUME Ntfs!StreamsAssumption, NtfsInv, Ntfs!Open
  PROVE  NtfsInv'
<1>1. CASE \E a \in DOMAIN Ntfs!AccessStatus : Ntfs!Error(Ntfs!AccessStatus[a])
  <2>1. PICK a \in DOMAIN Ntfs!AccessStatus : Ntfs!Error(Ntfs!AccessStatus[a])
    BY <1>1
  <2>2. Ntfs!AccessStatus[a] \notin {0, 41}
    BY DEF Ntfs!AccessStatus
  <2> QED
    BY <2>1, <2>2, ErrorKeeps DEF Ntfs!Open
<1>2. CASE /\ pc = "open" /\ pc' = "mft"
           /\ UNCHANGED <<volume, contents, at, empties, k, vcn, files, partial, exported, flags, status>>
  <2>1. NtfsTypes' /\ NtfsBefore' /\ NtfsSearched' /\ NtfsSkipped'
    BY <1>2, VolumeKept DEF NtfsInv, NtfsTypes, NtfsBefore, NtfsSearched, NtfsSkipped
  <2>2. NtfsPlaced' /\ NtfsStands'
    BY <1>2, QuietKeeps DEF NtfsInv, NtfsTypes
  <2> QED
    BY <2>1, <2>2 DEF NtfsInv
<1> QED
  BY <1>1, <1>2 DEF Ntfs!Open

LEMMA SearchRecordKeeps ==
  ASSUME Ntfs!StreamsAssumption, NtfsInv, Ntfs!SearchRecord
  PROVE  NtfsInv'
<1> DEFINE n == volume.mft[at + 1]
<1>1. /\ pc = "mft" /\ at < MaxRecords /\ at < Len(volume.mft)
      /\ at' = at + 1 /\ empties' = Ntfs!EmptiesAfter(n)
      /\ UNCHANGED <<volume, contents, k, vcn, files, partial, exported, flags, status>>
      /\ \/ pc' = "absent" /\ n = Ntfs!Empty /\ Ntfs!EmptiesAfter(n) >= MaxEmpty
         \/ pc' = "select"
         \/ pc' = "mft" /\ n # volume.asked
  BY DEF Ntfs!SearchRecord
<1>2. /\ volume \in NtfsVolumes /\ at \in Nat /\ volume.mft \in Seq(Int) /\ MaxRecords \in Nat
      /\ volume.asked \in Nat /\ Len(volume.mft) \in Nat
  BY VolumeFacts DEF NtfsInv, NtfsTypes, Ntfs!StreamsAssumption
<1>3. NtfsTypes'
  BY <1>1, <1>2, VolumeKept DEF NtfsInv, NtfsTypes
<1>4. NtfsBefore'
  BY <1>1 DEF NtfsInv, NtfsBefore
<1>5. NtfsSkipped'
  BY <1>1 DEF NtfsInv, NtfsSkipped, NtfsBefore
<1>6. NtfsPlaced' /\ NtfsStands'
  BY <1>1, QuietKeeps DEF NtfsInv, NtfsTypes
<1>7. NtfsSearched'
  <2>1. empties \in 0 .. at /\ \A m \in at - empties + 1 .. at : volume.mft[m] = Ntfs!Empty
    BY DEF NtfsInv, NtfsSearched
  <2>2. empties' \in 0 .. at' /\ \A m \in at' - empties' + 1 .. at' : volume'.mft[m] = Ntfs!Empty
    <3>1. CASE n = Ntfs!Empty
      <4>1. empties' = empties + 1
        BY <1>1, <3>1 DEF Ntfs!EmptiesAfter
      <4>2. ASSUME NEW m \in at' - empties' + 1 .. at' PROVE volume.mft[m] = Ntfs!Empty
        <5>1. m \in at - empties + 1 .. at \/ m = at + 1
          BY <1>1, <1>2, <2>1, <4>1
        <5> QED
          BY <2>1, <3>1, <5>1
      <4> QED
        BY <1>1, <1>2, <2>1, <4>1, <4>2
    <3>2. CASE n # Ntfs!Empty
      <4>1. empties' = 0
        BY <1>1, <3>2 DEF Ntfs!EmptiesAfter
      <4> QED
        BY <1>1, <1>2, <4>1
    <3> QED
      BY <3>1, <3>2
  <2>3. pc' \in {"mft", "absent"} => \A i \in 1 .. at' : volume'.mft[i] # volume'.asked
    <3> SUFFICES ASSUME pc' \in {"mft", "absent"}, NEW i \in 1 .. at + 1
                 PROVE  volume.mft[i] # volume.asked
      BY <1>1
    <3>1. CASE i = at + 1
      BY <1>1, <1>2, <3>1 DEF Ntfs!Empty
    <3>2. CASE i # at + 1
      <4>1. i \in 1 .. at
        BY <1>2, <3>2
      <4> QED
        BY <4>1, <1>1 DEF NtfsInv, NtfsSearched
    <3> QED
      BY <3>1, <3>2
  <2>4. pc' = "absent" => empties' >= MaxEmpty
    BY <1>1
  <2> QED
    BY <1>1, <2>2, <2>3, <2>4 DEF NtfsSearched
<1> QED
  BY <1>3, <1>4, <1>5, <1>6, <1>7 DEF NtfsInv

LEMMA SearchEndsKeeps ==
  ASSUME Ntfs!StreamsAssumption, NtfsInv, Ntfs!SearchEnds
  PROVE  NtfsInv'
<1>1. /\ pc \in {"mft", "absent"} /\ Ntfs!Returns(41) /\ partial' = partial
      /\ pc = "mft" => at = MaxRecords \/ at = Len(volume.mft)
  BY DEF Ntfs!SearchEnds, Ntfs!Error
<1>2. Ntfs!NotFoundIsAbsent'
  <2>1. volume' = volume
    BY <1>1 DEF Ntfs!Returns
  <2>2. /\ at \in Nat /\ DOMAIN volume.mft = 1 .. Len(volume.mft) /\ Len(volume.mft) \in Nat
        /\ MaxRecords \in Nat /\ MaxEmpty \in Nat \ {0} /\ empties \in 0 .. at
    BY VolumeFacts DEF NtfsInv, NtfsTypes, Ntfs!StreamsAssumption, NtfsSearched
  <2> SUFFICES ASSUME NEW i \in DOMAIN volume.mft, volume.mft[i] = volume.asked, ~(i > MaxRecords)
               PROVE  \E j \in 1 .. i : /\ j + MaxEmpty <= i
                                        /\ \A n \in j .. j + MaxEmpty - 1 : volume.mft[n] = Ntfs!Empty
    BY <2>1 DEF Ntfs!NotFoundIsAbsent
  <2>3. i > at
    BY <1>1, <2>2 DEF NtfsInv, NtfsSearched
  <2>4. pc = "absent" /\ empties >= MaxEmpty
    BY <1>1, <2>2, <2>3 DEF NtfsInv, NtfsSearched
  <2> DEFINE j == at - MaxEmpty + 1
  <2>5. j \in 1 .. i /\ j + MaxEmpty <= i
    BY <2>2, <2>3, <2>4
  <2>6. \A n \in j .. j + MaxEmpty - 1 : n \in at - empties + 1 .. at
    BY <2>2, <2>4
  <2>7. \A n \in j .. j + MaxEmpty - 1 : volume.mft[n] = Ntfs!Empty
    BY <2>6 DEF NtfsInv, NtfsSearched
  <2> HIDE DEF j
  <2> QED
    BY <2>5, <2>7
<1>3. partial' \in BOOLEAN /\ (partial => partial') /\ pc # "done"
  BY <1>1 DEF NtfsInv, NtfsTypes
<1> DEFINE s == 41
<1>4. s = 0 => k = Len(Ntfs!Selected) + 1 /\ (("skipped" \in flags') <=> ("skipped" \in flags))
  OBVIOUS
<1>5. Ntfs!Returns(s) /\ (s = 41 => Ntfs!NotFoundIsAbsent')
  BY <1>1, <1>2
<1> HIDE DEF s
<1> QED
  BY <1>3, <1>4, <1>5, ReturnsKeeps

LEMMA SearchErrorKeeps ==
  ASSUME Ntfs!StreamsAssumption, NtfsInv, Ntfs!SearchError
  PROVE  NtfsInv'
BY ErrorKeeps DEF Ntfs!SearchError

LEMMA SelectKeeps ==
  ASSUME Ntfs!StreamsAssumption, NtfsInv, Ntfs!SelectStreams
  PROVE  NtfsInv'
<1>1. pc = "select"
  BY DEF Ntfs!SelectStreams
<1>2. CASE Ntfs!Error(44)
  BY <1>1, <1>2, ErrorKeeps
<1>3. CASE Ntfs!Selected = <<>> /\ Ntfs!Returns(42) /\ UNCHANGED partial
  <2>1. partial' \in BOOLEAN /\ (partial => partial')
    BY <1>3 DEF NtfsInv, NtfsTypes
  <2> DEFINE s == 42
  <2>2. (s = 0 => k = Len(Ntfs!Selected) + 1 /\ (("skipped" \in flags') <=> ("skipped" \in flags)))
        /\ (s = 41 => Ntfs!NotFoundIsAbsent') /\ Ntfs!Returns(s)
    BY <1>3
  <2> HIDE DEF s
  <2> QED
    BY <1>1, <2>1, <2>2, ReturnsKeeps
<1>4. CASE /\ Ntfs!Selected # <<>> /\ pc' = "create" /\ partial' \in BOOLEAN /\ "skipped" \notin flags'
           /\ UNCHANGED <<volume, contents, at, empties, k, vcn, files, exported, status>>
  <2>1. NtfsTypes'
    BY <1>1, <1>4, VolumeKept DEF NtfsInv, NtfsTypes
  <2>2. NtfsBefore' /\ NtfsSearched' /\ NtfsSkipped'
    BY <1>1, <1>4, VolumeKept DEF NtfsInv, NtfsBefore, NtfsSearched, NtfsSkipped
  <2>3. NtfsPlaced' /\ NtfsStands'
    BY <1>1, <1>4, QuietKeeps DEF NtfsInv, NtfsBefore
  <2> QED
    BY <2>1, <2>2, <2>3 DEF NtfsInv
<1>5. CASE ~(volume.access = "parent") /\ Ntfs!Selected # <<>>
  <2>1. /\ pc' = "create" /\ partial' \in BOOLEAN
        /\ UNCHANGED <<volume, contents, at, empties, k, vcn, files, exported, status>>
    BY <1>5 DEF Ntfs!SelectStreams
  <2>2. "skipped" \notin flags'
    BY <1>5 DEF Ntfs!SelectStreams
  <2> QED
    BY <1>4, <1>5, <2>1, <2>2
<1> QED
  BY <1>2, <1>3, <1>5 DEF Ntfs!SelectStreams

\* A stream is left without being exported.
LEMMA SkipKeeps ==
  ASSUME Ntfs!StreamsAssumption, NtfsInv, k \in DOMAIN Ntfs!Selected,
         pc \in {"create", "copy", "short", "end"}, NEW STATE kept,
         kept \in {files, Ntfs!WithoutFile}, Ntfs!SkipStream(kept)
  PROVE  NtfsInv'
<1>1. /\ pc' = "create" /\ k' = k + 1 /\ files' = kept /\ partial' = TRUE
      /\ flags' = flags \cup {"skipped"}
      /\ UNCHANGED <<volume, contents, at, empties, vcn, exported, status>>
  BY DEF Ntfs!SkipStream
<1>2. k \in 1 .. Len(Ntfs!Selected) /\ Len(Ntfs!Selected) \in Nat
  BY VolumeFacts DEF NtfsInv, NtfsTypes
<1>3. \A p \in DOMAIN files' : p \in DOMAIN files /\ files'[p] = files[p]
  <2>1. CASE kept = files
    BY <1>1, <2>1
  <2>2. CASE kept = Ntfs!WithoutFile
    BY <1>1, <2>2 DEF Ntfs!WithoutFile
  <2> QED
    BY <2>1, <2>2
<1>4. NtfsTypes'
  BY <1>1, <1>2, <1>3, VolumeKept DEF NtfsInv, NtfsTypes
<1>5. NtfsBefore' /\ NtfsSearched'
  BY <1>1, <1>2, VolumeKept DEF NtfsInv, NtfsBefore, NtfsSearched
<1>6. NtfsSkipped'
  <2>1. exported \subseteq 1 .. k - 1
    BY DEF NtfsInv, NtfsSkipped
  <2>2. k \in 1 .. k' - 1 /\ k \notin exported /\ exported \subseteq 1 .. k' - 1
    BY <1>1, <1>2, <2>1
  <2> QED
    BY <1>1, <2>2 DEF NtfsSkipped
<1>7. NtfsPlaced' /\ NtfsStands'
  BY <1>1, <1>3, VolumeKept DEF NtfsInv, NtfsPlaced, NtfsStands, Fits
<1> QED
  BY <1>4, <1>5, <1>6, <1>7 DEF NtfsInv

LEMMA FailsKeeps ==
  ASSUME Ntfs!StreamsAssumption, NtfsInv, k \in DOMAIN Ntfs!Selected,
         pc \in {"create", "copy", "short", "end"}, NEW STATE s, s \notin {0, 41}, Ntfs!Fails(s)
  PROVE  NtfsInv'
<1>1. CASE Ntfs!Error(s)
  BY <1>1, ErrorKeeps
<1>2. CASE \E kept \in {files, Ntfs!WithoutFile} : Ntfs!SkipStream(kept)
  BY <1>2, SkipKeeps
<1> QED
  BY <1>1, <1>2 DEF Ntfs!Fails

LEMMA CreateKeeps ==
  ASSUME Ntfs!StreamsAssumption, NtfsInv, Ntfs!CreateFile
  PROVE  NtfsInv'
<1>1. /\ pc = "create" /\ k \in DOMAIN Ntfs!Selected /\ Len(Ntfs!Selected) \in Nat
      /\ k \in 1 .. Len(Ntfs!Selected)
  BY VolumeFacts DEF Ntfs!CreateFile, NtfsInv, NtfsTypes
<1>2. CASE Ntfs!Error(44)
  BY <1>1, <1>2, ErrorKeeps
<1>3. CASE Ntfs!SkipStream(files)
  BY <1>1, <1>3, SkipKeeps
<1>4. CASE /\ files' = [p \in DOMAIN files \cup {Ntfs!Path(k)} |->
                          IF p = Ntfs!Path(k) THEN <<>> ELSE files[p]]
           /\ pc' = "copy" /\ vcn' = 0
           /\ ("skipped" \in flags') <=> ("skipped" \in flags)
           /\ UNCHANGED <<volume, contents, at, empties, k, partial, exported, status>>
  <2>1. /\ DOMAIN files' = DOMAIN files \cup {Ntfs!Path(k)} /\ files'[Ntfs!Path(k)] = <<>>
        /\ \A p \in DOMAIN files : p # Ntfs!Path(k) => files'[p] = files[p]
    BY <1>4
  <2>2. NtfsTypes'
    BY <1>1, <1>4, <2>1, VolumeKept DEF NtfsInv, NtfsTypes
  <2>3. NtfsBefore' /\ NtfsSearched' /\ NtfsSkipped'
    BY <1>1, <1>4, VolumeKept DEF NtfsInv, NtfsBefore, NtfsSearched, NtfsSkipped
  <2>4. NtfsPlaced'
    <3>0. UNCHANGED <<volume, contents, k, partial>>
      BY <1>4
    <3> SUFFICES ASSUME Ntfs!PathsDiffer
                 PROVE  /\ \A i \in DOMAIN Ntfs!Selected :
                             Ntfs!Path(i) \in DOMAIN files' => Fits(files'[Ntfs!Path(i)], contents[i])
                        /\ ~partial => \A i \in 1 .. k - 1 :
                             Ntfs!Path(i) \in DOMAIN files' /\ files'[Ntfs!Path(i)] = contents[i]
      BY <3>0, VolumeKept DEF NtfsPlaced, Whole, Fits
    <3>1. ASSUME NEW i \in DOMAIN Ntfs!Selected, Ntfs!Path(i) \in DOMAIN files'
          PROVE  Fits(files'[Ntfs!Path(i)], contents[i])
      <4>1. CASE i = k
        <5>1. Len(contents[i]) \in Nat
          BY ContentLength DEF NtfsInv, NtfsTypes
        <5> QED
          BY <2>1, <4>1, <5>1 DEF Fits
      <4>2. CASE i # k
        BY <1>1, <2>1, <3>1, <4>2 DEF NtfsInv, NtfsPlaced, Ntfs!PathsDiffer
      <4> QED
        BY <4>1, <4>2
    <3>2. ASSUME ~partial, NEW i \in 1 .. k - 1
          PROVE  Ntfs!Path(i) \in DOMAIN files' /\ files'[Ntfs!Path(i)] = contents[i]
      <4>1. i \in DOMAIN Ntfs!Selected /\ i # k
        BY <1>1, VolumeFacts DEF NtfsInv, NtfsTypes
      <4>2. Ntfs!Path(i) # Ntfs!Path(k)
        BY <1>1, <4>1 DEF Ntfs!PathsDiffer
      <4> QED
        BY <2>1, <3>2, <4>2 DEF NtfsInv, NtfsPlaced, Whole
    <3> QED
      BY <3>1, <3>2
  <2>5. NtfsStands'
    <3>1. Ntfs!Stream' = Ntfs!Stream /\ Ntfs!Output' = <<>>
      BY <1>4, <2>1, VolumeKept DEF Ntfs!Stream, Ntfs!Output
    <3>2. Ntfs!UnitOf(Ntfs!Stream) \in Nat \ {0}
      BY <1>1, UnitPositive, VolumeFacts DEF Ntfs!Stream, NtfsInv, NtfsTypes
    <3>3. 0 % Ntfs!UnitOf(Ntfs!Stream) = 0
      BY <3>2
    <3> QED
      BY <1>4, <3>1, <3>3 DEF NtfsStands, Ntfs!UnitOf, Ntfs!InUnits
  <2> QED
    BY <2>2, <2>3, <2>4, <2>5 DEF NtfsInv
<1>5. CASE /\ files' = [p \in DOMAIN files \cup {Ntfs!Path(k)} |->
                         IF p = Ntfs!Path(k) THEN <<>> ELSE files[p]]
          /\ pc' = "copy"
          /\ vcn' = 0
          /\ flags' = flags \cup (IF Ntfs!Stream.encrypted THEN {"unsupportedencrypted"} ELSE {})
          /\ UNCHANGED <<volume, contents, at, empties, k, partial, exported, status>>
  BY <1>4, <1>5
<1> QED
  BY <1>2, <1>3, <1>5 DEF Ntfs!CreateFile

\* Cells that belong where the stream stands are written.
LEMMA WriteKeeps ==
  ASSUME Ntfs!StreamsAssumption, NtfsInv, pc = "copy",
         NEW STATE cells, cells \in Seq(Int), NEW STATE n, n \in Nat,
         Len(Ntfs!Output) + Len(cells) <= Ntfs!Stream.size,
         \A j \in 1 .. Len(cells) : cells[j] = Ntfs!ContentOf(Ntfs!Stream)[Len(Ntfs!Output) + j],
         Ntfs!Writes(cells, n), pc' \in {"copy", "short", "end"},
         ("skipped" \in flags') <=> ("skipped" \in flags),
         NtfsStands'
  PROVE  NtfsInv'
<1>1. /\ files' = [files EXCEPT ![Ntfs!Path(k)] = @ \o cells] /\ vcn' = vcn + n
      /\ UNCHANGED <<volume, contents, at, empties, k, partial, exported, status>>
  BY DEF Ntfs!Writes
<1>2. /\ k \in DOMAIN Ntfs!Selected /\ k \in 1 .. Len(Ntfs!Selected) /\ Ntfs!Path(k) \in DOMAIN files
      /\ Ntfs!Output \in Seq(Int) /\ Len(Ntfs!Selected) \in Nat
  BY VolumeFacts DEF NtfsInv, NtfsTypes, Ntfs!Output
<1>3. /\ DOMAIN files' = DOMAIN files /\ files'[Ntfs!Path(k)] = Ntfs!Output \o cells
      /\ \A p \in DOMAIN files : p # Ntfs!Path(k) => files'[p] = files[p]
  BY <1>1, <1>2 DEF Ntfs!Output
<1>4. NtfsTypes'
  BY <1>1, <1>2, <1>3, VolumeKept DEF NtfsInv, NtfsTypes
<1>5. NtfsBefore' /\ NtfsSearched' /\ NtfsSkipped'
  BY <1>1, VolumeKept DEF NtfsInv, NtfsBefore, NtfsSearched, NtfsSkipped
<1>6. NtfsPlaced'
  <2> SUFFICES ASSUME Ntfs!PathsDiffer
               PROVE  /\ \A i \in DOMAIN Ntfs!Selected :
                           Ntfs!Path(i) \in DOMAIN files' => Fits(files'[Ntfs!Path(i)], contents[i])
                      /\ ~partial => \A i \in 1 .. k - 1 :
                           Ntfs!Path(i) \in DOMAIN files' /\ files'[Ntfs!Path(i)] = contents[i]
    BY <1>1, VolumeKept DEF NtfsPlaced, Whole, Fits
  <2>1. Fits(files'[Ntfs!Path(k)], contents[k])
    <3>1. contents[k] = Ntfs!ContentOf(Ntfs!Stream) /\ Len(contents[k]) = Ntfs!Stream.size
      BY <1>2, ContentLength DEF NtfsInv, NtfsTypes, Ntfs!Stream
    <3>2. Fits(Ntfs!Output, contents[k])
      BY <1>2 DEF NtfsInv, NtfsPlaced, Ntfs!Output
    <3>3. /\ Len(Ntfs!Output \o cells) = Len(Ntfs!Output) + Len(cells)
          /\ \A j \in 1 .. Len(Ntfs!Output) : (Ntfs!Output \o cells)[j] = Ntfs!Output[j]
          /\ \A j \in 1 .. Len(cells) : (Ntfs!Output \o cells)[Len(Ntfs!Output) + j] = cells[j]
      BY <1>2
    <3>4. ASSUME NEW j \in 1 .. Len(Ntfs!Output) + Len(cells)
          PROVE  (Ntfs!Output \o cells)[j] = contents[k][j]
      <4>1. CASE j \in 1 .. Len(Ntfs!Output)
        BY <3>2, <3>3, <4>1 DEF Fits
      <4>2. CASE j \notin 1 .. Len(Ntfs!Output)
        <5>1. j - Len(Ntfs!Output) \in 1 .. Len(cells) /\ Len(Ntfs!Output) + (j - Len(Ntfs!Output)) = j
          BY <1>2, <4>2
        <5> QED
          BY <3>1, <3>3, <5>1
      <4> QED
        BY <4>1, <4>2
    <3> QED
      BY <1>3, <3>1, <3>3, <3>4 DEF Fits
  <2>2. ASSUME NEW i \in DOMAIN Ntfs!Selected, Ntfs!Path(i) \in DOMAIN files', i # k
        PROVE  Fits(files'[Ntfs!Path(i)], contents[i])
    BY <1>2, <1>3, <2>2 DEF NtfsInv, NtfsPlaced, Ntfs!PathsDiffer
  <2>3. ASSUME ~partial, NEW i \in 1 .. k - 1
        PROVE  Ntfs!Path(i) \in DOMAIN files' /\ files'[Ntfs!Path(i)] = contents[i]
    <3>1. i \in DOMAIN Ntfs!Selected /\ i # k
      BY <1>2, VolumeFacts DEF NtfsInv, NtfsTypes
    <3>2. Ntfs!Path(i) # Ntfs!Path(k)
      BY <1>2, <3>1 DEF Ntfs!PathsDiffer
    <3> QED
      BY <1>3, <2>3, <3>2 DEF NtfsInv, NtfsPlaced, Whole
  <2> QED
    BY <2>1, <2>2, <2>3
<1> QED
  BY <1>4, <1>5, <1>6 DEF NtfsInv

\* A stream is exported: whole, or marked.
LEMMA EndKeeps ==
  ASSUME Ntfs!StreamsAssumption, NtfsInv, pc \in {"copy", "short", "end"},
         NEW STATE part, part \in BOOLEAN, Ntfs!EndStream(part),
         ("skipped" \in flags') <=> ("skipped" \in flags),
         part \/ Ntfs!Remaining <= 0
  PROVE  NtfsInv'
<1>1. /\ pc' = "create" /\ k' = k + 1 /\ exported' = exported \cup {k}
      /\ partial' = (partial \/ part \/ Ntfs!Stream.encrypted)
      /\ UNCHANGED <<volume, contents, at, empties, vcn, files, status>>
  BY DEF Ntfs!EndStream
<1>2. /\ k \in DOMAIN Ntfs!Selected /\ k \in 1 .. Len(Ntfs!Selected) /\ Len(Ntfs!Selected) \in Nat
      /\ Ntfs!Path(k) \in DOMAIN files /\ Ntfs!Output \in Seq(Int) /\ Ntfs!IsStream(Ntfs!Stream)
  BY VolumeFacts DEF NtfsInv, NtfsTypes, Ntfs!Output, Ntfs!Stream
<1>3. NtfsTypes'
  <2>1. partial' \in BOOLEAN
    BY <1>1, <1>2 DEF NtfsInv, NtfsTypes, Ntfs!IsStream
  <2>2. exported' \subseteq DOMAIN Ntfs!Selected /\ k' \in 1 .. Len(Ntfs!Selected) + 1
    BY <1>1, <1>2 DEF NtfsInv, NtfsTypes
  <2> QED
    BY <1>1, <2>1, <2>2, VolumeKept DEF NtfsInv, NtfsTypes
<1>4. NtfsBefore' /\ NtfsSearched'
  BY <1>1, <1>2, VolumeKept DEF NtfsInv, NtfsBefore, NtfsSearched
<1>5. NtfsSkipped'
  <2>1. exported \subseteq 1 .. k - 1 /\ 1 .. k' - 1 = (1 .. k - 1) \cup {k} /\ k \notin 1 .. k - 1
    BY <1>1, <1>2 DEF NtfsInv, NtfsSkipped
  <2>2. (exported' = 1 .. k' - 1) <=> (exported = 1 .. k - 1)
    BY <1>1, <2>1
  <2>3. exported' \subseteq 1 .. k' - 1
    BY <1>1, <2>1
  <2> QED
    BY <1>1, <2>2, <2>3 DEF NtfsInv, NtfsSkipped, NtfsBefore
<1>6. NtfsPlaced'
  <2>0. UNCHANGED <<volume, contents, files>> /\ k' - 1 = k
    BY <1>1, <1>2
  <2>1. ASSUME Ntfs!PathsDiffer
        PROVE  \A i \in DOMAIN Ntfs!Selected : Ntfs!Path(i) \in DOMAIN files => Fits(files[Ntfs!Path(i)], contents[i])
    BY <2>1 DEF NtfsInv, NtfsPlaced
  <2>2. ASSUME Ntfs!PathsDiffer, ~partial', NEW i \in 1 .. k
        PROVE  Whole(i)
    <3>1. ~partial /\ ~part
      BY <1>1, <1>2, <2>2 DEF Ntfs!IsStream, NtfsInv, NtfsTypes
    <3>2. CASE i \in 1 .. k - 1
      BY <2>2, <3>1, <3>2 DEF NtfsInv, NtfsPlaced
    <3>3. CASE i = k
      <4>1. /\ Len(contents[k]) = Ntfs!Stream.size /\ Ntfs!Stream.size \in Nat
            /\ contents[k] = Ntfs!ContentOf(Ntfs!Stream)
        BY <1>2, ContentLength DEF NtfsInv, NtfsTypes, Ntfs!Stream
      <4>2. Fits(Ntfs!Output, contents[k])
        BY <1>2, <2>1, <2>2 DEF Ntfs!Output
      <4>3. Len(Ntfs!Output) = Ntfs!Stream.size
        BY <1>2, <3>1, <4>1, <4>2 DEF Fits, Ntfs!Remaining
      <4>4. /\ Ntfs!ContentOf(Ntfs!Stream) = [j \in 1 .. Ntfs!Stream.size |-> Ntfs!ContentOf(Ntfs!Stream)[j]]
            /\ Ntfs!Output = [j \in 1 .. Ntfs!Stream.size |-> Ntfs!Output[j]]
        BY <1>2, <4>3 DEF Ntfs!ContentOf
      <4>5. \A j \in 1 .. Ntfs!Stream.size : Ntfs!Output[j] = Ntfs!ContentOf(Ntfs!Stream)[j]
        BY <4>1, <4>2, <4>3 DEF Fits
      <4>6. Ntfs!Output = contents[k]
        BY <4>1, <4>4, <4>5
      <4> QED
        BY <1>2, <3>3, <4>6 DEF Whole, Ntfs!Output
    <3> QED
      BY <1>2, <3>2, <3>3
  <2> QED
    BY <2>0, <2>1, <2>2, VolumeKept DEF NtfsPlaced, Whole, Fits
<1>7. NtfsStands'
  BY <1>1 DEF NtfsStands
<1> QED
  BY <1>3, <1>4, <1>5, <1>6, <1>7 DEF NtfsInv

LEMMA StreamFacts ==
  ASSUME Ntfs!StreamsAssumption, NtfsInv, pc \in {"copy", "short", "end"}
  PROVE  /\ k \in DOMAIN Ntfs!Selected /\ Ntfs!IsStream(Ntfs!Stream) /\ Ntfs!Output \in Seq(Int)
         /\ Len(Ntfs!Output) \in Nat /\ Ntfs!Stream.size \in Nat
         /\ Len(Ntfs!Stream.cells) \in Nat /\ Ntfs!Stream.cells \in Seq(Int)
<1>1. k \in DOMAIN Ntfs!Selected /\ Ntfs!IsStream(Ntfs!Stream) /\ Ntfs!Output \in Seq(Int)
  BY VolumeFacts DEF NtfsInv, NtfsTypes, Ntfs!Output, Ntfs!Stream
<1> QED
  BY <1>1 DEF Ntfs!IsStream

LEMMA CopyResidentKeeps ==
  ASSUME Ntfs!StreamsAssumption, NtfsInv, Ntfs!CopyResident
  PROVE  NtfsInv'
<1>1. pc = "copy" /\ Ntfs!Stream.form = "resident"
  BY DEF Ntfs!CopyResident
<1>2. CASE Ntfs!Fails(45) \/ Ntfs!Fails(44)
  BY <1>1, <1>2, FailsKeeps, StreamFacts
<1>3. CASE /\ pc' = "end" /\ Ntfs!Writes(Ntfs!Stream.cells, Len(Ntfs!Stream.cells)) /\ UNCHANGED flags
  <2>1. ~Ntfs!InUnits(Ntfs!Stream) /\ Len(Ntfs!Output) = 0
    BY <1>1 DEF Ntfs!InUnits, NtfsInv, NtfsStands
  <2>2. Len(Ntfs!Stream.cells) = Ntfs!Stream.size
    BY <1>1, StreamFacts DEF Ntfs!IsStream
  <2>3. \A j \in 1 .. Len(Ntfs!Stream.cells) : Ntfs!Stream.cells[j] = Ntfs!ContentOf(Ntfs!Stream)[Len(Ntfs!Output) + j]
    <3> TAKE j \in 1 .. Len(Ntfs!Stream.cells)
    <3>1. 0 + j = j /\ j \in 1 .. Ntfs!Stream.size /\ j <= Len(Ntfs!Stream.cells)
      BY <1>1, <2>2, StreamFacts
    <3> QED
      BY <2>1, <3>1 DEF Ntfs!ContentOf
  <2>4. Len(Ntfs!Output) + Len(Ntfs!Stream.cells) <= Ntfs!Stream.size
    BY <1>1, <2>1, <2>2, StreamFacts
  <2>5. NtfsStands'
    BY <1>3 DEF NtfsStands
  <2> DEFINE cells == Ntfs!Stream.cells
             n == Len(Ntfs!Stream.cells)
  <2>6. /\ cells \in Seq(Int) /\ n \in Nat /\ Len(Ntfs!Output) + Len(cells) <= Ntfs!Stream.size
        /\ \A j \in 1 .. Len(cells) : cells[j] = Ntfs!ContentOf(Ntfs!Stream)[Len(Ntfs!Output) + j]
        /\ Ntfs!Writes(cells, n)
    BY <1>1, <1>3, <2>3, <2>4, StreamFacts
  <2> HIDE DEF cells, n
  <2> QED
    BY <1>1, <1>3, <2>5, <2>6, WriteKeeps
<1> QED
  BY <1>2, <1>3 DEF Ntfs!CopyResident, Ntfs!WriteFails

LEMMA CopyClusterKeeps ==
  ASSUME Ntfs!StreamsAssumption, NtfsInv, Ntfs!CopyCluster
  PROVE  NtfsInv'
<1> DEFINE c == Ntfs!Stream.cells[vcn + 1]
<1>1. /\ pc = "copy" /\ Ntfs!Stream.form = "mapped" /\ ~Ntfs!InUnits(Ntfs!Stream)
      /\ Ntfs!Remaining > 0 /\ vcn < Len(Ntfs!Stream.cells)
  BY DEF Ntfs!CopyCluster
<1>2. CASE Ntfs!EndStream(TRUE) /\ UNCHANGED flags
  BY <1>1, <1>2, EndKeeps
<1>3. CASE Ntfs!Fails(33) \/ Ntfs!Fails(44)
  BY <1>1, <1>3, FailsKeeps, StreamFacts
<1>4. CASE /\ Ntfs!Writes(<<c>>, 1) /\ UNCHANGED pc
           /\ flags' = flags \cup (IF c = 0 THEN {"zerofilled"} ELSE {})
  <2>1. vcn = Len(Ntfs!Output) /\ vcn \in Nat
    BY <1>1 DEF NtfsInv, NtfsStands, NtfsTypes
  <2>2. c \in Int
    BY <1>1, <2>1, StreamFacts
  <2>3. vcn + 1 <= Ntfs!Stream.size /\ vcn + 1 <= Len(Ntfs!Stream.cells)
    BY <1>1, <2>1, StreamFacts DEF Ntfs!Remaining
  <2>4. c = Ntfs!ContentOf(Ntfs!Stream)[Len(Ntfs!Output) + 1]
    BY <1>1, <2>1, <2>3, StreamFacts DEF Ntfs!ContentOf
  <2>5. /\ files' = [files EXCEPT ![Ntfs!Path(k)] = @ \o <<c>>] /\ vcn' = vcn + 1
        /\ UNCHANGED <<volume, k>>
    BY <1>4 DEF Ntfs!Writes
  <2>6. Ntfs!Stream' = Ntfs!Stream /\ Ntfs!Output' = Ntfs!Output \o <<c>> /\ Ntfs!Path(k)' = Ntfs!Path(k)
    BY <1>1, <2>5, VolumeKept DEF Ntfs!Stream, Ntfs!Output, NtfsInv, NtfsTypes
  <2>7. Len(Ntfs!Output') = Len(Ntfs!Output) + 1
    BY <1>1, <2>2, <2>6, StreamFacts
  <2>8. NtfsStands'
    BY <1>1, <2>1, <2>5, <2>6, <2>7 DEF NtfsStands, Ntfs!InUnits
  <2> DEFINE cells == <<c>>
  <2>9. /\ cells \in Seq(Int) /\ 1 \in Nat /\ Len(Ntfs!Output) + Len(cells) <= Ntfs!Stream.size
        /\ \A j \in 1 .. Len(cells) : cells[j] = Ntfs!ContentOf(Ntfs!Stream)[Len(Ntfs!Output) + j]
        /\ Ntfs!Writes(cells, 1)
    BY <1>4, <2>1, <2>2, <2>3, <2>4
  <2>10. ("skipped" \in flags') <=> ("skipped" \in flags)
    BY <1>4
  <2> HIDE DEF cells
  <2> QED
    BY <1>1, <1>4, <2>8, <2>9, <2>10, WriteKeeps
<1> QED
  BY <1>2, <1>3, <1>4 DEF Ntfs!CopyCluster, Ntfs!WriteFails

LEMMA UnitTooLargeKeeps ==
  ASSUME Ntfs!StreamsAssumption, NtfsInv, Ntfs!UnitTooLarge
  PROVE  NtfsInv'
BY FailsKeeps, StreamFacts DEF Ntfs!UnitTooLarge

LEMMA Quotient ==
  ASSUME NEW u \in Nat \ {0}, NEW x \in Nat
  PROVE  x \div u \in Nat /\ (x \div u) * u <= x
OBVIOUS

\* A unit that begins at x.
LEMMA UnitsDivide ==
  ASSUME NEW u \in Nat \ {0}, NEW x \in Nat, x % u = 0
  PROVE  /\ (x \div u) * u = x /\ (x + u) % u = 0
         /\ \A j \in 1 .. u : ((x + j) - 1) \div u = x \div u
<1> DEFINE q == x \div u
<1>1. q \in Nat /\ q * u = x
  OBVIOUS
<1>2. (x + u) % u = 0
  <2>1. (q + 1) * u = x + u /\ q + 1 \in Nat
    BY <1>1
  <2>2. \A m, n \in Nat : n > 0 => (m * n) % n = 0
    OBVIOUS
  <2> HIDE DEF q
  <2>3. ((q + 1) * u) % u = 0
    BY <2>1, <2>2
  <2> QED
    BY <2>1, <2>3
<1>3. ASSUME NEW j \in 1 .. u PROVE ((x + j) - 1) \div u = q
  <2>1. x + j - 1 \in Nat /\ q * u <= x + j - 1 /\ x + j - 1 < q * u + u
    BY <1>1
  <2>2. \A y, n, m \in Nat : n > 0 /\ m * n <= y /\ y < m * n + n => y \div n = m
    OBVIOUS
  <2> HIDE DEF q
  <2> QED
    BY <1>1, <2>1, <2>2
<1> QED
  BY <1>1, <1>2, <1>3

LEMMA UnitFacts ==
  ASSUME Ntfs!StreamsAssumption, NtfsInv, pc = "copy", Ntfs!InUnits(Ntfs!Stream),
         Ntfs!Remaining > 0, vcn < Len(Ntfs!Stream.cells)
  PROVE  /\ vcn = Len(Ntfs!Output) /\ vcn \in Nat /\ Ntfs!UnitOf(Ntfs!Stream) \in Nat \ {0}
         /\ (vcn + Ntfs!UnitOf(Ntfs!Stream)) % Ntfs!UnitOf(Ntfs!Stream) = 0
         /\ Ntfs!UnitCells(Ntfs!Stream, vcn + 1) =
              SubSeq(Ntfs!Stream.cells, vcn + 1, Ntfs!SmallerOf(vcn + Ntfs!UnitOf(Ntfs!Stream), Len(Ntfs!Stream.cells)))
         /\ Ntfs!UnitCells(Ntfs!Stream, vcn + 1) \in Seq(Int)
         /\ Len(Ntfs!UnitCells(Ntfs!Stream, vcn + 1)) = Ntfs!SmallerOf(Ntfs!UnitOf(Ntfs!Stream), Len(Ntfs!Stream.cells) - vcn)
         /\ \A j \in 1 .. Len(Ntfs!UnitCells(Ntfs!Stream, vcn + 1)) :
              Ntfs!UnitCells(Ntfs!Stream, vcn + 1)[j] = Ntfs!Stream.cells[vcn + j]
         /\ \A j \in 1 .. Ntfs!UnitOf(Ntfs!Stream) :
              Ntfs!UnitCells(Ntfs!Stream, vcn + j) = Ntfs!UnitCells(Ntfs!Stream, vcn + 1)
         /\ Ntfs!Target \in 1 .. Ntfs!UnitOf(Ntfs!Stream) /\ vcn + Ntfs!Target <= Ntfs!Stream.size
         /\ Ntfs!Target < Ntfs!UnitOf(Ntfs!Stream) => vcn + Ntfs!Target = Ntfs!Stream.size
<1> DEFINE u == Ntfs!UnitOf(Ntfs!Stream)
<1>1. /\ Ntfs!IsStream(Ntfs!Stream) /\ Len(Ntfs!Output) \in Nat /\ Ntfs!Stream.size \in Nat
      /\ Len(Ntfs!Stream.cells) \in Nat /\ Ntfs!Stream.cells \in Seq(Int) /\ vcn \in Nat
  BY StreamFacts DEF NtfsInv, NtfsTypes
<1>2. Len(Ntfs!Output) < Ntfs!Stream.size
  BY <1>1 DEF Ntfs!Remaining
<1>3. vcn = Len(Ntfs!Output) /\ vcn % u = 0
  BY <1>2 DEF NtfsInv, NtfsStands
<1>4. u \in Nat \ {0}
  BY <1>1, UnitPositive
<1> HIDE DEF u
<1>5. /\ (vcn \div u) * u = vcn /\ (vcn + u) % u = 0
      /\ \A j \in 1 .. u : ((vcn + j) - 1) \div u = vcn \div u
  BY <1>1, <1>3, <1>4, UnitsDivide
<1>6. \A j \in 1 .. u : Ntfs!UnitCells(Ntfs!Stream, vcn + j) =
        SubSeq(Ntfs!Stream.cells, vcn + 1, Ntfs!SmallerOf(vcn + u, Len(Ntfs!Stream.cells)))
  <2> TAKE j \in 1 .. u
  <2>1. (((vcn + j) - 1) \div u) * u = vcn
    BY <1>5
  <2>2. Ntfs!UnitCells(Ntfs!Stream, vcn + j) =
          SubSeq(Ntfs!Stream.cells, (((vcn + j) - 1) \div u) * u + 1,
                 Ntfs!SmallerOf((((vcn + j) - 1) \div u) * u + u, Len(Ntfs!Stream.cells)))
    <3> DEFINE i == vcn + j
    <3>1. Ntfs!UnitCells(Ntfs!Stream, i) =
            SubSeq(Ntfs!Stream.cells, ((i - 1) \div Ntfs!UnitOf(Ntfs!Stream)) * Ntfs!UnitOf(Ntfs!Stream) + 1,
                   Ntfs!SmallerOf(((i - 1) \div Ntfs!UnitOf(Ntfs!Stream)) * Ntfs!UnitOf(Ntfs!Stream) + Ntfs!UnitOf(Ntfs!Stream),
                             Len(Ntfs!Stream.cells)))
      <4> HIDE DEF i
      <4> QED
        BY Zenon DEF Ntfs!UnitCells
    <3> QED
      BY <3>1, Zenon DEF u
  <2> QED
    BY <2>1, <2>2
<1>7. Ntfs!UnitCells(Ntfs!Stream, vcn + 1) = SubSeq(Ntfs!Stream.cells, vcn + 1, Ntfs!SmallerOf(vcn + u, Len(Ntfs!Stream.cells)))
  BY <1>4, <1>6
<1> DEFINE last == Ntfs!SmallerOf(vcn + u, Len(Ntfs!Stream.cells))
<1>8. last \in 1 .. Len(Ntfs!Stream.cells) /\ last >= vcn + 1
      /\ last - vcn = Ntfs!SmallerOf(u, Len(Ntfs!Stream.cells) - vcn)
  BY <1>1, <1>4 DEF Ntfs!SmallerOf
<1>9. /\ SubSeq(Ntfs!Stream.cells, vcn + 1, last) \in Seq(Int)
      /\ Len(SubSeq(Ntfs!Stream.cells, vcn + 1, last)) = last - vcn
      /\ \A j \in 1 .. last - vcn : SubSeq(Ntfs!Stream.cells, vcn + 1, last)[j] = Ntfs!Stream.cells[vcn + j]
  <2> HIDE DEF last
  <2> QED
    BY <1>1, <1>8
<1>10. Ntfs!Target \in 1 .. u /\ vcn + Ntfs!Target <= Ntfs!Stream.size /\ (Ntfs!Target < u => vcn + Ntfs!Target = Ntfs!Stream.size)
  BY <1>1, <1>2, <1>3, <1>4 DEF Ntfs!Target, Ntfs!SmallerOf, Ntfs!Remaining, u
<1> QED
  BY <1>1, <1>3, <1>4, <1>5, <1>6, <1>7, <1>8, <1>9, <1>10 DEF u

\* The output behind a unit.
LEMMA UnitWritten ==
  ASSUME Ntfs!StreamsAssumption, NtfsInv, pc = "copy", Ntfs!InUnits(Ntfs!Stream),
         Ntfs!Remaining > 0, vcn < Len(Ntfs!Stream.cells),
         NEW STATE cells, cells \in Seq(Int), Len(cells) <= Ntfs!Target,
         \A j \in 1 .. Len(cells) : cells[j] = Ntfs!ContentOf(Ntfs!Stream)[vcn + j],
         Ntfs!Writes(cells, Len(Ntfs!UnitCells(Ntfs!Stream, vcn + 1))),
         pc' \in {"copy", "short"}, pc' = "copy" => Len(cells) = Ntfs!Target,
         ("skipped" \in flags') <=> ("skipped" \in flags)
  PROVE  NtfsInv'
<1> DEFINE n == Len(Ntfs!UnitCells(Ntfs!Stream, vcn + 1))
           u == Ntfs!UnitOf(Ntfs!Stream)
<1>1. /\ files' = [files EXCEPT ![Ntfs!Path(k)] = @ \o cells] /\ vcn' = vcn + n
      /\ UNCHANGED <<volume, k>>
  BY DEF Ntfs!Writes
<1>2. Ntfs!Stream' = Ntfs!Stream /\ Ntfs!Output' = Ntfs!Output \o cells /\ Ntfs!Path(k)' = Ntfs!Path(k)
  BY <1>1, VolumeKept DEF Ntfs!Stream, Ntfs!Output, NtfsInv, NtfsTypes
<1>3. /\ vcn = Len(Ntfs!Output) /\ vcn \in Nat /\ u \in Nat \ {0} /\ (vcn + u) % u = 0
      /\ n = Ntfs!SmallerOf(u, Len(Ntfs!Stream.cells) - vcn)
      /\ Ntfs!Target \in 1 .. u /\ vcn + Ntfs!Target <= Ntfs!Stream.size
      /\ Ntfs!Target < u => vcn + Ntfs!Target = Ntfs!Stream.size
  BY UnitFacts
<1>4. /\ Ntfs!Output \in Seq(Int) /\ Len(Ntfs!Stream.cells) \in Nat /\ Ntfs!Stream.size \in Nat
      /\ Len(cells) \in Nat /\ Len(Ntfs!Output \o cells) = Len(Ntfs!Output) + Len(cells)
  BY StreamFacts
<1>5. Ntfs!UnitOf(Ntfs!Stream)' = u /\ (Ntfs!InUnits(Ntfs!Stream)' <=> Ntfs!InUnits(Ntfs!Stream))
  BY <1>2 DEF Ntfs!UnitOf, Ntfs!InUnits
<1>6. Ntfs!Stream.form # "resident"
  BY DEF Ntfs!InUnits
<1> HIDE DEF n, u
<1>7. pc' = "copy" /\ Len(Ntfs!Output') < Ntfs!Stream.size /\ vcn' < Len(Ntfs!Stream.cells) =>
        vcn' = Len(Ntfs!Output') /\ vcn' = vcn + u
  <2>1. vcn' = vcn + n /\ Len(Ntfs!Output') = vcn + Len(cells)
    BY <1>1, <1>2, <1>3, <1>4
  <2>2. n = IF u <= Len(Ntfs!Stream.cells) - vcn THEN u ELSE Len(Ntfs!Stream.cells) - vcn
    BY <1>3 DEF Ntfs!SmallerOf
  <2> SUFFICES ASSUME Len(cells) = Ntfs!Target, vcn + Len(cells) < Ntfs!Stream.size, vcn + n < Len(Ntfs!Stream.cells)
               PROVE  n = Len(cells) /\ n = u
    BY <1>3, <1>4, <2>1
  <2>3. Ntfs!Target = u
    BY <1>3
  <2>4. n = u
    BY <1>3, <1>4, <2>2
  <2> QED
    BY <2>3, <2>4
<1>8. NtfsStands'
  BY <1>2, <1>3, <1>5, <1>6, <1>7 DEF NtfsStands
<1>9. n \in Nat
  BY <1>3, <1>4 DEF Ntfs!SmallerOf
<1>10. /\ Len(Ntfs!Output) + Len(cells) <= Ntfs!Stream.size
       /\ \A j \in 1 .. Len(cells) : cells[j] = Ntfs!ContentOf(Ntfs!Stream)[Len(Ntfs!Output) + j]
       /\ Ntfs!Writes(cells, n)
  BY <1>3, <1>4 DEF n
<1>11. pc' \in {"copy", "short", "end"}
  OBVIOUS
<1> QED
  BY <1>8, <1>9, <1>10, <1>11, WriteKeeps

LEMMA CopyUnitKeeps ==
  ASSUME Ntfs!StreamsAssumption, NtfsInv, Ntfs!CopyUnit
  PROVE  NtfsInv'
<1> DEFINE unit == Ntfs!UnitCells(Ntfs!Stream, vcn + 1)
           u == Ntfs!UnitOf(Ntfs!Stream)
<1>1. /\ pc = "copy" /\ Ntfs!InUnits(Ntfs!Stream) /\ Ntfs!Remaining > 0 /\ vcn < Len(Ntfs!Stream.cells)
  BY DEF Ntfs!CopyUnit
<1>2. /\ vcn = Len(Ntfs!Output) /\ vcn \in Nat /\ u \in Nat \ {0}
      /\ unit \in Seq(Int)
      /\ Len(unit) = Ntfs!SmallerOf(u, Len(Ntfs!Stream.cells) - vcn)
      /\ \A j \in 1 .. Len(unit) : unit[j] = Ntfs!Stream.cells[vcn + j]
      /\ \A j \in 1 .. u : Ntfs!UnitCells(Ntfs!Stream, vcn + j) = unit
      /\ Ntfs!Target \in 1 .. u /\ vcn + Ntfs!Target <= Ntfs!Stream.size
  BY <1>1, UnitFacts
<1>3. Ntfs!Stream.size \in Nat /\ Len(Ntfs!Stream.cells) \in Nat /\ Ntfs!IsStream(Ntfs!Stream)
  BY <1>1, StreamFacts
<1>4. \A j \in 1 .. Ntfs!Target : vcn + j \in 1 .. Ntfs!Stream.size
  BY <1>2, <1>3
<1> HIDE DEF unit, u
<1>5. \A j \in 1 .. Ntfs!Target :
        Ntfs!ContentOf(Ntfs!Stream)[vcn + j] = CASE Ntfs!AllHoles(unit) -> 0
                                       [] Ntfs!IsRaw(Ntfs!Stream, unit) -> Ntfs!Stream.cells[vcn + j]
                                       [] OTHER -> 0 - (vcn + j)
  <2> TAKE j \in 1 .. Ntfs!Target
  <2>1. j \in 1 .. u /\ vcn + j \in 1 .. Ntfs!Stream.size /\ Ntfs!UnitCells(Ntfs!Stream, vcn + j) = unit
    BY <1>2, <1>4
  <2> QED
    BY <1>1, <2>1 DEF Ntfs!ContentOf
<1>0. Ntfs!AllHoles(unit) => ~Ntfs!IsRaw(Ntfs!Stream, unit)
  <2> SUFFICES ASSUME Ntfs!AllHoles(unit), Ntfs!IsRaw(Ntfs!Stream, unit) PROVE FALSE
    OBVIOUS
  <2>1. 1 \in DOMAIN unit
    BY <1>2 DEF Ntfs!IsRaw, u
  <2> QED
    BY <2>1 DEF Ntfs!AllHoles, Ntfs!IsRaw
<1>6. CASE Ntfs!EndStream(TRUE) /\ (("skipped" \in flags') <=> ("skipped" \in flags))
  BY <1>1, <1>6, EndKeeps
<1>7. CASE Ntfs!Fails(33) \/ Ntfs!Fails(44)
  BY <1>1, <1>7, FailsKeeps, StreamFacts
<1>8. CASE /\ Ntfs!AllHoles(unit) /\ Ntfs!Writes([i \in 1 .. Ntfs!Target |-> 0], Len(unit))
           /\ flags' = flags \cup {"zerofilled"} /\ UNCHANGED pc
  <2> DEFINE cells == [i \in 1 .. Ntfs!Target |-> 0]
  <2>1. cells \in Seq(Int) /\ Len(cells) = Ntfs!Target
    <3>1. Ntfs!Target \in Nat
      BY <1>2
    <3> QED
      BY <3>1
  <2>2. \A j \in 1 .. Len(cells) : cells[j] = Ntfs!ContentOf(Ntfs!Stream)[vcn + j]
    <3> TAKE j \in 1 .. Len(cells)
    <3>1. j \in 1 .. Ntfs!Target /\ cells[j] = 0
      BY <2>1
    <3> HIDE DEF cells
    <3> QED
      BY <1>0, <1>5, <1>8, <3>1
  <2>3. Ntfs!Writes(cells, Len(Ntfs!UnitCells(Ntfs!Stream, vcn + 1)))
    BY <1>8 DEF unit
  <2>4. /\ Len(cells) <= Ntfs!Target /\ pc' \in {"copy", "short"}
        /\ ("skipped" \in flags') <=> ("skipped" \in flags)
    BY <1>1, <1>2, <1>8, <2>1
  <2> HIDE DEF cells
  <2> QED
    BY <1>1, <2>1, <2>2, <2>3, <2>4, UnitWritten
<1>9. CASE /\ ~Ntfs!AllHoles(unit) /\ Ntfs!IsRaw(Ntfs!Stream, unit)
           /\ Ntfs!Writes(SubSeq(unit, 1, Ntfs!Target), Len(unit)) /\ UNCHANGED <<pc, flags>>
  <2> DEFINE cells == SubSeq(unit, 1, Ntfs!Target)
  <2>0. Len(unit) = u
    BY <1>9 DEF Ntfs!IsRaw, u
  <2>1. /\ cells \in Seq(Int) /\ Len(cells) = Ntfs!Target
        /\ \A j \in 1 .. Ntfs!Target : cells[j] = unit[j]
    BY <1>2, <2>0
  <2>2. \A j \in 1 .. Len(cells) : cells[j] = Ntfs!ContentOf(Ntfs!Stream)[vcn + j]
    <3> HIDE DEF cells
    <3> TAKE j \in 1 .. Len(cells)
    <3>1. j \in 1 .. Ntfs!Target /\ j \in 1 .. Len(unit)
      BY <1>2, <2>0, <2>1
    <3>2. cells[j] = Ntfs!Stream.cells[vcn + j]
      BY <1>2, <2>1, <3>1
    <3> QED
      BY <1>5, <1>9, <3>1, <3>2
  <2>3. Ntfs!Writes(cells, Len(Ntfs!UnitCells(Ntfs!Stream, vcn + 1)))
    BY <1>9 DEF unit
  <2>4. /\ Len(cells) <= Ntfs!Target /\ pc' \in {"copy", "short"}
        /\ ("skipped" \in flags') <=> ("skipped" \in flags)
    BY <1>1, <1>2, <1>9, <2>1
  <2> HIDE DEF cells
  <2> QED
    BY <1>1, <2>1, <2>2, <2>3, <2>4, UnitWritten
<1>10. CASE /\ ~Ntfs!AllHoles(unit) /\ ~Ntfs!IsRaw(Ntfs!Stream, unit)
            /\ Ntfs!Decoded > 0 /\ Ntfs!Writes([i \in 1 .. Ntfs!Decoded |-> 0 - (vcn + i)], Len(unit))
            /\ pc' = Ntfs!AfterUnit(Ntfs!Decoded)
            /\ (("skipped" \in flags') <=> ("skipped" \in flags))
  <2>0. Ntfs!Decoded \in Nat /\ Ntfs!Decoded <= Ntfs!Target
    <3>1. (vcn \div u) + 1 \in 1 .. Len(Ntfs!Stream.decoded)
      <4>1. Len(Ntfs!Stream.cells) <= Len(Ntfs!Stream.decoded) * u
        <5> USE DEF u
        <5> QED
          BY <1>1, <1>3, Zenon DEF Ntfs!IsStream
      <4>6. Len(Ntfs!Stream.decoded) \in Nat
        BY <1>3 DEF Ntfs!IsStream
      <4>2. vcn \div u \in Nat /\ (vcn \div u) * u <= vcn
        BY <1>2, Quotient
      <4>3. vcn < Len(Ntfs!Stream.decoded) * u
        BY <1>1, <1>2, <1>3, <4>1, <4>6
      <4>4. \A q, n, m \in Nat : n <= q => n * m <= q * m
        <5> TAKE q, n, m \in Nat
        <5> HAVE n <= q
        <5>1. q * m = n * m + (q - n) * m /\ (q - n) * m >= 0
          OBVIOUS
        <5> QED
          BY <5>1
      <4>5. vcn \div u < Len(Ntfs!Stream.decoded)
        <5>1. ~(Len(Ntfs!Stream.decoded) <= vcn \div u)
          <6> DEFINE q == vcn \div u
                     n == Len(Ntfs!Stream.decoded)
          <6> HIDE DEF q, n
          <6> SUFFICES ASSUME n <= q PROVE FALSE
            BY DEF q, n
          <6>1. n * u <= q * u /\ q * u <= vcn /\ vcn < n * u /\ q * u \in Nat /\ n * u \in Nat
            <7>1. q \in Nat /\ n \in Nat /\ u \in Nat /\ q * u <= vcn /\ vcn < n * u
              BY <1>2, <4>6, <4>2, <4>3 DEF q, n
            <7>2. q * u \in Nat /\ n * u \in Nat
              BY <7>1
            <7> QED
              BY <7>1, <7>2, <4>4
          <6> QED
            BY <6>1, <1>2
        <5> QED
          BY <5>1, <4>2, <4>6
      <4> QED
        BY <4>6, <4>2, <4>5
    <3>2. Ntfs!Stream.decoded[(vcn \div u) + 1] \in Nat
      BY <1>3, <3>1 DEF Ntfs!IsStream
    <3> QED
      BY <1>2, <3>2 DEF Ntfs!Decoded, Ntfs!SmallerOf, u
  <2> DEFINE cells == [i \in 1 .. Ntfs!Decoded |-> 0 - (vcn + i)]
  <2>1. cells \in Seq(Int) /\ Len(cells) = Ntfs!Decoded
    BY <1>2, <2>0
  <2>2. \A j \in 1 .. Len(cells) : cells[j] = Ntfs!ContentOf(Ntfs!Stream)[vcn + j]
    <3> TAKE j \in 1 .. Len(cells)
    <3>1. j \in 1 .. Ntfs!Target /\ j \in 1 .. Ntfs!Decoded
      BY <1>2, <2>0, <2>1
    <3> QED
      BY <1>5, <1>10, <3>1
  <2>3. Ntfs!Writes(cells, Len(Ntfs!UnitCells(Ntfs!Stream, vcn + 1)))
    BY <1>10 DEF unit
  <2>4. /\ Len(cells) <= Ntfs!Target /\ pc' \in {"copy", "short"} /\ (pc' = "copy" => Len(cells) = Ntfs!Target)
        /\ ("skipped" \in flags') <=> ("skipped" \in flags)
    BY <1>1, <1>2, <1>10, <2>0, <2>1 DEF Ntfs!AfterUnit
  <2> HIDE DEF cells
  <2> QED
    BY <1>1, <2>1, <2>2, <2>3, <2>4, UnitWritten
<1>11. CASE Ntfs!AllHoles(unit)
  BY <1>7, <1>8, <1>11 DEF Ntfs!CopyUnit, Ntfs!WriteFails, unit
<1>12. CASE ~Ntfs!AllHoles(unit) /\ Ntfs!ReadingAll(unit) = "short"
  BY <1>6, <1>12 DEF Ntfs!CopyUnit, unit
<1>13. CASE ~Ntfs!AllHoles(unit) /\ Ntfs!ReadingAll(unit) = "overflow"
  <2>1. Ntfs!Fails(33)
    BY <1>13 DEF Ntfs!CopyUnit, unit
  <2> QED
    BY <1>7, <2>1
<1>14. CASE ~Ntfs!AllHoles(unit) /\ Ntfs!ReadingAll(unit) = "ok" /\ Ntfs!IsRaw(Ntfs!Stream, unit)
  <2>1. \/ Ntfs!WriteFails
        \/ Ntfs!Writes(SubSeq(unit, 1, Ntfs!Target), Len(unit)) /\ UNCHANGED <<pc, flags>>
    BY <1>14 DEF Ntfs!CopyUnit, unit
  <2> QED
    BY <1>7, <1>9, <1>14, <2>1 DEF Ntfs!WriteFails
<1>15. CASE ~Ntfs!AllHoles(unit) /\ Ntfs!ReadingAll(unit) = "ok" /\ ~Ntfs!IsRaw(Ntfs!Stream, unit)
  <2> DEFINE told == flags \cup {"unsupportedcompressed"}
  <2>1. \/ Ntfs!Decoded = 0 /\ Ntfs!EndStream(TRUE) /\ flags' = told
        \/ Ntfs!Decoded > 0 /\ Ntfs!WriteFails
        \/ /\ Ntfs!Decoded > 0
           /\ Ntfs!Writes([i \in 1 .. Ntfs!Decoded |-> 0 - (vcn + i)], Len(unit))
           /\ pc' = Ntfs!AfterUnit(Ntfs!Decoded)
           /\ flags' = IF Ntfs!Decoded < Ntfs!Target THEN told ELSE flags
    BY <1>15 DEF Ntfs!CopyUnit, unit
  <2>2. flags' \in {told, flags} => (("skipped" \in flags') <=> ("skipped" \in flags))
    OBVIOUS
  <2> QED
    BY <1>6, <1>7, <1>10, <1>15, <2>1, <2>2 DEF Ntfs!WriteFails
<1>16. Ntfs!ReadingAll(unit) \in {"ok", "short", "overflow"}
  <2>1. \A c : Ntfs!Reading(c) \in {"ok", "short", "overflow"}
    BY DEF Ntfs!Reading
  <2> QED
    BY <2>1 DEF Ntfs!ReadingAll
<1> QED
  BY <1>11, <1>12, <1>13, <1>14, <1>15, <1>16

LEMMA FinishStreamKeeps ==
  ASSUME Ntfs!StreamsAssumption, NtfsInv, Ntfs!FinishStream
  PROVE  NtfsInv'
<1> DEFINE part == Ntfs!Remaining > 0
<1>1. pc \in {"copy", "short", "end"} /\ Ntfs!EndStream(part) /\ UNCHANGED flags
  BY DEF Ntfs!FinishStream
<1>2. Ntfs!Remaining \in Int
  BY <1>1, StreamFacts DEF Ntfs!Remaining
<1>3. part \in BOOLEAN /\ (part \/ Ntfs!Remaining <= 0)
  BY <1>2
<1> HIDE DEF part
<1> QED
  BY <1>1, <1>3, EndKeeps

LEMMA FinishKeeps ==
  ASSUME Ntfs!StreamsAssumption, NtfsInv, Ntfs!Finish
  PROVE  NtfsInv'
<1>1. pc = "create" /\ k > Len(Ntfs!Selected) /\ partial' = partial
  BY DEF Ntfs!Finish
<1>2. k = Len(Ntfs!Selected) + 1 /\ Len(Ntfs!Selected) \in Nat
  BY <1>1, VolumeFacts DEF NtfsInv, NtfsTypes
<1>3. partial' \in BOOLEAN /\ (partial => partial')
  BY <1>1 DEF NtfsInv, NtfsTypes
<1>4. CASE Ntfs!Returns(47)
  <2> DEFINE s == 47
  <2>1. /\ s = 0 => k = Len(Ntfs!Selected) + 1 /\ (("skipped" \in flags') <=> ("skipped" \in flags))
        /\ s = 41 => Ntfs!NotFoundIsAbsent' /\ Ntfs!Returns(s)
    OBVIOUS
  <2>2. Ntfs!Returns(s)
    BY <1>4
  <2> HIDE DEF s
  <2> QED
    BY <1>1, <1>3, <2>1, <2>2, ReturnsKeeps
<1>5. CASE Ntfs!Returns(0) /\ (("skipped" \in flags') <=> ("skipped" \in flags))
  <2> DEFINE s == 0
  <2>1. /\ s = 0 => k = Len(Ntfs!Selected) + 1 /\ (("skipped" \in flags') <=> ("skipped" \in flags))
        /\ s = 41 => Ntfs!NotFoundIsAbsent'
    BY <1>2, <1>5
  <2>2. Ntfs!Returns(s)
    BY <1>5
  <2> HIDE DEF s
  <2> QED
    BY <1>1, <1>3, <2>1, <2>2, ReturnsKeeps
<1> QED
  BY <1>4, <1>5 DEF Ntfs!Finish

LEMMA NtfsStep ==
  ASSUME Ntfs!StreamsAssumption, NtfsInv, Ntfs!Next \/ UNCHANGED Ntfs!vars
  PROVE  NtfsInv'
<1>1. CASE UNCHANGED Ntfs!vars
  <2>1. UNCHANGED <<volume, contents, pc, at, empties, k, vcn, files, partial, exported, flags, status>>
    BY <1>1 DEF Ntfs!vars
  <2>2. NtfsTypes' /\ NtfsBefore' /\ NtfsSearched' /\ NtfsSkipped'
    BY <2>1, VolumeKept DEF NtfsInv, NtfsTypes, NtfsBefore, NtfsSearched, NtfsSkipped, Ntfs!NotFoundIsAbsent
  <2>3. Ntfs!Stream' = Ntfs!Stream /\ Ntfs!Output' = Ntfs!Output
    BY <2>1, VolumeKept DEF Ntfs!Stream, Ntfs!Output
  <2>4. NtfsPlaced' /\ NtfsStands'
    BY <2>1, <2>3, VolumeKept DEF NtfsInv, NtfsPlaced, NtfsStands, Whole, Fits, Ntfs!UnitOf, Ntfs!InUnits
  <2> QED
    BY <2>2, <2>4 DEF NtfsInv
<1> QED
  BY <1>1, OpenKeeps, SearchRecordKeeps, SearchEndsKeeps, SearchErrorKeeps, SelectKeeps,
     CreateKeeps, CopyResidentKeeps, CopyClusterKeeps, UnitTooLargeKeeps, CopyUnitKeeps,
     FinishStreamKeeps, FinishKeeps DEF Ntfs!Next

\* What follows from it.
LEMMA NtfsPromises ==
  ASSUME Ntfs!StreamsAssumption, NtfsInv
  PROVE  Ntfs!CellsInPlace /\ Ntfs!SkippedIsTold /\ Ntfs!NotFoundIsAbsent /\ Ntfs!UnmarkedIsWhole
<1>1. /\ Len(Ntfs!Selected) \in Nat /\ DOMAIN Ntfs!Selected = 1 .. Len(Ntfs!Selected)
      /\ \A i \in DOMAIN Ntfs!Selected : Ntfs!IsStream(Ntfs!Selected[i])
  BY VolumeFacts DEF NtfsInv, NtfsTypes
<1>2. Ntfs!CellsInPlace
  <2> SUFFICES ASSUME Ntfs!PathsDiffer, NEW i \in DOMAIN Ntfs!Selected, Ntfs!Path(i) \in DOMAIN files
               PROVE  Ntfs!IsPrefix(files[Ntfs!Path(i)], contents[i])
    BY DEF Ntfs!CellsInPlace
  <2>1. Fits(files[Ntfs!Path(i)], contents[i]) /\ files[Ntfs!Path(i)] \in Seq(Int)
    BY DEF NtfsInv, NtfsPlaced, NtfsTypes
  <2> DEFINE size == Ntfs!Selected[i].size
             Cells == {contents[i][j] : j \in 1 .. size}
  <2>2. contents[i] \in Seq(Cells)
    <3>1. size \in Nat /\ contents[i] = [j \in 1 .. size |-> contents[i][j]]
      BY <1>1, ContentLength DEF NtfsInv, NtfsTypes, Ntfs!ContentOf
    <3>2. \A j \in 1 .. size : contents[i][j] \in Cells
      OBVIOUS
    <3> HIDE DEF size, Cells
    <3> QED
      BY <3>1, <3>2
  <2> HIDE DEF Cells
  <2>3. files[Ntfs!Path(i)] \in Seq(Int \cup Cells) /\ contents[i] \in Seq(Int \cup Cells)
    BY <2>1, <2>2
  <2> QED
    BY <2>1, <2>3 DEF Ntfs!IsPrefix, Fits
<1>3. Ntfs!SkippedIsTold
  BY <1>1 DEF Ntfs!SkippedIsTold, Ntfs!Done, NtfsInv, NtfsSkipped, NtfsBefore
<1>4. Ntfs!NotFoundIsAbsent
  BY DEF NtfsInv, NtfsSearched, Ntfs!NotFoundIsAbsent
<1>5. Ntfs!UnmarkedIsWhole
  BY <1>1 DEF Ntfs!UnmarkedIsWhole, Ntfs!Done, NtfsInv, NtfsBefore, NtfsPlaced, Whole
<1> QED
  BY <1>2, <1>3, <1>4, <1>5

-----------------------------------------------------------------------------
(* Inodes: the proofs about ExtRecovery speak of the component that runs here. *)

LEMMA ExtFilesAssumptionIs == Ext!FilesAssumption <=> ExtProofs!FilesAssumption
BY DEF
  Ext!Fates, Ext!FilesAssumption, Ext!IsFile, Ext!IsNode, Ext!IsVolume, Ext!Item,
  Ext!ItemKinds, Ext!Level, Ext!Width, ExtProofs!Fates, ExtProofs!FilesAssumption,
  ExtProofs!IsFile, ExtProofs!IsNode, ExtProofs!IsVolume, ExtProofs!Item,
  ExtProofs!ItemKinds, ExtProofs!Level, ExtProofs!Width

LEMMA ExtInitIs == Ext!Init <=> ExtProofs!Init
BY DEF
  Ext!Below, Ext!BlockOf, Ext!Blocks, Ext!Content, Ext!Covering, Ext!Holes, Ext!Init,
  Ext!Initialized, Ext!Level, Ext!Logical, Ext!Max, Ext!NoRun, Ext!Root, Ext!Zero,
  ExtProofs!Below, ExtProofs!BlockOf, ExtProofs!Blocks, ExtProofs!Content,
  ExtProofs!Covering, ExtProofs!Holes, ExtProofs!Init, ExtProofs!Initialized,
  ExtProofs!Level, ExtProofs!Logical, ExtProofs!Max, ExtProofs!NoRun, ExtProofs!Root,
  ExtProofs!Zero

LEMMA ExtOpenIs == Ext!Open <=> ExtProofs!Open
BY DEF
  Ext!AccessStatus, Ext!Error, Ext!Group, Ext!GroupCount, Ext!Locate, Ext!Max, Ext!Nowhere,
  Ext!Open, Ext!Returns, Ext!RoundedUp, Ext!fileVars, Ext!walkVars, ExtProofs!AccessStatus,
  ExtProofs!Error, ExtProofs!Group, ExtProofs!GroupCount, ExtProofs!Locate, ExtProofs!Max,
  ExtProofs!Nowhere, ExtProofs!Open, ExtProofs!Returns, ExtProofs!RoundedUp,
  ExtProofs!fileVars, ExtProofs!walkVars

LEMMA ExtInlineSymlinkIs == Ext!InlineSymlink <=> ExtProofs!InlineSymlink
BY DEF
  Ext!Appends, Ext!Ends, Ext!InlineSymlink, Ext!Remaining, Ext!Returns, Ext!fileVars,
  Ext!walkVars, ExtProofs!Appends, ExtProofs!Ends, ExtProofs!InlineSymlink,
  ExtProofs!Remaining, ExtProofs!Returns, ExtProofs!fileVars, ExtProofs!walkVars

LEMMA ExtVisitDirectIs == Ext!VisitDirect <=> ExtProofs!VisitDirect
BY DEF
  Ext!After, Ext!Appends, Ext!Below, Ext!Descend, Ext!Error, Ext!FateOf, Ext!IsLeaf,
  Ext!LeaveLevel, Ext!Level, Ext!LevelMark, Ext!Logical, Ext!Max, Ext!Remaining,
  Ext!Returns, Ext!Root, Ext!Visit, Ext!VisitDirect, Ext!Width, Ext!WithinLevel,
  Ext!WriteLeaf, Ext!fileVars, Ext!walkVars, ExtProofs!After, ExtProofs!Appends,
  ExtProofs!Below, ExtProofs!Descend, ExtProofs!Error, ExtProofs!FateOf, ExtProofs!IsLeaf,
  ExtProofs!LeaveLevel, ExtProofs!Level, ExtProofs!LevelMark, ExtProofs!Logical,
  ExtProofs!Max, ExtProofs!Remaining, ExtProofs!Returns, ExtProofs!Root, ExtProofs!Visit,
  ExtProofs!VisitDirect, ExtProofs!Width, ExtProofs!WithinLevel, ExtProofs!WriteLeaf,
  ExtProofs!fileVars, ExtProofs!walkVars

LEMMA ExtVisitSingleIs == Ext!VisitSingle <=> ExtProofs!VisitSingle
BY DEF
  Ext!After, Ext!Appends, Ext!Below, Ext!Descend, Ext!Error, Ext!FateOf, Ext!IsLeaf,
  Ext!LeaveLevel, Ext!Level, Ext!LevelMark, Ext!Logical, Ext!Max, Ext!Remaining,
  Ext!Returns, Ext!Root, Ext!Visit, Ext!VisitSingle, Ext!Width, Ext!WithinLevel,
  Ext!WriteLeaf, Ext!fileVars, Ext!walkVars, ExtProofs!After, ExtProofs!Appends,
  ExtProofs!Below, ExtProofs!Descend, ExtProofs!Error, ExtProofs!FateOf, ExtProofs!IsLeaf,
  ExtProofs!LeaveLevel, ExtProofs!Level, ExtProofs!LevelMark, ExtProofs!Logical,
  ExtProofs!Max, ExtProofs!Remaining, ExtProofs!Returns, ExtProofs!Root, ExtProofs!Visit,
  ExtProofs!VisitSingle, ExtProofs!Width, ExtProofs!WithinLevel, ExtProofs!WriteLeaf,
  ExtProofs!fileVars, ExtProofs!walkVars

LEMMA ExtVisitDoubleIs == Ext!VisitDouble <=> ExtProofs!VisitDouble
BY DEF
  Ext!After, Ext!Appends, Ext!Below, Ext!Descend, Ext!Error, Ext!FateOf, Ext!IsLeaf,
  Ext!LeaveLevel, Ext!Level, Ext!LevelMark, Ext!Logical, Ext!Max, Ext!Remaining,
  Ext!Returns, Ext!Root, Ext!Visit, Ext!VisitDouble, Ext!Width, Ext!WithinLevel,
  Ext!WriteLeaf, Ext!fileVars, Ext!walkVars, ExtProofs!After, ExtProofs!Appends,
  ExtProofs!Below, ExtProofs!Descend, ExtProofs!Error, ExtProofs!FateOf, ExtProofs!IsLeaf,
  ExtProofs!LeaveLevel, ExtProofs!Level, ExtProofs!LevelMark, ExtProofs!Logical,
  ExtProofs!Max, ExtProofs!Remaining, ExtProofs!Returns, ExtProofs!Root, ExtProofs!Visit,
  ExtProofs!VisitDouble, ExtProofs!Width, ExtProofs!WithinLevel, ExtProofs!WriteLeaf,
  ExtProofs!fileVars, ExtProofs!walkVars

LEMMA ExtVisitTripleIs == Ext!VisitTriple <=> ExtProofs!VisitTriple
BY DEF
  Ext!After, Ext!Appends, Ext!Below, Ext!Descend, Ext!Error, Ext!FateOf, Ext!IsLeaf,
  Ext!LeaveLevel, Ext!Level, Ext!LevelMark, Ext!Logical, Ext!Max, Ext!Remaining,
  Ext!Returns, Ext!Root, Ext!Visit, Ext!VisitTriple, Ext!Width, Ext!WithinLevel,
  Ext!WriteLeaf, Ext!fileVars, Ext!walkVars, ExtProofs!After, ExtProofs!Appends,
  ExtProofs!Below, ExtProofs!Descend, ExtProofs!Error, ExtProofs!FateOf, ExtProofs!IsLeaf,
  ExtProofs!LeaveLevel, ExtProofs!Level, ExtProofs!LevelMark, ExtProofs!Logical,
  ExtProofs!Max, ExtProofs!Remaining, ExtProofs!Returns, ExtProofs!Root, ExtProofs!Visit,
  ExtProofs!VisitTriple, ExtProofs!Width, ExtProofs!WithinLevel, ExtProofs!WriteLeaf,
  ExtProofs!fileVars, ExtProofs!walkVars

LEMMA ExtPointersEndIs == Ext!PointersEnd <=> ExtProofs!PointersEnd
BY DEF
  Ext!Ends, Ext!Level, Ext!PointersEnd, Ext!Remaining, Ext!Returns, Ext!fileVars,
  Ext!walkVars, ExtProofs!Ends, ExtProofs!Level, ExtProofs!PointersEnd, ExtProofs!Remaining,
  ExtProofs!Returns, ExtProofs!fileVars, ExtProofs!walkVars

LEMMA ExtCollectIs == Ext!Collect <=> ExtProofs!Collect
BY DEF
  Ext!Collect, Ext!Collected, Ext!Count, Ext!Error, Ext!Missing, Ext!Returns,
  Ext!Uninitialized, Ext!fileVars, Ext!walkVars, ExtProofs!Collect, ExtProofs!Collected,
  ExtProofs!Count, ExtProofs!Error, ExtProofs!Missing, ExtProofs!Returns,
  ExtProofs!Uninitialized, ExtProofs!fileVars, ExtProofs!walkVars

LEMMA ExtEndCollectIs == Ext!EndCollect <=> ExtProofs!EndCollect
BY DEF
  Ext!EndCollect, Ext!Ends, Ext!Returns, Ext!fileVars, Ext!walkVars, ExtProofs!EndCollect,
  ExtProofs!Ends, ExtProofs!Returns, ExtProofs!fileVars, ExtProofs!walkVars

LEMMA ExtTakeRunIs == Ext!TakeRun <=> ExtProofs!TakeRun
BY DEF
  Ext!Appends, Ext!Ends, Ext!FirstRun, Ext!Gap, Ext!Min2, Ext!NoRun, Ext!Remaining,
  Ext!Returns, Ext!TakeRun, Ext!Without, Ext!Zero, Ext!Zeros, Ext!fileVars, Ext!walkVars,
  ExtProofs!Appends, ExtProofs!Ends, ExtProofs!FirstRun, ExtProofs!Gap, ExtProofs!Min2,
  ExtProofs!NoRun, ExtProofs!Remaining, ExtProofs!Returns, ExtProofs!TakeRun,
  ExtProofs!Without, ExtProofs!Zero, ExtProofs!Zeros, ExtProofs!fileVars, ExtProofs!walkVars

LEMMA ExtWriteBlockIs == Ext!WriteBlock <=> ExtProofs!WriteBlock
BY DEF
  Ext!Appends, Ext!Below, Ext!Ends, Ext!Error, Ext!FateOf, Ext!Level, Ext!Logical, Ext!Max,
  Ext!NoRun, Ext!Remaining, Ext!Returns, Ext!RunOver, Ext!WriteBlock, Ext!Zero,
  Ext!fileVars, Ext!walkVars, ExtProofs!Appends, ExtProofs!Below, ExtProofs!Ends,
  ExtProofs!Error, ExtProofs!FateOf, ExtProofs!Level, ExtProofs!Logical, ExtProofs!Max,
  ExtProofs!NoRun, ExtProofs!Remaining, ExtProofs!Returns, ExtProofs!RunOver,
  ExtProofs!WriteBlock, ExtProofs!Zero, ExtProofs!fileVars, ExtProofs!walkVars

LEMMA ExtLeaveRunIs == Ext!LeaveRun <=> ExtProofs!LeaveRun
BY DEF
  Ext!LeaveRun, Ext!NoRun, Ext!Remaining, Ext!RunOver, Ext!fileVars, ExtProofs!LeaveRun,
  ExtProofs!NoRun, ExtProofs!Remaining, ExtProofs!RunOver, ExtProofs!fileVars

LEMMA ExtFillTailIs == Ext!FillTail <=> ExtProofs!FillTail
BY DEF
  Ext!Appends, Ext!FillTail, Ext!NoRun, Ext!Remaining, Ext!Zero, Ext!Zeros, Ext!fileVars,
  Ext!walkVars, ExtProofs!Appends, ExtProofs!FillTail, ExtProofs!NoRun, ExtProofs!Remaining,
  ExtProofs!Zero, ExtProofs!Zeros, ExtProofs!fileVars, ExtProofs!walkVars

LEMMA ExtRunsEndIs == Ext!RunsEnd <=> ExtProofs!RunsEnd
BY DEF
  Ext!Ends, Ext!Remaining, Ext!Returns, Ext!RunsEnd, Ext!fileVars, Ext!walkVars,
  ExtProofs!Ends, ExtProofs!Remaining, ExtProofs!Returns, ExtProofs!RunsEnd,
  ExtProofs!fileVars, ExtProofs!walkVars

LEMMA ExtOutcomeIs == Ext!Outcome = ExtProofs!Outcome
BY DEF Ext!Outcome, ExtProofs!Outcome

LEMMA ExtOrderKeptIs == Ext!OrderKept <=> ExtProofs!OrderKept
BY DEF Ext!OrderKept, Ext!Zero, ExtProofs!OrderKept, ExtProofs!Zero

LEMMA ExtExtentsInPlaceIs == Ext!ExtentsInPlace <=> ExtProofs!ExtentsInPlace
BY DEF
  Ext!Blocks, Ext!Cardinality, Ext!Covering, Ext!ExtentsInPlace, Ext!Initialized,
  Ext!Overlapping, Ext!Zero, ExtProofs!Blocks, ExtProofs!Cardinality, ExtProofs!Covering,
  ExtProofs!ExtentsInPlace, ExtProofs!Initialized, ExtProofs!Overlapping, ExtProofs!Zero

LEMMA ExtSoundIsWholeIs == Ext!SoundIsWhole <=> ExtProofs!SoundIsWhole
BY DEF
  Ext!Blocks, Ext!Cardinality, Ext!Count, Ext!Covering, Ext!FirstTriple, Ext!Initialized,
  Ext!Missing, Ext!NoRuns, Ext!Outcome, Ext!Overlapping, Ext!Sound, Ext!SoundIsWhole,
  Ext!Uninitialized, ExtProofs!Blocks, ExtProofs!Cardinality, ExtProofs!Count,
  ExtProofs!Covering, ExtProofs!FirstTriple, ExtProofs!Initialized, ExtProofs!Missing,
  ExtProofs!NoRuns, ExtProofs!Outcome, ExtProofs!Overlapping, ExtProofs!Sound,
  ExtProofs!SoundIsWhole, ExtProofs!Uninitialized

LEMMA ExtInodesHavePlacesIs == Ext!InodesHavePlaces <=> ExtProofs!InodesHavePlaces
BY DEF
  Ext!Cardinality, Ext!Group, Ext!GroupCount, Ext!InodesHavePlaces, Ext!Locate, Ext!Max,
  Ext!Nowhere, Ext!RoundedUp, ExtProofs!Cardinality, ExtProofs!Group, ExtProofs!GroupCount,
  ExtProofs!InodesHavePlaces, ExtProofs!Locate, ExtProofs!Max, ExtProofs!Nowhere,
  ExtProofs!RoundedUp

LEMMA ExtAssumed == ExtProofs!FilesAssumption
BY RecoveriesAssumption, ExtFilesAssumptionIs

LEMMA ExtStep ==
  ASSUME Ext!Next
  PROVE  ExtProofs!Next
<1>1. CASE Ext!Open \/ Ext!InlineSymlink
  BY <1>1, ExtOpenIs, ExtInlineSymlinkIs DEF ExtProofs!Next
<1>2. CASE Ext!FollowPointers
  BY <1>2, ExtVisitDirectIs, ExtVisitSingleIs, ExtVisitDoubleIs, ExtVisitTripleIs, ExtPointersEndIs
     DEF Ext!FollowPointers, ExtProofs!FollowPointers, ExtProofs!Next
<1>3. CASE Ext!FollowExtents
  BY <1>3, ExtCollectIs, ExtEndCollectIs, ExtTakeRunIs, ExtWriteBlockIs, ExtLeaveRunIs, ExtFillTailIs, ExtRunsEndIs
     DEF Ext!FollowExtents, ExtProofs!FollowExtents, ExtProofs!Next
<1> QED
  BY <1>1, <1>2, <1>3 DEF Ext!Next


-----------------------------------------------------------------------------
\* The call that runs.
IInv ==
  /\ call \in {"ext", "fat", "ntfs", "tombstone"}
  /\ call = "ext" => ExtProofs!ExtInv
  /\ call = "fat" => FatInv
  /\ call = "ntfs" => NtfsInv
  /\ call = "tombstone" => TombInv

LEMMA CallStarts == Init => IInv
<1> SUFFICES ASSUME Init PROVE IInv
  OBVIOUS
<1>1. CASE call = "ext"
  <2>1. Ext!Init
    BY <1>1 DEF Init
  <2> QED
    BY <1>1, <2>1, ExtInitIs, ExtAssumed, ExtProofs!ExtStarts DEF IInv
<1>2. CASE call = "fat"
  <2>1. Fat!Init
    BY <1>2 DEF Init
  <2> QED
    BY <1>2, <2>1, FatStarts, RecoveriesAssumption DEF IInv
<1>3. CASE call = "ntfs"
  <2>1. Ntfs!Init
    BY <1>3 DEF Init
  <2> QED
    BY <1>3, <2>1, NtfsStarts, RecoveriesAssumption DEF IInv
<1>4. CASE call = "tombstone"
  <2>1. Tomb!Init
    BY <1>4 DEF Init
  <2> QED
    BY <1>4, <2>1, TombStarts, RecoveriesAssumption DEF IInv
<1> QED
  BY <1>1, <1>2, <1>3, <1>4 DEF Init

LEMMA CallContinues ==
  ASSUME IInv, [Next]_vars
  PROVE  IInv'
<1>1. call' = call
  BY DEF Next, ExtNext, FatNext, NtfsNext, TombNext, vars
<1>2. CASE call = "ext"
  <2>1. CASE ExtProofs!Next
    BY <1>1, <1>2, <2>1, ExtAssumed, ExtProofs!ExtContinues DEF IInv
  <2>2. CASE UNCHANGED vars
    <3>1. UNCHANGED ExtProofs!vars
      BY <2>2 DEF vars, fileVars, extVars, ExtProofs!vars, ExtProofs!fileVars, ExtProofs!walkVars
    <3> QED
      BY <1>1, <1>2, <3>1, ExtProofs!ExtStutters DEF IInv
  <2> QED
    BY <1>2, <2>1, <2>2, ExtStep DEF Next, ExtNext, FatNext, NtfsNext, TombNext
<1>3. CASE call = "fat"
  <2>1. [Fat!Next]_(Fat!vars)
    <3>1. CASE UNCHANGED vars
      BY <3>1 DEF vars, fileVars, fatVars, Fat!vars, Fat!fileVars
    <3> QED
      BY <1>3, <3>1 DEF Next, ExtNext, FatNext, NtfsNext, TombNext
  <2> QED
    BY <1>1, <1>3, <2>1, FatContinues, RecoveriesAssumption DEF IInv
<1>4. CASE call = "ntfs"
  <2>1. Ntfs!Next \/ UNCHANGED Ntfs!vars
    <3>1. CASE UNCHANGED vars
      BY <3>1 DEF vars, ntfsVars, Ntfs!vars
    <3> QED
      BY <1>4, <3>1 DEF Next, ExtNext, FatNext, NtfsNext, TombNext
  <2> QED
    BY <1>1, <1>4, <2>1, NtfsStep, RecoveriesAssumption DEF IInv
<1>5. CASE call = "tombstone"
  <2>1. Tomb!Next \/ UNCHANGED Tomb!vars
    <3>1. CASE UNCHANGED vars
      BY <3>1 DEF vars, tombVars, Tomb!vars
    <3> QED
      BY <1>5, <3>1 DEF Next, ExtNext, FatNext, NtfsNext, TombNext
  <2> QED
    BY <1>1, <1>5, <2>1, TombStep, RecoveriesAssumption DEF IInv
<1> QED
  BY <1>2, <1>3, <1>4, <1>5 DEF IInv

\* What holds of each call in all its states, as one formula.
THEOREM Invariance == Spec => []IInv
<1>1. Init => IInv
  BY CallStarts
<1>2. IInv /\ [Next]_vars => IInv'
  BY CallContinues
<1> QED
  BY <1>1, <1>2, PTL DEF Spec

\* FAT recovery (fr_recover_fat_candidate_to_file): whatever the table holds, no
\* cluster is copied twice, and where neighbours are taken for a chain that was
\* freed, none that the table allocates is among them.
THEOREM NothingForeignTaken == Spec => []NothingForeign
<1>1. IInv => NothingForeign
  <2> SUFFICES ASSUME IInv, call = "fat"
               PROVE  Fat!NoClusterTwice /\ Fat!NeighboursAreFree
    BY DEF NothingForeign
  <2> QED
    BY DEF IInv, FatInv, FatCopyInv
<1> QED
  BY <1>1, Invariance, PTL

\* FAT recovery: what carries no mark is a chain of the allocation table from the
\* first cluster of the file on, and as long as the file.
THEOREM UnmarkedCorrect == Spec => [](call = "fat" => FatUnmarkedIsChain)
<1>1. IInv => (call = "fat" => FatUnmarkedIsChain)
  BY DEF IInv, FatInv, FatCopyInv
<1> QED
  BY <1>1, Invariance, PTL

\* NTFS export and tombstone recovery: a stream is reported skipped only if it
\* was not exported, a record is reported missing only if no place of the search
\* holds it, every deletion that stands free is listed, and none with a payload
\* is refused.
THEOREM NothingDeniedCorrect == Spec => []NothingDenied
<1>1. IInv => NothingDenied
  <2>1. ASSUME IInv, call = "ntfs" PROVE Ntfs!SkippedIsTold /\ Ntfs!NotFoundIsAbsent
    BY <2>1, NtfsPromises, RecoveriesAssumption DEF IInv
  <2>2. ASSUME IInv, call = "tombstone"
        PROVE  Tomb!EveryDeletionListed /\ Tomb!RefusedIsWithoutPayload
    BY <2>2, ListedIsComplete, RecoveriesAssumption DEF IInv, TombInv
  <2> QED
    BY <2>1, <2>2 DEF NothingDenied
<1> QED
  BY <1>1, Invariance, PTL


\* The partial mark: an NTFS recovery that reports no loss has written every
\* stream whole, and an undamaged inode is marked partial only where it needs the
\* triple tree, or its extents overlap, lack a block or are none.
THEOREM MarksAreRightCorrect == Spec => []MarksAreRight
<1>1. IInv => MarksAreRight
  <2>1. ASSUME IInv, call = "ntfs" PROVE Ntfs!UnmarkedIsWhole
    BY <2>1, NtfsPromises, RecoveriesAssumption DEF IInv
  <2>2. ASSUME IInv, call = "ext" PROVE Ext!SoundIsWhole
    <3>1. ExtProofs!SoundIsWhole
      BY <2>2 DEF IInv, ExtProofs!ExtInv
    <3> QED
      BY <3>1, ExtSoundIsWholeIs
  <2> QED
    BY <2>1, <2>2 DEF MarksAreRight
<1> QED
  BY <1>1, Invariance, PTL

\* No inode has an initialized extent of the longest length, which the code
\* takes for an uninitialized one of no block.
NoLongest == \A f \in ExtFiles : ExtProofs!NoneOfFlag(f)

LEMMA LongestIs == NoLongest <=> ExtProofs!NoLongest
BY DEF NoLongest, ExtProofs!NoLongest

\* What is written is the deleted file's own, each piece in its place: file blocks
\* in rising order and never a hole, extents at their logical blocks, inodes at
\* places of their own, NTFS cells where the runs put them, the payload of the
\* tombstone that was chosen.
THEOREM InPlaceCorrect ==
  ASSUME NoLongest
  PROVE  Spec => []InPlace
<1>1. IInv => InPlace
  <2>1. ASSUME IInv, call = "ext"
        PROVE  Ext!OrderKept /\ Ext!ExtentsInPlace /\ Ext!InodesHavePlaces
    <3>1. ExtProofs!ExtInv
      BY <2>1 DEF IInv
    <3>2. ExtProofs!Reliable
      BY <3>1, LongestIs, ExtProofs!AllReliable
    <3>3. ExtProofs!InodesHavePlaces
      BY <3>1, ExtAssumed, ExtProofs!PlacesHold
    <3>4. ExtProofs!OrderKept /\ ExtProofs!ExtentsInPlace
      BY <3>1, <3>2 DEF ExtProofs!ExtInv
    <3> QED
      BY <3>3, <3>4, ExtOrderKeptIs, ExtExtentsInPlaceIs, ExtInodesHavePlacesIs
  <2>2. ASSUME IInv, call = "ntfs" PROVE Ntfs!CellsInPlace
    BY <2>2, NtfsPromises, RecoveriesAssumption DEF IInv
  <2>3. ASSUME IInv, call = "tombstone" PROVE Tomb!OwnPayload
    BY <2>3 DEF IInv, TombInv
  <2> QED
    BY <2>1, <2>2, <2>3 DEF InPlace
<1> QED
  BY <1>1, Invariance, PTL

-----------------------------------------------------------------------------
\* The contract.
LEMMA ExtStepIsAllowed ==
  ASSUME NoLongest, ExtProofs!ExtInv, call = "ext", call' = call, Ext!Next
  PROVE  [Contract!Next]_(Contract!vars)
<1>1. [ExtProofs!Contract!Next]_(ExtProofs!Contract!vars)
  BY ExtStep, ExtAssumed, LongestIs, ExtProofs!StepIsAllowed
<1>2. /\ Written = output /\ Written' = output'
      /\ Outcome = ExtProofs!Outcome /\ Outcome' = ExtProofs!Outcome'
  BY DEF Written, Outcome, Ext!Outcome, ExtProofs!Outcome
<1> QED
  BY <1>1, <1>2 DEF Contract!Next, Contract!Write, Contract!Complete, Contract!GiveUp, Contract!vars,
    ExtProofs!Contract!Next, ExtProofs!Contract!Write, ExtProofs!Contract!Complete,
    ExtProofs!Contract!GiveUp, ExtProofs!Contract!vars

LEMMA FatCallIsAllowed ==
  ASSUME FatInv, call = "fat", call' = call, FatNext
  PROVE  [Contract!Next]_(Contract!vars)
<1>1. [FatContract!Next]_(FatContract!vars)
  <2>1. Fat!Next
    BY DEF FatNext
  <2> QED
    BY <2>1, FatStepIsAllowed, RecoveriesAssumption
<1>2. /\ Written = output /\ Written' = output'
      /\ Outcome = Fat!Outcome /\ Outcome' = Fat!Outcome'
  BY DEF Written, Outcome
<1> QED
  BY <1>1, <1>2 DEF Contract!Next, Contract!Write, Contract!Complete, Contract!GiveUp, Contract!vars,
    FatContract!Next, FatContract!Write, FatContract!Complete, FatContract!GiveUp, FatContract!vars

LEMMA ContractStarts == Init => Contract!Init
<1>1. ASSUME Init, call = "ext" PROVE Contract!Init
  <2>1. pc = "open" /\ output = <<>>
    BY <1>1 DEF Init, Ext!Init
  <2> QED
    BY <1>1, <2>1 DEF Contract!Init, Written, Outcome, Ext!Outcome
<1>2. ASSUME Init, call = "fat" PROVE Contract!Init
  <2>1. pc = "open" /\ output = <<>>
    BY <1>2 DEF Init, Fat!Init
  <2> QED
    BY <1>2, <2>1 DEF Contract!Init, Written, Outcome, Fat!Outcome
<1>3. ASSUME Init, call \in {"ntfs", "tombstone"} PROVE Contract!Init
  BY <1>3 DEF Contract!Init, Written, Outcome
<1> QED
  BY <1>1, <1>2, <1>3 DEF Init

LEMMA ContractContinues ==
  ASSUME NoLongest, IInv, [Next]_vars
  PROVE  [Contract!Next]_(Contract!vars)
<1>1. CASE ExtNext
  <2>1. call = "ext" /\ call' = call /\ Ext!Next
    BY <1>1 DEF ExtNext
  <2> QED
    BY <2>1, ExtStepIsAllowed DEF IInv
<1>2. CASE FatNext
  <2>1. call = "fat" /\ call' = call
    BY <1>2 DEF FatNext
  <2> QED
    BY <1>2, <2>1, FatCallIsAllowed DEF IInv
<1>3. CASE NtfsNext \/ TombNext
  <2>1. call \in {"ntfs", "tombstone"} /\ call' = call /\ content' = content
    BY <1>3 DEF NtfsNext, TombNext, fileVars
  <2> QED
    BY <2>1 DEF Contract!vars, Written, Outcome
<1>4. CASE UNCHANGED vars
  BY <1>4 DEF vars, fileVars, Contract!vars, Written, Outcome, Ext!Outcome, Fat!Outcome
<1> QED
  BY <1>1, <1>2, <1>3, <1>4 DEF Next

\* Each of the recoveries that follow blocks or clusters implements the contract
\* of a recovered file: the output only grows, and a recovery that ends without
\* a mark has written the content of the file.
THEOREM ContractIsKept ==
  ASSUME NoLongest
  PROVE  Spec => KeepsContract
<1>1. Init => Contract!Init
  BY ContractStarts
<1>2. IInv /\ [Next]_vars => [Contract!Next]_(Contract!vars)
  BY ContractContinues
<1> QED
  BY <1>1, <1>2, Invariance, PTL DEF Spec, KeepsContract, Contract!Spec
=============================================================================
