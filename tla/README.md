# File recovery engine: TLA+ models and proofs

This directory holds TLA+ models of the file recovery engine and its Windows
user interface, the TLC configurations that check them on small instances, and
proofs of their main theorems for the TLA+ proof system. Paths below are
relative to the repository.

| Module | What it is |
| --- | --- |
| `VerifiedImage` | what image acquisition promises, as a small abstract machine |
| `ImageAcquisition` | `AcquireImageAsync`, step by step, with crashes and restarts |
| `RemoteAgent` | the handshake with a remote agent, its runtimes, retries and time limits |
| `RemoteAcquisition` | both together: an acquisition as a whole (run `AcqNetwork`) |
| `MainWindow` | session start, recovery and acquisition handlers of the window, await by await |
| `EngineSessions` | the two session tables of fr-ffi, used by many threads |
| `RaidLayouts`, `RaidAssembly` | the arithmetic of fr-raid; assembling a virtual RAID image and its assessment |
| `RecoveredFile` | what a recovery of a deleted file promises, as a small abstract machine |
| `ExtRecovery`, `FatRecovery`, `NtfsStreams`, `TombstoneScan` | recovering a deleted file: pointers and extents, cluster chains, streams, tombstones of ReFS, APFS, HFS+, XFS and UFS |
| `SourceAccess` | shadow copies, opening a source, reading a range of it |
| `VolumeProbe` | which file system a source holds |
| `FatScan`, `MftRecords`, `QuickScan`, `CarveScan` | looking for deleted files: directories, records, the file table with the change journal, carving |
| `Recoveries`, `Scans` | the recoveries and the scans side by side, with the properties that are checked of all of them |
| `MC...` | instances for TLC: the sets of volumes, files, arrays and requests |
| `AcquisitionProofs` | theorems about `ImageAcquisition` and `RemoteAcquisition` |
| `RaidProofs` | theorems about `RaidLayouts` and `RaidAssembly` |
| `TreeProofs` | the lemmas about `FatScan` and `QuickScan` that `ScansProofs` rests on |
| other `...Proofs` | theorems about the module they are named after |

`tlc -config AcqLocal.cfg MCImageAcquisition` runs a configuration (`PROJECT.json`
names the module of each), `tlapm RaidProofs.tla` checks a proof module. A run
takes from seconds to three or four minutes, a proof module from one minute to a
quarter of an hour.

## 1. The system

The program recovers deleted files from disks, images and RAID members without
writing to them. A Rust engine (`src/engine/crates`) exports a C ABI; a C# window
(`src/ui/windows-app`) calls it, keeps sessions in SQLite and logs in text files,
and acquires images itself.

    MainWindow --(P/Invoke)--> fr-ffi --> fr-session, fr-mft, fr-usn, fr-fat, fr-carving, ...
       |                         |            fr-winio (reads of one open source)
       |                         +-- session tables, artifacts in the temp directory
       +--> FileImageAcquisitionService --> image, state log, custody log, manifest
       |            +--> remote agent (HTTP) for a handshake before the copy
       +--> SqliteSessionStore, SessionLogWriter
       +--> safety validator, storage topology, post-processing (pure)

| Component | State | Operations | What is hard | What makes it correct |
| --- | --- | --- | --- | --- |
| Image acquisition | image, state log, custody log, manifest; per call position, digest, error count | one long call: resume, verify prefix, copy, zero-fill, checkpoint, verdict | crash between any two writes, power loss, read errors, a source that changes, cancellation | a completed log tells the truth about the image; gaps are listed; the custody log has no gap |
| Remote handshake | request id, nonce, attempts | signed request, up to three attempts, checked answer | timeout after execution, late answers, answers completed from the request | no file is touched without an agreement to this request; the handshake ends |
| Operations of the window | one cancellation source, active session, candidates shown | start, recover, acquire, cancel, resume | a new operation replaces the scope of one that waits at an await | a superseded operation only closes; Cancel reaches everything |
| Session registry (`fr-ffi`) | two tables, two counters, artifact files | open and close, from any thread | calls take the locks one after the other | an open session keeps its artifact, none is lost, one close succeeds |
| Virtual RAID | the artifact being written, the layout | detect, override, measure, copy, assess | stripe and parity arithmetic, unequal members, sampling | the array holds each data block once and nothing else |
| Recoveries | output file, what is left, clusters seen | follow runs, chains, extents, pointers, descriptors | loops, gaps, holes, partial reads, damage | what carries no mark is whole; all is in its place |
| Scans and lists | queues, parts of names, index of the table, journal | walk directories, parse records, merge, order | order of entries, stale paths, records of two writes | lists are complete and agree with themselves |
| Carving | window, candidates so far | search, cut, judge, merge | the seams of windows | no short file is lost at a seam |
| Sources | open handle, alignment | list shadow copies, open, read a range, probe | rounding, short reads, headers of other file systems | what is handed over is what was asked for |

Every component, with its status and the reason for it, is in `PROJECT.json`, as
is the list of hazards, each with the line where it bites and the properties that
would catch it.

## 2. Image acquisition

### State and actions

`ImageAcquisition` models `AcquireImageAsync` from its first look at the files
to its return. The unit is a *cell*, a fixed piece of the source; the cell that
was at position `i` of the source at its version `v` is `<<i, v>>`, a
zero-filled cell is `<<0, 0>>`, and a SHA-256 state is the sequence of the cells
hashed (so equal digests mean equal contents, the only thing the code relies
on). The durable state is the image, the state log, the custody log and the
manifest of unreadable ranges; the rest belongs to the call and is lost when the
process dies. Two history variables say what the properties depend on: `power`,
whether the power has failed never, only before the last call began, or since; and
`thrown`, whether the last call threw in its `try` block.

Each await of the code that a crash or a cancellation can separate from the next
is a step: reading the log, opening the image, verifying the prefix chunk by
chunk, reading, seeking after a failed read, writing, flushing, the checkpoint
(log emptied, log written, custody record appended), and for each verdict
(completed, failed, canceled) the custody event, the manifest (emptied, written) and
the log (emptied, written) in the order of the code. Each may fail with an exception, which goes to the handlers
exactly as the nested `try` blocks say. The source may change between two steps,
become shorter, fail to be read, or return fewer cells than asked for.

Abstractions, and why they are sound for the properties:

- The buffer of the `FileStream` is smaller than a chunk; what it holds is lost when
  the process dies (`Crash`) and written when a throw disposes the stream. What has
  reached the operating system survives the process.
- A power loss (`PowerLoss`) is possible at any time, during a call and after it, and
  until the next call begins it may take from every file (`LoseUnflushed`), since the
  code flushes to the operating system only, never to the disk (plain `FlushAsync` at
  lines 408, 1281 and 1321): the end of the image, cells in its middle, what the log or the
  manifest holds, the last custody records. A cell lost in the middle reads as
  zeros, which stand for anything that is not the source's cell. A resumed prefix may
  therefore hold a cell that never was written; the prefix verification of the code
  catches it, and the model shows that it does. Not modelled: that the old contents of
  a file that was emptied, or a file that did not exist, come back, and half a custody
  line.
- Writing the state log, and the manifest, is two steps, empty and then written. A throw
  in between leaves the file empty or, when it is thrown by `FlushAsync` behind the
  serialisation, whole: disposing the stream writes the buffer (`LeftInLog`,
  `LeftInManifest`). So a call that is canceled while it writes "completed" may
  leave that log behind when its handler appends "canceled" to the custody log.
  Appending a custody record is one step: `File.AppendAllTextAsync` of .NET 8 writes the
  line with one unbuffered write, so that a throw means that the line is not there.
- A failed read leaves the stream where it was, as `FileStream` documents.
- Disposing the stream after a flush does not fail.
- One acquisition of an image runs at a time.
- A torn state log makes `TryReadStateAsync` throw outside every handler: the
  call ends without having done anything, so it is no step of the model. That is
  the finding of `AcqTornLog`.

`VerifiedImage` says what a user of the image may rely on: it is vouched for
only with every cell in its place and every gap listed, a new acquisition first
withdraws that, and the image changes only while it is not vouched for or with the
power (`Lose`), from where on nothing is vouched for until an acquisition returns
again. `Returned` maps to it: the log says "completed", the call that wrote it did not
throw on the way out, and the power has not failed since it began.

### The agreement before it

`RemoteAgent` is `ExecuteRemoteAcquisitionHandshakeAsync` with the runtimes behind
it: the choice between the HTTP and the loopback runtime by the form of the
endpoint, each attempt with its time limit, the delays between attempts, the
completion of fields an answer leaves out, and every check of
`ValidateRemoteResponseSession`. A number stands for the id, nonce and session of
a request. The agent and the network are not part of the program and may do
what they like short of forging a signature: lose a request or an answer, carry a
request out without answering, answer late, with fields missing, or with what
answered an earlier request. `RemoteAcquisition` puts it before the acquisition;
late copies of a request may still arrive while the copy runs.

Some facts the model records rather than judges: a request that timed out or was
refused may have been carried out; without a shared key the agreement of the
loopback runtime means nothing; an endpoint that is no URI but contains `://` is
accepted by that runtime without a session even when there is a key.

### Runs

| Run | Instance | Shows |
| --- | --- | --- |
| `AcqLocal` | 4 cells, chunks of 1 or 2, 1 tolerated read error, 3 calls, 1 change of the source (5.5 million states) | every safety property of the image: digest, gaps, places, age, length, error budget, the kept prefix |
| `AcqContract` | 3 cells, chunks of 2, network source, 1 tolerated error, 2 calls (1.7 million states) | the custody log over resumes, throws, crashes and power losses; the refinement of `VerifiedImage`; every call ends |
| `AcqNetwork` | `RemoteAcquisition`: 1 cell, 2 calls, 2 requests of up to 3 attempts (1.4 million states) | no file is touched without the agreement the call needs; every handshake ends |
| `AcqTornLog` | 3 cells, chunks of 2, local source, 3 calls, 2 changes | violated: a crash can leave a log that no later call can read |

Three calls are the first number with a resume of a resume, so that a
checkpoint can be stale twice, and with power losses between them. Four cells in chunks
of two give a second whole chunk behind a checkpoint, three a short last chunk; chunks of
one give more checkpoints, and the chunk size may differ from call to call. One change
lets the source change before or during a resumed call. The custody log needs two calls,
one that leaves a checkpoint, a custody record or a log behind and one that continues; what
the source holds is nothing to it, and nothing to the end of a call. Two requests are the
first number at which one can be answered with the answer to another; the handshake does
not depend on what is copied, so one cell is enough behind it. More cells repeat the same
loop. Deadlock is not checked because the system rests when the calls of the bound have
been made.

`AcquisitionEnds` assumes weak fairness of `Work`, the steps of the running call
itself: an await that was started completes or throws. `HandshakeEnds` assumes it
of `Client`: every attempt is answered, fails or reaches its time limit, and every
delay ends. Nothing is assumed of the user, of the source's changes, of crashes and
power losses, of the agent or of the network.

### Proofs

`AcquisitionProofs` proves, for any number of cells, chunk sizes, calls,
changes and errors, every safety property of `AcqLocal`, both custody properties,
and that every step is a step or a stutter of `VerifiedImage`. The assumptions
are those the module states of its constants.

None of the properties is inductive. `IInv` adds to `TypeOK`: `Control`, where the
streams, the counters and the hash stand at each point of the call, what the manifest
holds on the way to a verdict, and that a throw leads to the handlers; `Progression`,
that versions of the source only grow and why a copy may end early; `HashSound`, that
every hashed cell is the source's cell of its place or counted as unreadable; and
`LogSound`, what a "completed" log says of image and manifest. The last part holds
between calls, until the power fails, and in one window of a running call: the handler
of a throw that left "completed" in the log, whose gaps are still those of the
image. A crash in that window leaves log and image as they are, which is why the window
must be in the invariant. A power loss falsifies only what is conditioned on `power`.

For the custody log `NumbersSound` says that a call numbers its events behind the last
one, and that the checkpoint count never overtakes the events as long as no record was
lost; `EventsSound`, that the "completed" event precedes the "completed" log, in the
window above too. For `ErrorBudget` a third invariant, `BudgetSound`, bounds the
errors of the running call by the threshold and the cells missing so far by the
errors times the chunk; it counts over sets, and so stands apart from `IInv`.

Its second half shows that an acquisition behind a handshake implements
the acquisition alone (`AcquiresAsBefore`), so that the theorems carry over, and
proves `WorksOnAgreement` for any number of requests and attempts: an answer
that passes the checks with a key was signed over this request, and only the agent
signs, when it carries a request out.

Only model-checked: `AcquisitionEnds` and `HandshakeEnds`, which are liveness.

## 3. The window

`MainWindow` models the handlers of Start, Recover, Acquire, Cancel and Resume, the
selection of a source and the typing of a destination. They run on one UI
thread: a handler is atomic from one await that really yields to the next, and at
each such await the user may do anything and older handlers may go on. Calls of
the session store finish before they yield and throw when their token is
canceled; log writes, the hash of the custody log (taken to yield always), the
preview and the acquisition yield and may fail. While a question is on the screen
no button can be clicked. An operation is a slot with its step, what it carries
over its awaits, and whether its token is canceled; `current` is the owner of
`_operationCts`.

| Run | Instance | Shows |
| --- | --- | --- |
| `Workflow` | one disk, one image, two volumes, two operations at a time, one session (488 010 states) | an operation that a newer one has superseded only closes (`SupersededOnlyClose`); Cancel ends whatever runs, previews and superseded operations included, and no session that was started is left without an outcome (`CancelStops`) |
| `UnsafeRecovery` | two sessions | violated: a recovery writes to the volume it reads from, because nothing compares them again |
| `LostOutcome` | two sessions | violated: a session stays "recovering" because its outcome is recorded under another |

Slots are used again, so that any number of operations follow each other; two
running at once are enough for one to overtake another, and a third cancels the
second as the second did the first. `CancelStops` assumes that every await ends,
but not that of a preview or an acquisition that nobody canceled (`Patient`): it
may read for ever. `Workflow` checks for deadlock too: there is no state of the
window in which nobody, the user included, can do anything.

`MainWindowProofs` proves `SupersededOnlyClose` and `StartsSettle` for any number
of operations, sources, volumes and sessions. Neither is inductive. `ScopeSound`
adds that the operation started last owns the cancellation source while it runs,
that every other running one is canceled, and that none of those waits for an
answer of the user: a question was opened by the newest, and no button can be
clicked behind it. `HandsSound` says what an operation has in hand at each await,
and `OutcomesSound` that a session is "initialized" only while its start is still
writing the first logs. Only model-checked: that Cancel ends everything, which is
liveness.

Not in it: what happens when the window opens (loading the last session) or the
process ends, refreshing the list of devices, network sources, retention, the
outcome stored with each candidate, and failures of the store.

## 4. Virtual RAID

`RaidLayouts` is the arithmetic of fr-raid, in blocks of 4 KiB: `validate_layout`
and `validate_disk_order`, the five mappings from an offset of the array to a
member and an offset (`map_raid0`, `map_raid1`, `map_raid4`, `map_raid5`,
`map_raid10`; RAID 6 has none), the manual override, the logical size over
members of any sizes, and the recoverability of a sample when members are
missing. The limits of the code (smallest, largest and default stripe, largest
chunk of the copy) are constants, and `StripesAssumption` states the relation
among them that the code has: powers of two, so that a stripe larger than a
chunk is a whole number of chunks. What detection finds on a member is a record
of the fields a superblock yields; byte offsets, level codes and the confidence
score are not modelled, and neither are the percentage and the wording of an
assessment.

`RaidAssembly` is `fr_open_virtual_raid_session` seen from the data: detection
over the members in the order given, the checks with their statuses (140, 141,
142), the size, the copy of one chunk per step with *one* mapping for its first
block, the errors of reads and writes (31, 44), and afterwards
`fr_assess_raid_degraded_layout`. A block of the artifact is named by where it
was read, `<<member, offset>>`, so the properties speak about where data comes
from.

| Run | Instance | Shows |
| --- | --- | --- |
| `RaidArray` | every level, both rotations, 2 to 4 members, stripes of 1, 2 and 4 blocks, equal, unequal and empty members, missing metadata, overrides good and bad (44 000 states) | the copy follows the mapping, holds each data block once, all of them and no redundancy; a full score is true of the whole array |
| `RaidOrder` | three members passed in another order than the metadata gives | violated: the order is not detected |

The chunk limit is two blocks, so that stripes of one, two and four blocks are
smaller than, equal to and larger than a chunk: the code's 4 KiB to 4 MiB around
its limit of 1 MiB. Four members are the first even number that RAID 10 takes
and give RAID 5 more columns than one. Members of up to six blocks hold at least
one whole row. The sample counts of two and four stand for the code's 8 to 1024,
scaled down with the arrays: fewer than the members, and as many. Deadlock is not
checked: an assembly ends.

`FullMarksMeanWhole` is stated for samples that span a row of stripes, which the
window always requests (96 samples, at most 32 members), and not for RAID 1: its
mapping names no parity member, so the code counts it as recoverable whatever is
missing.

`RaidProofs` proves for all values of the constants that the mapping is
injective for every layout the checks accept (`MappingIsInjective`), that parity
and mirrors never lie where data does (`ParityHoldsNoData`), that a chunk is
contiguous on one member (`ChunkIsContiguous`), and from these `TypeOK`,
`ImageMatchesMap` and `EachBlockOnce` of the assembly. The arithmetic rests on a
few lemmas about quotient and remainder (a number has one decomposition; adding
within a part does not carry; a rotation wraps once); the invariant of the copy
says that its length is a whole number of chunks or the whole array, and that
every block so far is where the mapping says. It is needed because a chunk that
did not start at a multiple of the chunk size could cross a stripe.

The rest of that module is what needs counting: an order without repetition names
every member, so that each place of each row is the data of one column or the
parity (`Covered`), the size of a striped array is a number of whole rows, and
hence nothing is left out (`ArrayIsWhole`); and with parity the data of a row lies
on all members but one, so that a full score leaves at most one member missing
(`FullMarksMeanWhole`). Every invariant of `RaidArray` is thus proved.

## 5. Session registry

`EngineSessions` models the two tables of fr-ffi, each behind its own mutex, the
id and artifact counters and the artifact files. A call is split where it
releases a lock: `fr_open_source_session_readonly` in two steps,
`fr_open_virtual_raid_session` in five with their failures,
`fr_close_source_session` in two and `fr_close_virtual_raid_session` in four,
the middle two being the source close it calls. Any number of threads run calls
at once, with ids that an opening call has returned; the process may end
anywhere, which empties the tables and leaves the files. Calls that read through
a session hold its table's lock from start to end and change nothing here.
Deleting a file succeeds, which on Windows means that no handle is open: the
code removes the session, and with it the handle, first. Poisoned locks (a panic
inside a critical section) are not modelled. The copy that `RaidAssembly`
details is the single step `Assemble` here, since it runs under one lock.

`Sessions` runs three threads, which are enough for two closes and an open to
interleave, with five ids and two artifacts, symmetric in the threads (157 000
states). It shows that an open session's artifact is there (`OpenIsBacked`), that
no artifact is forgotten (`NothingLeaks`), that of all closes of a session one
succeeds (`ClosedOnce`) and that ids are not reused (`NeverReopened`). Deadlock is
not checked: the ids of the bound run out.

`EngineSessionsProofs` proves all five for any number of threads, ids and
artifacts. The invariant says who owns what at every point: a fresh id belongs
to one call until it is returned (`IdsSound`); an artifact has one session or one
opening call (`OneOwner`); a caller inside a close of a virtual session holds
that session's artifact (`CloserHolds`), which is why the second deletion at the
end of that close can only hit its own file; and the account of who removed a
session (`OneClose`) adds up to one.

## 6. Recovering deleted files

A call of the engine holds the lock of all sessions until it returns, so two of
them never interleave. `Recoveries` therefore puts the recoveries side by side: a
behaviour is one call, of the component that `call` names, and the hard part is not
concurrency but damage. The inputs of an initial state are what the call may
find, including what no formatter would write; each read may fail on its own.

| Module | Code | What a step is | Instance |
| --- | --- | --- | --- |
| `ExtRecovery` | `fr_recover_ext_candidate_to_file` | the inode is found; one block, one pointer block or one extent is followed | inodes with 2 direct pointers and pointer blocks of 2, so that the triple indirect tree begins within a handful of blocks (double trees damaged at two nodes, triple ones at one); extent trees with up to 3 entries; up to 3 groups |
| `FatRecovery` | `fr_recover_fat_candidate_to_file` | one cluster along the chain, one free neighbour | volumes of 4 clusters; allocation tables with links to every cluster, outside the volume, freed and final, the last entry one of four; files of up to 4 clusters |
| `NtfsStreams` | `fr_recover_ntfs_candidate_to_file_ex` | one record of the table looked at; one stream begun; one run or one compression unit copied | up to 4 streams of up to 4 clusters, units of 2 clusters, tables of up to 5 records |
| `TombstoneScan` | the five scans and `recover_metadata_payload_candidate_to_file` | one jump of the scan, one of the search, the copy | images of up to 12 units with up to 3 marks |

Data is what it was read from: a cell of an output file is the block or cluster it
came from (or zeros), so that "in its place" can be said at all. Wording, times and
names that decide nothing are left out, the LZNT1 decoder is opaque: a unit
decompresses to what it holds, or does not.

`RecoveredFile` is the contract all of them are to keep: the output grows cell by
cell, never past the size of the file, and a recovery that ends without the
partial mark has written exactly the content. `KeepsContract` shows that ext and
FAT recoveries implement it; for NTFS, whose result is several files,
`UnmarkedIsWhole` says the same.

The run `Recoveries` (427 842 states) checks, over all four:

- `MarksAreRight`: an NTFS recovery without loss flags is whole; an undamaged ext
  inode is not marked partial, except for the cases named in `SoundIsWhole`.
- `InPlace`: blocks follow in the order of the file, extents lie at their logical
  place with their holes, every inode has a place of its own in the tables, cells
  of a stream are in order, a tombstone's payload is its own.
- `NothingForeign`: in FAT no cluster is written twice, however chains loop, and the
  fallback takes no cluster that the table allocates to a file that exists.
- `NothingDenied`: what is reported missing or skipped is, and no tombstone that
  stands free is overlooked.
- `KeepsContract` and `Returned`.

`Returned` assumes that the device and the output file answer or fail. The
volumes are small because loops of the code treat every block alike; each is the
first size at which the next case begins (a third direct block, a second level, a
chain that can loop past its start, a unit after a hole). Deadlock is not checked:
calls return.

### Proofs

Four of the five invariants and the contract are proved for volumes of any size
and whatever stands on them. `RecoveriesProofs` has one invariant per call (its
`IInv` says which holds of the call that runs) and the theorems; what they need of
ext stands in `ExtRecoveryProofs`.

- *FAT.* `seen` holds all that has been written, the copy stands at the table's
  successor of the cluster written last, and it has kept to the table as long as
  it is not marked. From these follow `NothingForeign`, that an unmarked file is a
  chain of the table from its start (`UnmarkedIsChain`), and the contract: a chain
  of a given length from a given start is unique, so an unmarked output is the
  content.
- *ext.* `PointersInv`: what has been written rises with the blocks of the file and
  ends before the first block below the place in the tree, so that no level can
  give a block twice. `ExtentsInv` (`Placed`): every block so far lies at its logical
  place, and between two of them are zeros. `Excused` collects the reasons for
  which an undamaged inode may be marked, and `SoundIsWhole` is read off it. That
  inodes have places of their own (`InodesHavePlaces`) is arithmetic on groups and
  tables that do not overlap: a bijection with the numbers of the inodes.
- *NTFS.* Streams before the one being written are exported whole or told to be
  skipped (`NtfsSkipped`), records before the place of the search are not the one
  sought (`NtfsSearched`), and the cells of the stream being written are where
  runs and units put them (`NtfsPlaced`).
- *Tombstones.* What the scan has passed is listed as far as it stands free of
  other records (`ListedBefore`), the search has passed no match (`SearchedBefore`).

`InPlace` and `KeepsContract` have a hypothesis, `NoLongest`: no file has an
initialized extent of 32768 blocks. Such an extent is read as one of no length (see
the observations below), and with it both statements are false; the instance
has none in the files these properties speak about.

Where a statement is about all numbers below some bound, the proofs use that a
non-empty set of naturals has a least element (`Least`, from the well-founded
induction of the library) instead of an induction with an operator.

Only model-checked of this run: `Returned`.

## 7. Sources, scans and carving

`Scans` puts these side by side in the same way.

| Module | Code | What a step is | Instance |
| --- | --- | --- | --- |
| `SourceAccess` | `fr_list_vss_snapshots`, `fr_open_source_session_readonly` with fr-winio, `read_from_session` | the list, the opening, one read of the device | devices of up to 8 granules with sectors of 1 to 3, every range, reads of any length; up to 3 shadow copies |
| `VolumeProbe` | the probes in the order of the window and what each crate's parser accepts | one probe, the listing | volumes formatted as NTFS, ReFS, FAT32, exFAT, ext, XFS, UFS, APFS and HFS+ with sectors of 512 to 4096 bytes, headers damaged field by field, sources that are short, unreadable or of unknown size |
| `FatScan` | `fr_get_fat_deleted_candidates_from_session`, `scan_fat32_deleted_entries`, `scan_exfat_deleted_entries` | one slot of a directory (FAT32) or one entry set (exFAT) | 4 clusters, of which 3 are read at most, 5 entries |
| `MftRecords` | `parse_mft_record` | one sector restored, one attribute, one mapping pair | records of two writes, attributes of every length, mapping pairs byte by byte |
| `QuickScan` | `fr_get_ntfs_quick_scan_candidates_from_session_with_usn`, fr-session, fr-usn | one record of the table; then paths, order, journal, matches and ghosts | tables with gaps of up to the limit of 2 empty records, directories deeper than the path limit of 4, journals in any order |
| `CarveScan` | `RunStreamingCarveScan`, `carve_bytes`, fr-validator | one window | two cells are the overlap (1 MiB); windows begin every 4 cells, for the 64 MiB of the code; sources of up to 13 cells, one or two files at every place, under each rule for a file's end |

The run `Scans` (319 012 states) checks:

- `VolumesAreListed`: nothing the scans divide or step by is 0, an intact volume is
  listed as what it was formatted as, the listing accepts what the probe accepts,
  and the usable shadow copies are offered, all of them and the newest first.
- `WholeTree`: each deleted FAT32 entry of a directory reached from the root is listed
  once and under its own name. An entry counts if it has a name, long or short; a
  directory is entered unless part of its name is a dot entry's.
- `NothingPassedOver`, `PathsAgree`: every record before the end of the table becomes
  a candidate, deletions only the journal knows are listed, the journal's last name
  wins in whatever order it was read, and paths agree after it renamed directories.
- `RecordsAreGenuine`: no attribute is put together from two writes, and what was
  written whole is parsed, with the cluster runs as encoded.
- `ReadsTheRange`: what is handed over is the range asked for, and rounding it to
  whole sectors never makes a readable one fail.
- `CarvedIsReal`: a candidate begins with a head of its format, an unmarked one holds
  its file, and a file no longer than the overlap is found whole at every seam.
- `Returned`, with the types. Quick scans of long paths are left out of it, since
  TLC takes too long over their enabledness; `EndVolumes` holds the tables at whose
  end, gaps and errors a scan must stop. The fairness is that of `Recoveries`.

### Proofs

`ScansProofs` proves all six invariants of the run, for all sources. Its `IInv` says
which invariant holds of the call that runs; those of the calls that walk a tree
of directories are in `TreeProofs`.

- `ReadsTheRange`, for every sector size, device, offset and length and for reads
  however short. What has been read so far lies without a gap behind the aligned
  offset (`AccessInv`); widening contains the range; and while the device can be read
  in whole sectors, every read begins at one (`AccessWhole`).
- `VolumesAreListed`. For the probes (`ProbeInv`) every earlier probe has refused
  the volume. A formatted one carries the magic of its own file system and of no
  other (`HasItsMagic`), so that no earlier probe takes it, and sizes its format
  allows (`SizesAllowed`), so that its own does; that is what `VolumeAssumption` says of the
  volumes with a known formatting, and all others may hold anything. exFAT
  volumes of more than 128 sectors per cluster are left out by the property, since
  the code refuses them. For the shadow copies (`SnapInv`), the order is a strict total
  one on the entries, so that each has a rank of its own and the list is the entries
  by rank (`Orders`, `Preceding`, `Ranks`).
- `CarvedIsReal`. Every file that begins before the window and fits into the overlap
  has been found (`Covered`): the next window begins where the overlap of the last
  one does, so that such a file lies in one of them, and what a window yields is
  kept by the merge. Every candidate is one that some window cuts (`CarveInv`).
- `RecordsAreGenuine`. Every sector restored so far is of one write
  (`SectorsFixed`), the attributes found are apart from each other (`AttributesApart`), and
  of a record written whole the walk has found exactly the attributes it has passed
  (`WrittenSoFar`). What was encoded in the mapping pairs is decoded (`RunsDecode`):
  `Encodes` is the writer's side (which byte each piece starts at, and that a distance
  counts from the last run that was not sparse), the parser's is a recursion from the
  last piece backwards (`RawIs`) and a running sum (`PlacesFollow`). How a number lies
  in its bytes is read the same way on both sides and is not a subject of the proof.

- `WholeTree`. Of the directory being read, as many entries are listed as there are
  deleted slots among those read, and each directory these lead to is known, as
  visited or in the queue (`Taken`). All other visited directories have been read to
  their end (`Scanned`), and a directory is visited once. When the queue is empty,
  what is known is visited, so the visited directories hold the root and what is
  below each of them, and all that is reached from the root is among them
  (`ReachableIs`). For the names, the parts gathered are the texts of the long slots
  directly before the place (`PartsAre`), so that they belong to the slot that
  follows (`SameOwner`).
- `NothingPassedOver` and `PathsAgree`. `QuickInv` says what is known of the list in
  each phase: the table up to the record read is in it (`HoldsTable`) and no gap has
  the length of the limit (`Swept`); then it has paths (`HasPaths`), is in order
  (`Recency`), and each candidate bears the newest name the journal has for its
  number (`Noted`). A path follows parents up to the top, to a loop or to the limit
  of its length: `WayIs` and `WaysGrow` say so of the way up, and `PathsFollow` that the
  path of a file is that of its directory with its own name, which is why paths
  that are built again after a rename agree. The sort is proved by ranks, as
  that of the shadow copies. A match with the journal never lowers the certainty of
  a candidate, case by case over the evidence.

The recursions of the model (ways up, slots joined, directories reached) are
reasoned about through sets of numbers: one that holds 0 and the successor of each
of its members holds all naturals (`Inductive`), which follows from `NatLeast`.

Only model-checked: `Returned`.

## 8. Findings

1. `AcqTornLog` (`FileImageAcquisitionService.cs:1273`). The state log is emptied
   before it is written, so that a crash in between leaves a log no later call can
   parse, and no later call can acquire to that image; the documents promise
   "resume-safe checkpoint logs".
2. `RaidOrder` (`fr-raid/src/lib.rs:281`). The member order is always the one the
   members were passed in, although the phase 14 plan says that it is detected from
   metadata.
3. `UnsafeRecovery` (`MainWindow.xaml.cs:4395`). Source and destination are compared
   when a session is started. A destination typed, or a source selected, after that
   is never compared, and the recovery writes onto the volume it reads. The documents
   say "Enforce destination separation again before writes."
   (`docs/recovery-pipeline.md:55`) and "Recovery cannot start if separation checks
   fail." (`docs/user-safety.md:7`).
4. `LostOutcome` (`MainWindow.xaml.cs:4980`). A recovery records that it began under the
   session active then, and its outcome under the session active when it ends. A
   session started in between gets the outcome, and the old one stays "recovering".
   `docs/user-safety.md:20` promises "Session status/error propagation persisted for
   cancellation and failure outcomes."

### Other observations

Behaviour the models follow, met while writing them, that no document speaks
against or that is a limit rather than a fault. A property that would be false for
one of these excludes it by name.

- *Window.* The recovery reads the source selected when it runs, not the one its
  candidates were found on. The scan of Start runs on the UI thread, so that Cancel is
  not dispatched while it lasts (compare `docs/user-safety.md:19`). An acquisition
  canceled once its image is being turned into a source still lists and selects it
  (`MainWindow.xaml.cs:731-733`). A Start that fails or is aborted after the scan
  leaves the new rows with the old session, under which a recovery then stores its
  outcomes by position. A Resume while a Start waits replaces the rows the Start then
  stores. The destination is read again when the session is created, after it was
  validated. A Start that is blocked keeps the cancellation source.
- *Acquisition.* A completed log promises nothing after a power loss: neither the image
  (`FileImageAcquisitionService.cs:408`) nor the log (1281) is flushed to the disk, so that
  the log may be there and cells of the image not. A call canceled, or failing, while it
  writes the "completed" log may leave that log; when the process dies, or the handler
  fails, before the handler has emptied it, the last custody event says "canceled" or
  "failed" and the manifest of an image with gaps may be empty.
- *ext.* An extent of 32768 blocks, the longest an initialized one can be, is read as
  one of none: its place becomes zeros, without a mark. A file with a triple indirect
  tree is always marked partial, and an extent file without any written block is
  refused.
- *FAT.* A start cluster that a new file has taken since is followed without a mark,
  along that file's chain. For exFAT the bit that says a file has no chain is not looked
  at: a deleted contiguous file is always marked partial, and the fallback may take
  clusters of a live contiguous file, whose table entries are zero. exFAT volumes of
  more than 128 sectors per cluster are refused.
- *NTFS.* Two streams whose names become the same sidecar path share one file.
- *APFS, XFS.* The scan goes on behind a record, which is 316 bytes long, in steps of 8
  bytes, and so leaves the grid it started on: records on the old one are missed.
- *Sources.* The paths of shadow copies that the list offers are refused by the rule
  for volume paths (`fr-winio/src/lib.rs:104`).
- *Lists.* Ghosts are appended behind the sorted list. A live record that could not be
  parsed and that the journal names appears as a ghost.
- *Carving.* A file in the overlap of two windows may be listed twice, once as far as
  the first window shows it. A zip, mp4 or jpg cut before its end may carry no mark. When
  the buffer of a window is full, the rest of its candidates is dropped.
- *RAID.* A RAID 1 counts as recoverable whatever is missing, since its mapping names
  no parity member.

## 9. Properties and mutants

For each property of a passing run `PROJECT.json` names a change of one definition,
of the kind a bug in that code would make, under which TLC finds the property
violated: a comparison dropped, a chunk not cut at the stripe, a seek left out, an id
read after it is counted. The changed forms stand beside the originals, commented as
mutants.

## 10. What is proved and what is only checked

| Module | Proved for all values of the constants | Only model-checked |
| --- | --- | --- |
| `ImageAcquisition`, `RemoteAcquisition` | every safety and action property, the refinement of `VerifiedImage`; acquisition behind a handshake implements acquisition | `AcquisitionEnds`, `HandshakeEnds` |
| `MainWindow` | `SupersededOnlyClose`, `StartsSettle` | the rest of `CancelStops` |
| `EngineSessions` | all five properties | |
| `RaidLayouts`, `RaidAssembly` | all five properties, injectivity of the mapping | |
| `FatRecovery` | `NothingForeign`, an unmarked file is a chain, the refinement of `RecoveredFile` | `Returned` |
| `ExtRecovery` | `MarksAreRight`, `InPlace`, the refinement of `RecoveredFile` | `Returned` |
| `NtfsStreams`, `TombstoneScan` | `MarksAreRight`, `InPlace`, `NothingDenied` | `Returned` |
| `SourceAccess`, `VolumeProbe` | `ReadsTheRange`, `VolumesAreListed` | `Returned` |
| `MftRecords`, `CarveScan` | `RecordsAreGenuine`, the decoding of mapping pairs, `CarvedIsReal` | `Returned` |
| `FatScan`, `QuickScan` | `WholeTree`, `NothingPassedOver`, `PathsAgree` | `Returned` |

Every invariant and every action property of a passing run is proved. Liveness under
fairness is out of the prover's reach. The instances of the runs stay small, and
chosen along the dimension that matters: directories whose entries lead everywhere,
tables with gaps up to the limit, journals in any order.

The theorems rest on the named assumptions of the modules about their constants,
which TLC evaluates for each instance, and two of them on the hypothesis `NoLongest`
that they state.

## 11. Not modelled

- *Byte formats.* Offsets of superblock, journal and attribute fields, level codes, magic
  numbers, UTF-16, times, and the byte checks of single validators: constants in
  tables, better compared with samples. The models begin with the fields that are read
  and keep every decision taken on them.
- *Opaque algorithms.* LZNT1, SHA-256, HMAC: what they return is part of the input. Carving
  by entropy and by packs of user signatures is left out.
- *Scores and wording.* Confidence scores and the percentage of an assessment, as far as
  nothing is decided on them.
- *Code without state.* Post-processing and the tree of the list, the safety validator's
  rules for shares and mounted folders, WinPE detection, device enumeration and health:
  functions of one call's input.
- *The store behind its interface.* Retention, migration and the SQL of the session store;
  the model of the window uses what the handlers see of it.
- *Code the program does not call.* The session orchestrator, the probe of the NTFS log
  file and the matching through its hints (fr-session 712-793) are called by tests only;
  the stubs have no behaviour.
- *Marshalling, benchmarks and scripts.* Buffer sizes and status codes of P/Invoke; build
  and fixture tooling.
- *Parts of modelled components.* Path checks and throttling of an acquisition; the scan
  of the ext inode table, one loop with a filter; the loop of the preview over chunks;
  the JSON of the shadow copy tool; the Windows calls that find out sizes; the import of
  sessions, network sources, the export of reports and the loading of the last session
  when the window opens.
