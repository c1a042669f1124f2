----------------------------- MODULE VolumeProbe -----------------------------
(***************************************************************************)
(* Which file system a source holds: the scan of the main window probes    *)
(* one after the other (fr_probe_*_from_session), each reads a header and  *)
(* parses it, and the first that accepts it has its deleted files listed.  *)
(* All sizes are in bytes.                                                 *)
(***************************************************************************)
EXTENDS Integers, Sequences, FiniteSets, SequencesExt

CONSTANTS
  Volumes,       \* the sources scanned: see IsVolume
  DefaultPrefix, \* DEFAULT_SCAN_BYTES, read of a source of unknown size
  MaxPrefix      \* MAX_SCAN_BYTES

VARIABLES
  volume,        \* the source
  pc,
  at,            \* the probe whose turn it is, in Order
  probe,         \* the status of the last probe made
  geometry,      \* what the accepted header says
  status,        \* of the listing
  loaded         \* were deleted files listed

vars == <<volume, pc, at, probe, geometry, status, loaded>>

Order == <<"ntfs", "refs", "ext", "xfs", "ufs", "apfs", "hfs", "fat">>

\* Per file system: the bytes the probe reads, the least the listing needs,
\* the status of a header that is refused, and where in the source the header
\* ends.
LongestHeader == 16384
HeaderSize ==
  [ntfs |-> 512, refs |-> 512, ext |-> 4096, xfs |-> 4096, ufs |-> LongestHeader,
   apfs |-> 4096, hfs |-> 2048, fat |-> 512]
ListedFrom == [HeaderSize EXCEPT !.ext = 2048]
Refused ==
  [ntfs |-> 30, refs |-> 80, ext |-> 90, xfs |-> 120, ufs |-> 130, apfs |-> 100,
   hfs |-> 110, fat |-> 70]

-----------------------------------------------------------------------------
(* Headers *)

Byte == 0 .. 255
Word == 0 .. 65535
SignedByte == -128 .. 127

\* boot: the fields of the first sector, of whatever format.  ext, hfs, apfs,
\* ufs, xfs: magic (does it carry one the parser knows) and the sizes read.
\* as: the file system the volume was formatted with (see IsFormatted), "none"
\* when the headers are damaged.  size: known to Windows or not.  broken: the
\* bytes, counted in sectors of 512, that cannot be read.  scanned: does the scan
\* behind an accepted NTFS or FAT header succeed (modules FatScan and QuickScan).
IsVolume(v) ==
  /\ v.size \in Nat /\ v.known \in BOOLEAN /\ v.broken \subseteq Nat
  /\ v.scanned \in BOOLEAN /\ v.as \in ToSet(Order) \cup {"none"}
  /\ v.boot.oem \in {"ntfs", "refs", "exfat", "other"} /\ v.boot.signature \in BOOLEAN
  /\ v.boot.sector \in Word /\ v.boot.cluster \in Byte
  /\ {v.boot.fats, v.boot.fat16, v.boot.fat32, v.boot.root,
      v.boot.sectorShift, v.boot.clusterShift} \subseteq Nat
  /\ v.boot.record \in SignedByte /\ v.boot.index \in SignedByte
  /\ v.ext.magic \in BOOLEAN /\ v.ext.shift \in Nat /\ v.ext.inode \in Nat
  /\ v.hfs.magic \in BOOLEAN /\ v.hfs.version \in Nat
  /\ {v.hfs.block, v.hfs.blocks, v.apfs.block, v.apfs.blocks, v.ufs.block,
      v.ufs.fragment, v.ufs.blocks, v.xfs.block, v.xfs.inode, v.xfs.groups,
      v.xfs.blocks} \subseteq Nat

\* 1 << k, and is_power_of_two of what the headers hold.
Pow2(k) == 2 ^ k
IsPower(n) == \E k \in 0 .. 30 : n = Pow2(k)

\* A block of XFS, UFS or APFS has at most this size.
MaxBlock == 65536
IsBlock(n, least) == IsPower(n) /\ n \in least .. MaxBlock

\* is_valid_sector_size, of FAT.
IsSectorSize(n) == n \in 512 .. 4096 /\ IsPower(n)

\* What formatting writes: the magic of the file system and of no other, and the
\* sizes that its format allows.
HasItsMagic(v) ==
  /\ v.boot.oem = "ntfs" <=> v.as = "ntfs"
  /\ v.boot.oem = "refs" <=> v.as = "refs"
  /\ v.ext.magic <=> v.as = "ext"
  /\ v.xfs.magic <=> v.as = "xfs"
  /\ v.ufs.magic <=> v.as = "ufs"
  /\ v.apfs.magic <=> v.as = "apfs"
  /\ v.hfs.magic <=> v.as = "hfs"

SizesAllowed(v) ==
  /\ v.as \in {"ntfs", "refs"} =>
       v.boot.sector >= 512 /\ IsPower(v.boot.sector) /\ IsPower(v.boot.cluster)
  /\ v.as = "ntfs" =>
       v.boot.signature /\ {v.boot.record, v.boot.index} \subseteq (-31 .. -1) \cup (1 .. 127)
  /\ v.as = "ext" => v.ext.shift <= 6 /\ v.ext.inode \in {128, 256, 512, 1024, 2048, 4096}
  /\ v.as = "xfs" =>
       /\ IsBlock(v.xfs.block, 512)
       /\ v.xfs.inode \in 256 .. 2048 /\ IsPower(v.xfs.inode)
       /\ v.xfs.groups > 0 /\ v.xfs.blocks > 0
  /\ v.as = "ufs" =>
       /\ IsBlock(v.ufs.block, 4096)
       /\ v.ufs.fragment \in 1 .. v.ufs.block /\ v.ufs.blocks > 0
  /\ v.as = "apfs" =>
       IsBlock(v.apfs.block, 4096) /\ v.apfs.blocks > 0
  /\ v.as = "hfs" =>
       v.hfs.version \in {4, 5} /\ v.hfs.block >= 512 /\ IsPower(v.hfs.block) /\ v.hfs.blocks > 0
  /\ v.as = "fat" =>
       /\ v.boot.signature /\ v.boot.fats > 0 /\ v.boot.root >= 2
       /\ v.boot.oem = "exfat" =>
            v.boot.sectorShift \in 9 .. 12 /\ v.boot.sectorShift + v.boot.clusterShift <= 25
       /\ v.boot.oem = "other" =>
            /\ IsSectorSize(v.boot.sector) /\ IsPower(v.boot.cluster) /\ v.boot.fat16 = 0
            /\ v.boot.fat32 > 0

IsFormatted(v) == v.size >= LongestHeader /\ HasItsMagic(v) /\ SizesAllowed(v)

\* The prefix holds the header of every file system.
VolumeAssumption ==
  /\ \A v \in Volumes : IsVolume(v) /\ (v.as # "none" => IsFormatted(v))
  /\ DefaultPrefix \in Nat \ {0} /\ MaxPrefix \in Nat /\ MaxPrefix >= LongestHeader

NoGeometry == [block |-> 0, others |-> {}]
Geometry(block, others) == [block |-> block, others |-> others]

\* decode_record_size: clusters, or the exponent of a size; 0 for none.
RecordSize(raw, cluster) ==
  CASE raw > 0 -> cluster * raw
    [] raw < 0 /\ raw > -32 -> Pow2(-raw)
    [] OTHER -> 0

\* Per file system: is the header one that its parser accepts, and what it says.
NtfsSizes(b) ==
  {RecordSize(b.record, b.sector * b.cluster), RecordSize(b.index, b.sector * b.cluster)}
IsNtfs(b) ==
  b.oem = "ntfs" /\ b.signature /\ IsPower(b.sector) /\ IsPower(b.cluster) /\ 0 \notin NtfsSizes(b)
NtfsGeometry(b) == Geometry(b.sector * b.cluster, NtfsSizes(b))

IsRefs(b) == b.oem = "refs" /\ b.sector >= 512 /\ IsPower(b.sector) /\ IsPower(b.cluster)
RefsGeometry(b) == Geometry(b.sector * b.cluster, {b.sector})

IsExt(e) == e.magic /\ e.shift <= 6 /\ e.inode \in 128 .. 4096 /\ e.inode % 4 = 0
ExtGeometry(e) == Geometry(1024 * Pow2(e.shift), {e.inode})

IsXfs(x) ==
  /\ x.magic /\ x.groups # 0 /\ x.blocks # 0
  /\ IsBlock(x.block, 512)
  /\ x.inode \in 256 .. 4096 /\ IsPower(x.inode)
XfsGeometry(x) == Geometry(x.block, {x.inode})

IsUfs(u) ==
  /\ u.magic /\ u.blocks # 0
  /\ IsBlock(u.block, 512) /\ u.fragment \in 1 .. u.block
UfsGeometry(u) == Geometry(u.block, {u.fragment})

IsApfs(a) == a.magic /\ IsBlock(a.block, 4096) /\ a.blocks # 0
ApfsGeometry(a) == Geometry(a.block, {})

IsHfs(h) ==
  h.magic /\ h.version \in {4, 5} /\ h.block >= 512 /\ IsPower(h.block) /\ h.blocks # 0
HfsGeometry(h) == Geometry(h.block, {})

\* parse_fat32_boot_sector.
IsClusterFactor(n) == n # 0 /\ IsPower(n)

IsFat32(b) ==
  /\ b.signature /\ IsSectorSize(b.sector) /\ IsClusterFactor(b.cluster)
  /\ b.fats # 0 /\ b.fat16 = 0 /\ b.fat32 # 0 /\ b.root >= 2
Fat32Geometry(b) == Geometry(b.sector * b.cluster, {b.sector})

\* parse_exfat_boot_sector: the cluster factor is kept in one byte.
InOneByte(shift) == IF shift < 8 THEN Pow2(shift) ELSE 0

IsExfat(b) ==
  /\ b.signature /\ b.sectorShift \in 9 .. 12 /\ b.clusterShift <= 12
  /\ IsClusterFactor(InOneByte(b.clusterShift)) /\ b.fats # 0 /\ b.root >= 2
ExfatGeometry(b) ==
  Geometry(Pow2(b.sectorShift) * InOneByte(b.clusterShift), {Pow2(b.sectorShift)})

Accepted(fs) ==
  CASE fs = "ntfs" -> IsNtfs(volume.boot)
    [] fs = "refs" -> IsRefs(volume.boot)
    [] fs = "ext" -> IsExt(volume.ext)
    [] fs = "xfs" -> IsXfs(volume.xfs)
    [] fs = "ufs" -> IsUfs(volume.ufs)
    [] fs = "apfs" -> IsApfs(volume.apfs)
    [] fs = "hfs" -> IsHfs(volume.hfs)
    [] fs = "fat" -> IF volume.boot.oem = "exfat" THEN IsExfat(volume.boot)
                                                  ELSE IsFat32(volume.boot)

Measured(fs) ==
  CASE fs = "ntfs" -> NtfsGeometry(volume.boot)
    [] fs = "refs" -> RefsGeometry(volume.boot)
    [] fs = "ext" -> ExtGeometry(volume.ext)
    [] fs = "xfs" -> XfsGeometry(volume.xfs)
    [] fs = "ufs" -> UfsGeometry(volume.ufs)
    [] fs = "apfs" -> ApfsGeometry(volume.apfs)
    [] fs = "hfs" -> HfsGeometry(volume.hfs)
    [] fs = "fat" -> IF volume.boot.oem = "exfat" THEN ExfatGeometry(volume.boot)
                                                  ELSE Fat32Geometry(volume.boot)

-----------------------------------------------------------------------------
(* Probing and listing *)

SmallerOf(a, b) == IF a <= b THEN a ELSE b

\* Reading so many bytes from the start: 31 beyond the end, 14 when Windows
\* cannot read them.
ReadStatus(n) ==
  CASE \E i \in volume.broken : i * 512 < SmallerOf(n, volume.size) -> 14
    [] n > volume.size /\ ~ \E i \in volume.broken : i * 512 < SmallerOf(n, volume.size) -> 31
    [] OTHER -> 0

\* What fr_probe_* and the listings return; the header decides last.
Judged(fs, read) ==
  IF read # 0 THEN read ELSE IF Accepted(fs) THEN 0 ELSE Refused[fs]

ProbeStatus(fs) == Judged(fs, ReadStatus(HeaderSize[fs]))

AlwaysMax == MaxPrefix                                    \* mutant of PrefixSize
PrefixSize == SmallerOf(IF volume.known THEN volume.size ELSE DefaultPrefix, MaxPrefix)

ListStatus(fs) ==
  LET read == IF PrefixSize = 0 THEN 31 ELSE ReadStatus(PrefixSize)
  IN CASE fs = "ntfs" -> IF volume.scanned THEN 0 ELSE 14
       [] fs # "ntfs" /\ read = 0 /\ PrefixSize < ListedFrom[fs] -> 31
       [] fs = "fat" /\ Judged(fs, read) = 0 /\ ~volume.scanned -> 72
       [] OTHER -> Judged(fs, read)

Init ==
  /\ volume \in Volumes
  /\ pc = "probe"
  /\ at = 1
  /\ probe = 0
  /\ geometry = NoGeometry
  /\ status = 0
  /\ loaded = FALSE

AfterRefusal == IF at = Len(Order) THEN "done" ELSE "probe"

NextAt(s) == IF at = Len(Order) THEN at ELSE at + 1

\* A probe that fails, for whatever reason, lets the next one try.
Probe ==
  /\ pc = "probe"
  /\ LET s == ProbeStatus(Order[at])
     IN /\ probe' = s
        /\ IF s = 0
           THEN pc' = "list" /\ geometry' = Measured(Order[at]) /\ UNCHANGED at
           ELSE /\ pc' = AfterRefusal
                /\ at' = NextAt(s)
                /\ UNCHANGED geometry
  /\ UNCHANGED <<volume, status, loaded>>

List ==
  /\ pc = "list"
  /\ status' = ListStatus(Order[at])
  /\ loaded' = (status' = 0)
  /\ pc' = "done"
  /\ UNCHANGED <<volume, at, probe, geometry>>

\* Between two calls of the engine; the listing of ReFS follows its probe.
Cancel ==
  /\ pc = "probe" \/ (pc = "list" /\ Order[at] # "refs")
  /\ pc' = "cancelled"
  /\ UNCHANGED <<volume, at, probe, geometry, status, loaded>>

Next == Probe \/ List \/ Cancel

Spec == Init /\ [][Next]_vars

-----------------------------------------------------------------------------
(* Properties *)

\* A header is there as soon as a probe accepted one, and scanning gives up only
\* when every probe has refused.
TypeOK ==
  /\ pc \in {"probe", "list", "done", "cancelled"}
  /\ at \in DOMAIN Order
  /\ pc = "list" \/ loaded => probe = 0 /\ geometry # NoGeometry
  /\ pc = "done" /\ geometry = NoGeometry => at = Len(Order) /\ probe # 0

\* What an accepted header says can be worked with: a block size that is a
\* power of two, and no size of 0 for a scan to divide by.
GeometrySound ==
  pc = "list" => /\ IsPower(geometry.block)
                 /\ \A n \in geometry.others : n > 0

\* A volume that can be read and was formatted with one of the file systems is
\* listed as that one: no earlier probe takes it, its own does.
FormattedIsListed ==
  pc = "done" /\ volume.as # "none" /\ volume.broken = {} /\ volume.known
  /\ volume.scanned /\ ~(volume.boot.oem = "exfat" /\ volume.boot.clusterShift > 7)
  => loaded /\ Order[at] = volume.as

\* The listing parses the header again, behind another read: where the probe
\* accepted it and the size of the source is known, the listing does not find it
\* missing or invalid.
ListingAgrees ==
  pc = "done" /\ probe = 0 /\ volume.known
  => status \in {0, 14, 72}
=============================================================================
