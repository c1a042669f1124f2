---------------------------- MODULE MCVolumeProbe ----------------------------
(* Instances of VolumeProbe for TLC: volumes formatted with every file       *)
(* system in every size its format allows, volumes whose headers are         *)
(* damaged field by field, and sources that are small, of unknown size or    *)
(* unreadable in places.                                                     *)
EXTENDS VolumeProbe

Boot == [oem |-> "other", signature |-> FALSE, sector |-> 0, cluster |-> 0, record |-> 0,
         index |-> 0, fats |-> 0, fat16 |-> 0, fat32 |-> 0, root |-> 0, sectorShift |-> 0,
         clusterShift |-> 0]

Blank ==
  [size |-> 65536, known |-> TRUE, broken |-> {}, scanned |-> TRUE, as |-> "none",
   boot |-> Boot, ext |-> [magic |-> FALSE, shift |-> 0, inode |-> 0],
   hfs |-> [magic |-> FALSE, version |-> 0, block |-> 0, blocks |-> 0],
   apfs |-> [magic |-> FALSE, block |-> 0, blocks |-> 0],
   ufs |-> [magic |-> FALSE, block |-> 0, fragment |-> 0, blocks |-> 0],
   xfs |-> [magic |-> FALSE, block |-> 0, inode |-> 0, groups |-> 0, blocks |-> 0]]

Sectors == {512, 1024, 2048, 4096}

\* The way NTFS writes the size of a record: in clusters, or as an exponent.
Log2(n) == CHOOSE k \in 0 .. 30 : n = 2 ^ k
Encoded(n, cluster) == IF n >= cluster THEN n \div cluster ELSE -Log2(n)

Ntfs == {[Blank EXCEPT !.as = "ntfs",
           !.boot = [Boot EXCEPT !.oem = "ntfs", !.signature = TRUE, !.sector = s,
                     !.cluster = 2 ^ k, !.record = Encoded(r, s * 2 ^ k),
                     !.index = Encoded(4096, s * 2 ^ k)]] :
         s \in Sectors, k \in 0 .. 7, r \in {1024, 4096}}
Refs == {[Blank EXCEPT !.as = "refs",
           !.boot = [Boot EXCEPT !.oem = "refs", !.sector = s, !.cluster = 2 ^ k]] :
         s \in Sectors, k \in 0 .. 7}
Fat32 == {[Blank EXCEPT !.as = "fat",
            !.boot = [Boot EXCEPT !.signature = TRUE, !.sector = s, !.cluster = 2 ^ k,
                      !.fats = f, !.fat32 = 100, !.root = 2]] :
          s \in Sectors, k \in 0 .. 7, f \in 1 .. 2}
Exfat == {[Blank EXCEPT !.as = "fat",
            !.boot = [Boot EXCEPT !.oem = "exfat", !.signature = TRUE, !.sectorShift = s,
                      !.clusterShift = k, !.fats = 1, !.root = 4]] :
          s \in 9 .. 12, k \in 0 .. 12}
Ext == {[Blank EXCEPT !.as = "ext", !.ext = [magic |-> TRUE, shift |-> k, inode |-> i]] :
        k \in 0 .. 6, i \in {128, 256, 512}}
Xfs == {[Blank EXCEPT !.as = "xfs",
          !.xfs = [magic |-> TRUE, block |-> 2 ^ k, inode |-> i, groups |-> 4, blocks |-> 9]] :
        k \in 9 .. 16, i \in {256, 512, 2048}}
Ufs == {[Blank EXCEPT !.as = "ufs",
          !.ufs = [magic |-> TRUE, block |-> 2 ^ k, fragment |-> 2 ^ (k - 3), blocks |-> 9]] :
        k \in 12 .. 16}
Apfs == {[Blank EXCEPT !.as = "apfs", !.apfs = [magic |-> TRUE, block |-> 2 ^ k, blocks |-> 9]] :
         k \in 12 .. 16}
Hfs == {[Blank EXCEPT !.as = "hfs",
          !.hfs = [magic |-> TRUE, version |-> 4, block |-> 2 ^ k, blocks |-> 9]] :
        k \in 9 .. 16}

Formatted == Ntfs \cup Refs \cup Fat32 \cup Exfat \cup Ext \cup Xfs \cup Ufs \cup Apfs \cup Hfs

\* One field of a header damaged.
Damaged ==
  {[Blank EXCEPT !.boot = [Boot EXCEPT !.oem = o, !.signature = g, !.sector = s, !.cluster = c,
                           !.record = r, !.index = 1, !.fats = f, !.fat32 = 1, !.root = 2,
                           !.sectorShift = t, !.clusterShift = t]] :
     o \in {"ntfs", "refs", "exfat", "other"}, g \in BOOLEAN, s \in {0, 1, 513, 512},
     c \in {0, 3, 8, 244}, r \in {-128, -30, -10, 0, 2}, f \in {0, 2}, t \in {8, 9, 13}}
  \cup {[Blank EXCEPT !.ext = [magic |-> m, shift |-> k, inode |-> i]] :
     m \in BOOLEAN, k \in {0, 6, 7}, i \in {0, 127, 128, 130, 4096, 8192}}
  \cup {[Blank EXCEPT !.xfs = [magic |-> m, block |-> b, inode |-> i, groups |-> g, blocks |-> 1]] :
     m \in BOOLEAN, b \in {0, 512, 600}, i \in {0, 256, 300}, g \in 0 .. 1}
  \cup {[Blank EXCEPT !.ufs = [magic |-> m, block |-> b, fragment |-> f, blocks |-> n]] :
     m \in BOOLEAN, b \in {0, 512, 600}, f \in {0, 512, 1024}, n \in 0 .. 1}
  \cup {[Blank EXCEPT !.hfs = [magic |-> m, version |-> v, block |-> b, blocks |-> n],
                      !.apfs = [magic |-> m, block |-> c, blocks |-> n]] :
     m \in BOOLEAN, v \in {3, 4, 5}, b \in {0, 512, 600}, c \in {0, 512, 4096}, n \in 0 .. 1}

\* Sources that are short, of unknown size or unreadable in places.
Awkward ==
  {[v EXCEPT !.size = n, !.known = k, !.broken = b, !.scanned = s] :
     v \in {CHOOSE f \in Formatted : f.as = fs : fs \in ToSet(Order)},
     n \in {0, 512, 2048, 4096, 16384, 65536}, k \in BOOLEAN,
     b \in {{}, {0}, {1}, {3}, {40}}, s \in BOOLEAN}

MCVolumes == Formatted \cup Damaged \cup {[v EXCEPT !.as = "none"] : v \in Awkward}
=============================================================================
