------------------------------ MODULE FilesProofs ------------------------------
(***************************************************************************)
(* Theorems about ShellFiles, for every geometry of the chip and of the    *)
(* file system, every set of files and texts, and any number of commands   *)
(* and power failures: the medium behaves as an array of sectors, the FAT  *)
(* buffer agrees with the disk, handles are given back, writes go where    *)
(* they belong, the board boots again, no cluster is in two files and,     *)
(* without a failure, none is in no file.                                  *)
(***************************************************************************)
EXTENDS ShellFiles, SpiFlashProofs, FiniteSetTheorems, FunctionTheorems

-----------------------------------------------------------------------------
(* The inductive invariant.                                                *)

FatSectors == fat_begin_lba .. fat_begin_lba + FAT_SECTORS - 1
RootSectors == rootdir_first_sector .. rootdir_first_sector + ROOT_SECTORS - 1

\* What an entry of the table and what a slot of the root directory may hold.
FatCell == {ZERO, FF, MEDIA} \cup (Cluster \ {0, 1})
DirCell == {ZERO, DEL, FF} \cup Entry

\* Whatever a cell of the chip may hold, at the start and later.
StartCells == UNION {{s.chip[a] : a \in Addr} : s \in Starts}
Cells == {FF, Garbled, BPB, SIG} \cup FatCell \cup DirCell
           \cup (UNION {{t[i] : i \in DOMAIN t} : t \in Texts})
           \cup StartCells
SectorData == [1 .. SectorSize -> Cells]

\* A sector of a FAT or of the root directory holds entries of it; the first two entries of
\* the table are never free.
GoodSector(l, d) ==
  /\ d \in SectorData
  /\ l \in FatSectors => \A i \in 1 .. SectorSize : d[i] \in FatCell
  /\ l = fat_begin_lba => d[1] # ZERO /\ d[2] # ZERO
  /\ l \in RootSectors => \A i \in 1 .. SectorSize : d[i] \in DirCell
GoodWrite(w) == w.lba >= RESERVED /\ GoodSector(w.lba, w.data)

\* The FAT buffer holds a sector of the first FAT, or none.
Buffer == [lba : {-1} \cup FatSectors, data : {<<>>} \cup SectorData, dirty : BOOLEAN]
GoodBuffer(b) ==
  /\ b \in Buffer
  /\ b.lba = -1 => ~b.dirty
  /\ b.lba # -1 => GoodSector(b.lba, b.data)

\* What a call of the library leaves: a good buffer, good writes behind the boot sector, and a
\* buffer that is not dirty and equals the sector these writes leave.
GoodView(v) ==
  /\ v \in [buf : Buffer, todo : Seq(SectorWrite(Cells))] /\ GoodBuffer(v.buf)
  /\ \A i \in DOMAIN v.todo : GoodWrite(v.todo[i])
  /\ v.buf.lba # -1 /\ ~v.buf.dirty => v.buf.data = SectorAfter(v.todo, v.buf.lba)

SectorIn(d, l) == [i \in 1 .. SectorSize |-> d[SectorStart(l) + i - 1]]

\* Sector l of the disk d after the writes td, and once the array has made those it was
\* asked for.
After(td, d, l) ==
  IF \E i \in DOMAIN td : td[i].lba = l
  THEN td[CHOOSE i \in DOMAIN td : td[i].lba = l /\ \A j \in DOMAIN td : td[j].lba = l => j <= i].data
  ELSE SectorIn(d, l)
Final(l) == After(Asked, Stored, l)

Boots(d) == d[1] = BPB /\ d[SectorSize] = SIG

DiskOK ==
  /\ FlashInv(Cells)
  /\ \A l \in Lba : GoodSector(l, SectorIn(Stored, l))
  /\ \A i \in DOMAIN todo : GoodSector(todo[i].lba, todo[i].data)

BufferOK ==
  /\ GoodBuffer(buf)
  /\ buf.lba # -1 /\ ~buf.dirty => buf.data = Final(buf.lba)

\* Only a format writes in front of the first FAT.
BootOK ==
  /\ up \in BOOLEAN
  /\ IF up THEN Boots(Final(0)) ELSE "format" \in lostIn
  /\ cmd.op # "format" => \A i \in DOMAIN todo : todo[i].lba >= RESERVED

Holding == cmd.pc \in {"read", "load", "drop", "remove", "puts", "close"}
OpenFile ==
  {h \in [name : Names, start : Cluster \ {0, 1}, len : 0 .. FAT_SECTORS * SectorSize * ClusterSize,
          pos : Nat, data : {<<>>} \cup SectorData, dirty : BOOLEAN, changed : BOOLEAN] :
     h.pos <= h.len /\ (h.dirty => h.data \in SectorData)}

\* Which commands are where.
Readers == {"cat", "run", "rm", "touch"}
ReaderPcs == {"open", "create", "read", "spin", "load", "drop", "remove", "close", "end"}
CmdOK ==
  /\ cmd = [op |-> cmd.op, name |-> cmd.name, text |-> cmd.text, pc |-> cmd.pc, ok |-> cmd.ok]
  /\ \/ cmd.op = "none" /\ cmd.pc = "prompt"
     \/ cmd.op \in Readers /\ cmd.name \in Names /\ cmd.pc \in ReaderPcs
     \/ /\ cmd.op = "put" /\ cmd.name \in Names /\ cmd.text \in Texts
        /\ cmd.pc \in {"open", "puts", "close", "end"}
     \/ cmd.op = "format" /\ cmd.pc \in {"format", "end"}

\* The handles in use are those rm has kept and the one of the command, of which nothing is
\* asked once it hangs.
Held(fs, names) ==
  /\ fs \in Seq(OpenFile) /\ Len(fs) <= MAXOPEN
  /\ \A i, j \in DOMAIN fs : fs[i].name = fs[j].name => i = j
  /\ {fs[i].name : i \in DOMAIN fs} = names
HandlesOK ==
  /\ cmd.pc = "spin" => \E names : Held(files, names)
  /\ cmd.pc # "spin" => Held(files, kept \cup (IF Holding THEN {cmd.name} ELSE {}))
  /\ Holding => files # <<>> /\ file.name = cmd.name /\ cmd.name \notin kept
  /\ cmd.pc = "load" => file.pos = 0

CountsOK ==
  /\ stale \subseteq Names /\ risk \subseteq Names /\ kept \subseteq Names
  /\ count \in 0 .. MaxCommands /\ losses \in 0 .. MaxLosses

FilesInv == DiskOK /\ BufferOK /\ BootOK /\ CmdOK /\ HandlesOK /\ CountsOK
-----------------------------------------------------------------------------
(* Induction, stated of sets.                                              *)

\* Otherwise the successor would map a finite set into itself without 0 and never twice to
\* the same element.
LEMMA IntervalInduction ==
  ASSUME NEW N \in Nat, NEW A, 0 \in A,
         \A n \in 0 .. N : n \in A /\ n < N => n + 1 \in A
  PROVE  0 .. N \subseteq A
<1>1. ASSUME NEW m \in 0 .. N, m \notin A PROVE FALSE
  <2> DEFINE C == {n \in A \cap (0 .. N) : n <= m}
             next == [n \in C |-> n + 1]
  <2>1. IsFiniteSet(0 .. N)
    BY FS_Interval
  <2>2. C \in SUBSET (0 .. N) /\ 0 \in C /\ (\A n \in C : n + 1 \in C)
    BY <1>1
  <2>3. next \in [C -> C \ {0}]
    BY <2>2
  <2>4. \A x, y \in C : next[x] = next[y] => x = y
    BY <2>2
  <2> HIDE DEF next, C
  <2>5. IsFiniteSet(C) /\ Cardinality(C) \in Nat
    BY <2>1, <2>2, FS_Subset, FS_CardinalityType
  <2>6. PICK D : D = C \ {0} /\ IsFiniteSet(D) /\ Cardinality(D) = Cardinality(C) - 1
    <3>1. PICK z : z = 0
      OBVIOUS
    <3>2. IsFiniteSet(C \ {z}) /\ Cardinality(C \ {z}) = Cardinality(C) - 1
      BY <2>2, <2>5, <3>1, FS_RemoveElement, Zenon
    <3>3. QED
      BY <3>1, <3>2
  <2>7. Cardinality(D) < Cardinality(C) /\ next \in [C -> D]
    BY <2>3, <2>5, <2>6
  <2>8. \E x, y \in C : x # y /\ next[x] = next[y]
    BY <2>5, <2>6, <2>7, FS_PigeonHole
  <2>9. QED
    BY <2>4, <2>8
<1>2. QED
  BY <1>1

\* A set of numbers has a least element.
LEMMA LeastElement ==
  ASSUME NEW S, S \subseteq Nat, S # {}
  PROVE  \E x \in S : \A y \in S : x <= y
<1> SUFFICES ASSUME \A x \in S : \E y \in S : y < x PROVE FALSE
  OBVIOUS
<1>1. PICK N \in Nat : N \in S
  OBVIOUS
<1> DEFINE A == {n \in Nat : \A y \in S : n <= y}
<1>2. 0 \in A
  OBVIOUS
<1>3. ASSUME NEW n \in 0 .. N, n \in A PROVE n + 1 \in A
  <2>1. n \notin S
    BY <1>3
  <2>2. QED
    BY <1>3, <2>1
<1>4. N \in A
  <2> HIDE DEF A
  <2>1. 0 .. N \subseteq A
    BY <1>2, <1>3, IntervalInduction
  <2>2. QED
    BY <2>1
<1>5. QED
  BY <1>1, <1>4

\* A bounded set of numbers has a greatest element.
LEMMA GreatestElement ==
  ASSUME NEW N \in Nat, NEW S, S \subseteq 0 .. N, S # {}
  PROVE  \E x \in S : \A y \in S : y <= x
<1> DEFINE R == {N - x : x \in S}
<1>1. R \subseteq Nat /\ R # {}
  <2>1. \A x \in S : x \in Int /\ 0 <= x /\ x <= N
    OBVIOUS
  <2>2. \A x \in S : N - x \in Nat
    BY <2>1
  <2>3. PICK z : z \in S
    OBVIOUS
  <2>4. QED
    BY <2>2, <2>3
<1>2. PICK r \in R : \A q \in R : r <= q
  <2> HIDE DEF R
  <2>1. QED
    BY <1>1, LeastElement
<1>3. PICK x \in S : r = N - x
  OBVIOUS
<1>4. ASSUME NEW y \in S PROVE y <= x
  <2>1. N - x <= N - y
    BY <1>2, <1>3
  <2>2. QED
    BY <2>1
<1>5. QED
  BY <1>4

\* f begins at a and goes on by G within the set V.
Steps(f, N, V, a, G) ==
  f \in [0 .. N -> V] /\ \A i \in 0 .. N : f[i] = IF i = 0 THEN a ELSE G[i][f[i - 1]]

\* A recursive function exists.
LEMMA Recursion ==
  ASSUME NEW N \in Nat, NEW V, NEW a \in V, NEW G \in [0 .. N -> [V -> V]]
  PROVE  \E f : Steps(f, N, V, a, G)
<1> DEFINE A == {n \in 0 .. N : \E g \in [0 .. n -> V] :
                   \A i \in 0 .. n : g[i] = IF i = 0 THEN a ELSE G[i][g[i - 1]]}
<1>1. 0 \in A
  <2> DEFINE g == [i \in 0 .. 0 |-> a]
  <2>1. g \in [0 .. 0 -> V] /\ \A i \in 0 .. 0 : g[i] = IF i = 0 THEN a ELSE G[i][g[i - 1]]
    OBVIOUS
  <2> HIDE DEF g
  <2>2. QED
    BY <2>1
<1>2. ASSUME NEW n \in 0 .. N, n \in A, n < N PROVE n + 1 \in A
  <2>1. PICK g \in [0 .. n -> V] : \A i \in 0 .. n : g[i] = IF i = 0 THEN a ELSE G[i][g[i - 1]]
    BY <1>2
  <2> DEFINE h == [i \in 0 .. n + 1 |-> IF i = n + 1 THEN G[n + 1][g[n]] ELSE g[i]]
  <2>2. n + 1 \in 0 .. N /\ g[n] \in V
    BY <1>2
  <2>3. h \in [0 .. n + 1 -> V]
    BY <2>2
  <2>4. \A i \in 0 .. n + 1 : h[i] = IF i = 0 THEN a ELSE G[i][h[i - 1]]
    <3>1. ASSUME NEW i \in 0 .. n + 1 PROVE h[i] = IF i = 0 THEN a ELSE G[i][h[i - 1]]
      <4>1. CASE i = n + 1
        BY <2>2, <4>1
      <4>2. CASE i # n + 1
        <5>1. i \in 0 .. n /\ h[i] = g[i] /\ (i # 0 => h[i - 1] = g[i - 1])
          BY <4>2
        <5>2. g[i] = IF i = 0 THEN a ELSE G[i][g[i - 1]]
          BY <2>1, <5>1
        <5>3. QED
          BY <5>1, <5>2
      <4>3. QED
        BY <4>1, <4>2
    <3>2. QED
      BY <3>1
  <2> HIDE DEF h
  <2>5. QED
    BY <2>2, <2>3, <2>4
<1>3. N \in A
  <2> HIDE DEF A
  <2>1. 0 .. N \subseteq A
    BY <1>1, <1>2, IntervalInduction
  <2>2. QED
    BY <2>1
<1>4. QED
  BY <1>3 DEF Steps

-----------------------------------------------------------------------------
(* The layout.                                                             *)

\* The number of entries of the table, and of sectors of the chip.
Entries == FAT_SECTORS * SectorSize
Sectors == (BlockSize * NBlock) \div SectorSize

\* The sizes are natural numbers, and what they make of Cluster and Lba.
LEMMA Sizes ==
  /\ SectorSize \in Nat /\ SectorSize > 1 /\ BlockSize \in Nat \ {0} /\ NBlock \in Nat \ {0}
  /\ SECTORS_PER_CLUSTER \in Nat \ {0} /\ RESERVED \in Nat \ {0} /\ NUM_FATS \in Nat \ {0}
  /\ FAT_SECTORS \in Nat \ {0} /\ ROOT_SECTORS \in Nat \ {0}
  /\ Entries \in Nat /\ Entries > 2 /\ Sectors \in Nat /\ Cluster = 0 .. Entries - 1
  /\ Lba = 0 .. Sectors - 1
<1>1. /\ SectorSize \in Nat \ {0} /\ BlockSize \in Nat \ {0} /\ NBlock \in Nat \ {0}
      /\ SectorSize > 1 /\ FAT_SECTORS \in Nat \ {0}
  BY SizeAssumption, LayoutAssumption
<1>2. Entries \in Nat /\ Entries > 2
  BY <1>1, LayoutAssumption DEF Entries
<1>3. BlockSize * NBlock \in Nat
  BY <1>1
<1>4. Sectors \in Nat
  BY <1>1, <1>3 DEF Sectors
<1>5. QED
  BY <1>1, <1>2, <1>4, LayoutAssumption DEF Cluster, Entries, Lba, Sectors

\* The first FAT, the root directory and the clusters follow each other on the chip.
LEMMA Regions ==
  /\ fat_begin_lba \in Nat \ {0} /\ rootdir_first_sector \in Nat
  /\ fat_begin_lba + FAT_SECTORS <= rootdir_first_sector
  /\ rootdir_first_sector + ROOT_SECTORS <= Sectors
  /\ \A c \in Cluster \ {0, 1}, i \in 0 .. SECTORS_PER_CLUSTER - 1 :
       fatfs_lba_of_cluster(c) + i \in rootdir_first_sector + ROOT_SECTORS .. Sectors - 1
<1>1. PICK f \in Nat : f = NUM_FATS * FAT_SECTORS /\ f >= FAT_SECTORS
  <2>1. \A n \in Nat \ {0} : n * FAT_SECTORS \in Nat /\ n * FAT_SECTORS >= FAT_SECTORS
    BY Sizes
  <2>2. QED
    BY <2>1, Sizes
<1>2. /\ rootdir_first_sector = RESERVED + f /\ rootdir_first_sector \in Nat
      /\ fat_begin_lba = RESERVED
  BY <1>1, Sizes DEF rootdir_first_sector, fat_begin_lba
<1>3. PICK top \in Nat : top = (Entries - 2) * SECTORS_PER_CLUSTER
  <2>1. Entries - 2 \in Nat
    BY Sizes
  <2>2. QED
    BY <2>1, Sizes
<1>4. rootdir_first_sector + ROOT_SECTORS + top <= Sectors
  BY <1>3, LayoutAssumption DEF fatfs_lba_of_cluster, Entries, Sectors
<1>5. ASSUME NEW c \in Cluster \ {0, 1}, NEW i \in 0 .. SECTORS_PER_CLUSTER - 1
      PROVE  fatfs_lba_of_cluster(c) + i \in rootdir_first_sector + ROOT_SECTORS .. Sectors - 1
  <2>1. c - 2 \in Nat /\ c - 1 \in Nat /\ c - 1 <= Entries - 2 /\ c \in Int
    BY Sizes
  <2>2. PICK m \in Nat : m = (c - 2) * SECTORS_PER_CLUSTER
    BY <2>1, Sizes
  <2>3. m + SECTORS_PER_CLUSTER = (c - 1) * SECTORS_PER_CLUSTER
    BY <2>1, <2>2, Sizes
  <2>4. (c - 1) * SECTORS_PER_CLUSTER <= top
    <3>1. Entries - 2 \in Nat
      BY Sizes
    <3>2. \A a, b \in Nat, k \in Nat \ {0} : a <= b => a * k <= b * k
      OBVIOUS
    <3>3. QED
      BY <1>3, <2>1, <3>1, <3>2, Sizes
  <2>5. m + SECTORS_PER_CLUSTER <= top
    BY <2>3, <2>4
  <2>6. fatfs_lba_of_cluster(c) = rootdir_first_sector + ROOT_SECTORS + m
    BY <2>2 DEF fatfs_lba_of_cluster
  <2>7. QED
    BY <1>2, <1>3, <1>4, <2>2, <2>5, <2>6, Sizes
<1>6. QED
  BY <1>1, <1>2, <1>3, <1>4, <1>5, Sizes

\* The table has a natural number of entries.
LEMMA EntriesIs == Entries \in Nat
  BY Sizes

\* The sectors of the first FAT lie on the chip behind the reserved ones.
LEMMA FatSectorIs ==
  ASSUME NEW l \in FatSectors
  PROVE  l \in Lba /\ l >= RESERVED /\ l \in Nat /\ l # -1 /\ l \notin RootSectors
  BY Sizes, Regions DEF FatSectors, RootSectors, fat_begin_lba

\* So do those of the root directory, and they are no sectors of the FAT.
LEMMA RootSectorIs ==
  ASSUME NEW l \in RootSectors
  PROVE  l \in Lba /\ l >= RESERVED /\ l \in Nat /\ l \notin FatSectors /\ l # fat_begin_lba
  BY Sizes, Regions DEF FatSectors, RootSectors, fat_begin_lba

\* The sectors of a cluster lie on the chip, behind the root directory.
LEMMA ClusterSectorIs ==
  ASSUME NEW c \in Cluster \ {0, 1}, NEW i \in 0 .. SECTORS_PER_CLUSTER - 1,
         NEW l, l = fatfs_lba_of_cluster(c) + i
  PROVE  /\ l \in Lba /\ l >= RESERVED /\ l \in Nat /\ l \notin FatSectors
         /\ l \notin RootSectors /\ l # fat_begin_lba
<1>1. l \in rootdir_first_sector + ROOT_SECTORS .. Sectors - 1
  BY Regions
<1>2. QED
  BY <1>1, Sizes, Regions DEF FatSectors, RootSectors, fat_begin_lba

\* A number by its quotient and its remainder.
LEMMA Split ==
  ASSUME NEW a \in Nat, NEW k \in Nat, a < k * SectorSize
  PROVE  /\ a \div SectorSize \in 0 .. k - 1 /\ (a % SectorSize) + 1 \in 1 .. SectorSize
         /\ a = (a \div SectorSize) * SectorSize + (a % SectorSize)
<1>1. SectorSize \in Nat \ {0}
  BY Sizes
<1>2. PICK q \in Nat, m \in Nat : q = a \div SectorSize /\ m = q * SectorSize /\ m <= a /\ a < m + SectorSize
  BY <1>1, DivBounds
<1>3. a % SectorSize = a - m
  BY <1>1, <1>2, DivMod
<1>4. q < k
  <2>1. \A x, y \in Nat : x >= y => x * SectorSize >= y * SectorSize
    BY <1>1
  <2>2. q >= k => m >= k * SectorSize
    BY <1>2, <2>1
  <2>3. k * SectorSize \in Int
    BY <1>1
  <2>4. QED
    BY <1>2, <2>2, <2>3
<1>5. QED
  BY <1>1, <1>2, <1>3, <1>4

\* Where the entry of a cluster is.
LEMMA FatLbaIs ==
  ASSUME NEW c \in Cluster
  PROVE  /\ FatLba(c) \in FatSectors /\ (c % SectorSize) + 1 \in 1 .. SectorSize
         /\ FatLba(c) = fat_begin_lba /\ (c % SectorSize) + 1 \in {1, 2} => c \in {0, 1}
         /\ c \in {0, 1} => FatLba(c) = fat_begin_lba /\ (c % SectorSize) + 1 = c + 1
<1>1. c \in Nat /\ c < FAT_SECTORS * SectorSize /\ FAT_SECTORS \in Nat /\ SectorSize \in Nat \ {0}
  BY Sizes DEF Cluster
<1>2. PICK q \in Nat, r \in 0 .. SectorSize - 1 :
        /\ q = c \div SectorSize /\ r = c % SectorSize /\ q \in 0 .. FAT_SECTORS - 1
        /\ c = q * SectorSize + r
  BY <1>1, Split
<1>3. FatLba(c) = fat_begin_lba + q /\ fat_begin_lba \in Nat
  BY <1>2, Regions DEF FatLba
<1>4. q = 0 => c = r
  BY <1>1, <1>2
<1>5. c \in {0, 1} => q = 0 /\ r = c
  <2>1. PICK z \in Nat : z = 0 /\ z * SectorSize + c = c
    BY <1>1
  <2>2. ASSUME c \in {0, 1} PROVE c \div SectorSize = z /\ c % SectorSize = c
    <3>1. c \in 0 .. SectorSize - 1
      BY <2>2, Sizes
    <3>2. QED
      BY <1>1, <2>1, <3>1, ModUnique
  <2>3. QED
    BY <1>2, <2>1, <2>2
<1>6. r + 1 \in 1 .. SectorSize /\ (r + 1 \in {1, 2} => r \in {0, 1})
  BY <1>1, <1>2
<1>7. fat_begin_lba + q \in FatSectors /\ (fat_begin_lba + q = fat_begin_lba => q = 0)
  BY <1>1, <1>2, <1>3 DEF FatSectors
<1>8. (c % SectorSize) + 1 = r + 1
  BY <1>2
<1>9. q = 0 => fat_begin_lba + q = fat_begin_lba
  BY <1>3
<1>10. QED
  BY <1>3, <1>4, <1>5, <1>6, <1>7, <1>8, <1>9

\* The sector of a slot is one of the root directory.
LEMMA SlotLbaIs ==
  ASSUME NEW i \in Slot
  PROVE  SlotLba(i) \in RootSectors /\ ((i - 1) % SectorSize) + 1 \in 1 .. SectorSize
<1>1. PICK a \in Nat : a = i - 1 /\ a < ROOT_SECTORS * SectorSize /\ ROOT_SECTORS \in Nat
  <2>1. ROOT_SECTORS * SectorSize \in Nat
    BY Sizes
  <2>2. QED
    BY <2>1, Sizes DEF Slot
<1>2. a \div SectorSize \in 0 .. ROOT_SECTORS - 1 /\ (a % SectorSize) + 1 \in 1 .. SectorSize
  BY <1>1, Split
<1>3. QED
  BY <1>1, <1>2, Regions DEF SlotLba, RootSectors

\* The addresses of a sector lie on the chip.
LEMMA SectorAddress ==
  ASSUME NEW l \in Lba, NEW i \in 1 .. SectorSize
  PROVE  SectorStart(l) \in Nat /\ SectorStart(l) + i - 1 \in Addr
<1>1. SectorStart(l) \in Addr /\ SectorRange(l) \subseteq BlockRange(SectorStart(l))
  BY SectorInBlock
<1>2. BlockRange(SectorStart(l)) \subseteq Addr /\ SectorStart(l) \in Nat
  BY <1>1, BlockInChip DEF Addr
<1>3. SectorStart(l) + i - 1 \in SectorRange(l)
  BY <1>2, Sizes DEF SectorRange
<1>4. QED
  BY <1>1, <1>2, <1>3

\* Sectors lie one behind the other.
LEMMA SectorsInOrder ==
  ASSUME NEW l \in Nat, NEW m \in Nat, l < m
  PROVE  SectorStart(l) \in Nat /\ SectorStart(m) \in Nat /\ SectorStart(l) + SectorSize <= SectorStart(m)
<1>1. PICK d \in Nat : d = SectorSize
  BY Sizes
<1>2. PICK k \in Nat : k = l + 1 /\ k <= m
  OBVIOUS
<1>3. \A a, b, c \in Nat : a <= b => a * c <= b * c /\ a * c \in Nat
  OBVIOUS
<1>4. k * d <= m * d /\ m * d \in Nat /\ l * d \in Nat
  BY <1>2, <1>3
<1>5. k * d = l * d + d
  BY <1>2
<1>6. QED
  BY <1>1, <1>4, <1>5 DEF SectorStart

\* Two sectors share no address.
LEMMA SectorsApart ==
  ASSUME NEW l \in Nat, NEW m \in Nat, NEW i \in 1 .. SectorSize, NEW j \in 1 .. SectorSize,
         SectorStart(l) + i - 1 = SectorStart(m) + j - 1
  PROVE  l = m
<1>1. ~(l < m)
  BY SectorsInOrder, Sizes
<1>2. ~(m < l)
  BY SectorsInOrder, Sizes
<1>3. QED
  BY <1>1, <1>2

\* What the sectors may hold may lie on the chip.
LEMMA CellsAre ==
  /\ FatCell \subseteq Cells /\ DirCell \subseteq Cells /\ Content(Cells) = Cells
  /\ ZERO \in FatCell /\ FF \in FatCell /\ MEDIA \in FatCell
  /\ ZERO \in DirCell /\ FF \in DirCell /\ DEL \in DirCell /\ Entry \subseteq DirCell
  /\ BPB \in Cells /\ SIG \in Cells
<1>1. FF \in Cells /\ Garbled \in Cells /\ BPB \in Cells /\ SIG \in Cells
  BY DEF Cells
<1>2. FatCell \subseteq Cells /\ DirCell \subseteq Cells
  BY DEF Cells
<1>3. QED
  BY <1>1, <1>2 DEF Content, FatCell, DirCell

-----------------------------------------------------------------------------
(* A disk and the writes to it.                                            *)

IsLast(td, l, i) == td[i].lba = l /\ \A j \in DOMAIN td : td[j].lba = l => j <= i

\* Of the writes to a sector there is a last one.
LEMMA LastWrite ==
  ASSUME NEW S, NEW td \in Seq(S), NEW l, NEW k \in DOMAIN td, td[k].lba = l
  PROVE  \E i \in DOMAIN td : IsLast(td, l, i)
<1> DEFINE I == {i \in DOMAIN td : td[i].lba = l}
<1>1. Len(td) \in Nat /\ DOMAIN td = 1 .. Len(td)
  BY LenProperties
<1>2. I \subseteq 0 .. Len(td) /\ I # {}
  BY <1>1
<1>3. PICK i \in I : \A j \in I : j <= i
  <2> HIDE DEF I
  <2>1. QED
    BY <1>1, <1>2, GreatestElement
<1>4. QED
  BY <1>3 DEF IsLast

\* The last write to a sector decides what it holds.
LEMMA AfterIs ==
  ASSUME NEW S, NEW td \in Seq(S), NEW d, NEW l, NEW i \in DOMAIN td, IsLast(td, l, i)
  PROVE  After(td, d, l) = td[i].data
<1> DEFINE c == CHOOSE k \in DOMAIN td : td[k].lba = l /\ \A j \in DOMAIN td : td[j].lba = l => j <= k
<1>1. Len(td) \in Nat /\ DOMAIN td = 1 .. Len(td)
  BY LenProperties
<1>2. c \in DOMAIN td /\ td[c].lba = l /\ \A j \in DOMAIN td : td[j].lba = l => j <= c
  BY DEF IsLast
<1>3. c <= i /\ i <= c /\ c \in Int /\ i \in Int
  BY <1>1, <1>2 DEF IsLast
<1>4. c = i
  BY <1>3
<1>5. After(td, d, l) = td[c].data
  BY <1>2 DEF After
<1>6. QED
  BY <1>4, <1>5

\* A sector nobody writes stays.
LEMMA AfterNone ==
  ASSUME NEW td, NEW d, NEW l, \A i \in DOMAIN td : td[i].lba # l
  PROVE  After(td, d, l) = SectorIn(d, l)
  BY DEF After

\* SectorAfter is about the chip.
LEMMA SectorAfterIs ==
  ASSUME NEW td, NEW l
  PROVE  SectorAfter(td, l) = After(td, chip, l)
  BY DEF SectorAfter, After, SectorIn, SPI_Flash_Read

\* One more write replaces its sector and no other.
LEMMA AfterAppend ==
  ASSUME NEW S, NEW td \in Seq(S), NEW w \in S, NEW d, NEW l
  PROVE  After(Append(td, w), d, l) = IF w.lba = l THEN w.data ELSE After(td, d, l)
<1>1. PICK n \in Nat, q \in Seq(S) :
        /\ n = Len(td) /\ DOMAIN td = 1 .. n /\ q = Append(td, w) /\ DOMAIN q = 1 .. n + 1
        /\ \A i \in 1 .. n : q[i] = td[i]
        /\ q[n + 1] = w
  <2>1. Len(td) \in Nat /\ DOMAIN td = 1 .. Len(td)
    BY LenProperties
  <2>2. /\ Append(td, w) \in Seq(S) /\ Len(Append(td, w)) = Len(td) + 1
        /\ \A i \in 1 .. Len(td) : Append(td, w)[i] = td[i]
        /\ Append(td, w)[Len(td) + 1] = w
    BY AppendProperties
  <2>3. DOMAIN Append(td, w) = 1 .. Len(td) + 1
    BY <2>2, LenProperties
  <2>4. QED
    BY <2>1, <2>2, <2>3
<1>2. CASE w.lba = l
  <2>1. IsLast(q, l, n + 1) /\ n + 1 \in DOMAIN q
    BY <1>1, <1>2 DEF IsLast
  <2>2. After(q, d, l) = q[n + 1].data
    BY <2>1, AfterIs
  <2>3. QED
    BY <1>1, <1>2, <2>2
<1>3. CASE w.lba # l /\ \E k \in DOMAIN td : td[k].lba = l
  <2>1. PICK i \in 1 .. n : IsLast(td, l, i) /\ i \in DOMAIN td
    BY <1>1, <1>3, LastWrite
  <2>2. IsLast(q, l, i) /\ i \in DOMAIN q
    BY <1>1, <1>3, <2>1 DEF IsLast
  <2>3. After(q, d, l) = q[i].data
    BY <2>2, AfterIs
  <2>4. After(td, d, l) = td[i].data
    BY <2>1, AfterIs
  <2>5. QED
    BY <1>1, <1>3, <2>1, <2>3, <2>4
<1>4. CASE w.lba # l /\ \A k \in DOMAIN td : td[k].lba # l
  <2>1. \A k \in DOMAIN q : q[k].lba # l
    BY <1>1, <1>4
  <2>2. After(q, d, l) = SectorIn(d, l)
    BY <2>1, AfterNone
  <2>3. After(td, d, l) = SectorIn(d, l) /\ w.lba # l
    BY <1>4, AfterNone
  <2>4. QED
    BY <1>1, <2>2, <2>3
<1>5. QED
  BY <1>2, <1>3, <1>4

\* What the writes leave is good when they are good and the disk was.
LEMMA AfterIsGood ==
  ASSUME NEW S, NEW td \in Seq(S), NEW d, NEW l,
         \A i \in DOMAIN td : GoodSector(td[i].lba, td[i].data),
         GoodSector(l, SectorIn(d, l))
  PROVE  GoodSector(l, After(td, d, l))
<1>1. CASE \E k \in DOMAIN td : td[k].lba = l
  <2>1. PICK i \in DOMAIN td : IsLast(td, l, i)
    BY <1>1, LastWrite
  <2>2. After(td, d, l) = td[i].data
    BY <2>1, AfterIs
  <2>3. td[i].lba = l
    BY <2>1 DEF IsLast
  <2>4. QED
    BY <2>2, <2>3
<1>2. CASE \A k \in DOMAIN td : td[k].lba # l
  BY <1>2, AfterNone
<1>3. QED
  BY <1>1, <1>2

\* The disk e is the disk d with the write w made.
Made(w, d, e) ==
  \A a \in Addr : e[a] = IF a \in SectorRange(w.lba) THEN w.data[a - SectorStart(w.lba) + 1] ELSE d[a]

\* A write replaces its sector and leaves the others.
LEMMA SectorWritten ==
  ASSUME NEW w \in SectorWrite(Cells), NEW d, NEW e, Made(w, d, e), NEW l \in Lba
  PROVE  SectorIn(e, l) = IF l = w.lba THEN w.data ELSE SectorIn(d, l)
<1>1. PICK k \in Lba, data \in SectorData : k = w.lba /\ data = w.data
  BY DEF SectorWrite, SectorData
<1>2. PICK s \in Nat : s = SectorStart(l) /\ \A i \in 1 .. SectorSize : s + i - 1 \in Addr
  <2>1. 1 \in 1 .. SectorSize
    BY Sizes
  <2>2. QED
    BY <2>1, SectorAddress
<1>3. PICK t \in Nat : t = SectorStart(k)
  <2>1. 1 \in 1 .. SectorSize
    BY Sizes
  <2>2. QED
    BY <2>1, SectorAddress
<1>4. \A a \in Addr : e[a] = IF a \in t .. t + SectorSize - 1 THEN data[a - t + 1] ELSE d[a]
  BY <1>1, <1>3 DEF Made, SectorRange
<1>5. CASE l = k
  <2>1. ASSUME NEW i \in 1 .. SectorSize PROVE e[s + i - 1] = data[i]
    <3>1. s + i - 1 \in t .. t + SectorSize - 1 /\ (s + i - 1) - t + 1 = i
      BY <1>2, <1>3, <1>5, Sizes
    <3>2. PICK a \in Addr : a = s + i - 1
      BY <1>2
    <3>3. QED
      BY <1>4, <3>1, <3>2
  <2>2. SectorIn(e, l) = data
    BY <1>2, <2>1 DEF SectorIn, SectorData
  <2>3. QED
    BY <1>1, <1>5, <2>2
<1>6. CASE l # k
  <2>1. ASSUME NEW i \in 1 .. SectorSize PROVE e[s + i - 1] = d[s + i - 1]
    <3>1. ASSUME s + i - 1 \in t .. t + SectorSize - 1 PROVE FALSE
      <4>1. PICK j \in 1 .. SectorSize : s + i - 1 = t + j - 1
        <5>1. s + i - t \in 1 .. SectorSize /\ t + (s + i - t) - 1 = s + i - 1
          BY <3>1, Sizes
        <5>2. QED
          BY <5>1
      <4>2. l \in Nat /\ k \in Nat
        BY Sizes
      <4>3. QED
        BY <1>2, <1>3, <1>6, <4>1, <4>2, SectorsApart
    <3>2. PICK a \in Addr : a = s + i - 1
      BY <1>2
    <3>3. QED
      BY <1>4, <3>1, <3>2
  <2>2. SectorIn(e, l) = SectorIn(d, l)
    BY <1>2, <2>1 DEF SectorIn
  <2>3. QED
    BY <1>1, <1>6, <2>2
<1>7. QED
  BY <1>5, <1>6

\* Making the oldest write changes nothing of what all of them leave.
LEMMA AfterApplied ==
  ASSUME NEW td \in Seq(SectorWrite(Cells)), td # <<>>, NEW d, NEW e, Made(Head(td), d, e),
         NEW l \in Lba
  PROVE  After(Tail(td), e, l) = After(td, d, l)
<1>1. PICK n \in Nat, r \in Seq(SectorWrite(Cells)) :
        /\ Len(td) = n + 1 /\ DOMAIN td = 1 .. n + 1 /\ r = Tail(td) /\ DOMAIN r = 1 .. n
        /\ \A i \in 1 .. n : r[i] = td[i + 1]
        /\ Head(td) = td[1]
  <2>1. Len(td) \in Nat \ {0} /\ DOMAIN td = 1 .. Len(td) /\ Head(td) = td[1]
    BY EmptySeq, LenProperties
  <2>2. PICK n \in Nat : Len(td) = n + 1
    <3>1. PICK m \in Nat \ {0} : m = Len(td)
      BY <2>1
    <3>2. m - 1 \in Nat /\ m = (m - 1) + 1
      OBVIOUS
    <3>3. QED
      BY <3>1, <3>2
  <2>3. /\ Tail(td) \in Seq(SectorWrite(Cells)) /\ Len(Tail(td)) = n
        /\ \A i \in 1 .. n : Tail(td)[i] = td[i + 1]
    BY <2>2, HeadTailProperties
  <2>4. DOMAIN Tail(td) = 1 .. n
    BY <2>3, LenProperties
  <2>5. QED
    BY <2>1, <2>2, <2>3, <2>4
<1>2. td[1] \in SectorWrite(Cells)
  BY <1>1, ElementOfSeq
<1>3. SectorIn(e, l) = IF l = td[1].lba THEN td[1].data ELSE SectorIn(d, l)
  BY <1>1, <1>2, SectorWritten
<1>4. CASE \E i \in 1 .. n : r[i].lba = l
  <2>1. PICK i \in 1 .. n : IsLast(r, l, i)
    BY <1>1, <1>4, LastWrite
  <2>2. IsLast(td, l, i + 1) /\ i + 1 \in DOMAIN td
    <3>1. td[i + 1].lba = l /\ i + 1 \in DOMAIN td
      BY <1>1, <2>1 DEF IsLast
    <3>2. ASSUME NEW j \in DOMAIN td, td[j].lba = l PROVE j <= i + 1
      <4>1. CASE j = 1
        BY <4>1
      <4>2. CASE j # 1
        <5>1. j - 1 \in 1 .. n /\ td[(j - 1) + 1] = td[j]
          BY <1>1, <4>2
        <5>2. r[j - 1].lba = l
          BY <1>1, <3>2, <5>1
        <5>3. j - 1 <= i
          BY <1>1, <2>1, <5>1, <5>2 DEF IsLast
        <5>4. QED
          BY <1>1, <5>1, <5>3
      <4>3. QED
        BY <4>1, <4>2
    <3>3. QED
      BY <3>1, <3>2 DEF IsLast
  <2>3. After(r, e, l) = r[i].data
    <3>1. i \in DOMAIN r
      BY <1>1
    <3>2. QED
      BY <2>1, <3>1, AfterIs
  <2>4. After(td, d, l) = td[i + 1].data
    BY <2>2, AfterIs
  <2>5. QED
    BY <1>1, <2>3, <2>4
<1>5. CASE \A i \in 1 .. n : r[i].lba # l
  <2>1. After(r, e, l) = SectorIn(e, l)
    <3>1. \A i \in DOMAIN r : r[i].lba # l
      BY <1>1, <1>5
    <3>2. QED
      BY <3>1, AfterNone
  <2>2. ASSUME NEW j \in DOMAIN td, j # 1 PROVE td[j].lba # l
    <3>1. j - 1 \in 1 .. n /\ td[(j - 1) + 1] = td[j]
      BY <1>1, <2>2
    <3>2. QED
      BY <1>1, <1>5, <3>1
  <2>3. CASE td[1].lba = l
    <3>1. IsLast(td, l, 1) /\ 1 \in DOMAIN td
      BY <1>1, <2>2, <2>3 DEF IsLast
    <3>2. After(td, d, l) = td[1].data
      BY <3>1, AfterIs
    <3>3. QED
      BY <1>1, <1>3, <2>1, <2>3, <3>2
  <2>4. CASE td[1].lba # l
    <3>1. \A j \in DOMAIN td : td[j].lba # l
      BY <2>2, <2>4
    <3>2. QED
      BY <1>1, <1>3, <2>1, <2>4, <3>1, AfterNone
  <2>5. QED
    BY <2>3, <2>4
<1>6. QED
  BY <1>1, <1>4, <1>5

-----------------------------------------------------------------------------
(* The FAT buffer and the table.                                           *)

\* The chip holds good sectors.
GoodChip == \A l \in Lba : GoodSector(l, SectorIn(chip, l))

\* WriteOf makes a write of a sector.
LEMMA WriteOfIs ==
  ASSUME NEW l \in Lba, NEW d \in SectorData
  PROVE  WriteOf(l, d) \in SectorWrite(Cells) /\ WriteOf(l, d).lba = l /\ WriteOf(l, d).data = d
  BY DEF WriteOf, SectorWrite, SectorData

\* The fields of a view.
LEMMA ViewIs ==
  ASSUME NEW v, GoodView(v)
  PROVE  /\ v = [buf |-> v.buf, todo |-> v.todo] /\ v.buf \in Buffer
         /\ v.todo \in Seq(SectorWrite(Cells)) /\ GoodBuffer(v.buf)
         /\ v.buf = [lba |-> v.buf.lba, data |-> v.buf.data, dirty |-> v.buf.dirty]
         /\ v.buf.dirty \in BOOLEAN /\ v.buf.lba \in {-1} \cup FatSectors
         /\ v.buf.lba # -1 => v.buf.data \in SectorData
  BY DEF GoodView, GoodBuffer, Buffer, GoodSector

\* Changing a field of the buffer.
LEMMA SetDirty ==
  ASSUME NEW l, NEW d, NEW f, NEW t,
         NEW v, v = [buf |-> [lba |-> l, data |-> d, dirty |-> f], todo |-> t]
  PROVE  /\ [v EXCEPT !.buf.dirty = TRUE] = [buf |-> [lba |-> l, data |-> d, dirty |-> TRUE], todo |-> t]
         /\ [v EXCEPT !.buf.dirty = FALSE] = [buf |-> [lba |-> l, data |-> d, dirty |-> FALSE], todo |-> t]
<1>1. ASSUME NEW g
      PROVE  [v EXCEPT !.buf.dirty = g] = [buf |-> [lba |-> l, data |-> d, dirty |-> g], todo |-> t]
  OBVIOUS
<1>2. QED
  BY <1>1, Zenon

\* A view with one cell of its buffer replaced.
LEMMA SetData ==
  ASSUME NEW l, NEW d, NEW f, NEW t, NEW k, NEW n,
         NEW v, v = [buf |-> [lba |-> l, data |-> d, dirty |-> f], todo |-> t]
  PROVE  [v EXCEPT !.buf.data[k] = n] =
           [buf |-> [lba |-> l, data |-> [d EXCEPT ![k] = n], dirty |-> f], todo |-> t]
  OBVIOUS

\* One more good write.
LEMMA AppendGood ==
  ASSUME NEW td \in Seq(SectorWrite(Cells)), \A i \in DOMAIN td : GoodWrite(td[i]),
         NEW w \in SectorWrite(Cells), GoodWrite(w)
  PROVE  /\ Append(td, w) \in Seq(SectorWrite(Cells))
         /\ \A i \in DOMAIN Append(td, w) : GoodWrite(Append(td, w)[i])
<1>1. PICK n \in Nat : n = Len(td) /\ DOMAIN td = 1 .. n
  BY LenProperties
<1>2. /\ Append(td, w) \in Seq(SectorWrite(Cells)) /\ Len(Append(td, w)) = n + 1
      /\ \A i \in 1 .. n : Append(td, w)[i] = td[i]
      /\ Append(td, w)[n + 1] = w
  BY <1>1, AppendProperties
<1>3. DOMAIN Append(td, w) = 1 .. n + 1
  BY <1>2, LenProperties
<1>4. ASSUME NEW i \in 1 .. n + 1 PROVE GoodWrite(Append(td, w)[i])
  <2>1. CASE i = n + 1
    BY <1>2, <2>1
  <2>2. CASE i # n + 1
    <3>1. i \in 1 .. n
      BY <1>1, <2>2
    <3>2. QED
      BY <1>1, <1>2, <3>1
  <2>3. QED
    BY <2>1, <2>2
<1>5. QED
  BY <1>2, <1>3, <1>4

\* A good write behind the FAT leaves the buffer as good as it was.
LEMMA AskingGood ==
  ASSUME NEW v, GoodView(v), NEW l \in Lba, NEW d, l >= RESERVED, l \notin FatSectors,
         GoodSector(l, d)
  PROVE  /\ GoodView(Asking(v, l, d)) /\ Asking(v, l, d).buf = v.buf
         /\ Asking(v, l, d).todo = Append(v.todo, WriteOf(l, d))
<1>1. d \in SectorData
  BY DEF GoodSector
<1>2. PICK w \in SectorWrite(Cells) : w = WriteOf(l, d) /\ w.lba = l /\ w.data = d /\ GoodWrite(w)
  BY <1>1, WriteOfIs DEF GoodWrite
<1>3. Asking(v, l, d) = [buf |-> v.buf, todo |-> Append(v.todo, w)]
  <2>1. v = [buf |-> v.buf, todo |-> v.todo]
    BY ViewIs
  <2>2. Asking(v, l, d) = [v EXCEPT !.todo = Append(v.todo, w)]
    BY <1>2 DEF Asking
  <2>3. QED
    BY <2>1, <2>2
<1>4. /\ Append(v.todo, w) \in Seq(SectorWrite(Cells))
      /\ \A i \in DOMAIN Append(v.todo, w) : GoodWrite(Append(v.todo, w)[i])
  BY <1>2, ViewIs, AppendGood DEF GoodView
<1>5. v.buf.lba # -1 /\ ~v.buf.dirty => v.buf.data = SectorAfter(Append(v.todo, w), v.buf.lba)
  <2>1. v.buf.lba # -1 => v.buf.lba # l
    BY ViewIs
  <2>2. v.buf.lba # l => SectorAfter(Append(v.todo, w), v.buf.lba) = SectorAfter(v.todo, v.buf.lba)
    <3>1. v.todo \in Seq(SectorWrite(Cells))
      BY ViewIs
    <3>2. v.buf.lba # l => After(Append(v.todo, w), chip, v.buf.lba) = After(v.todo, chip, v.buf.lba)
      BY <1>2, <3>1, AfterAppend
    <3>3. QED
      BY <3>2, SectorAfterIs
  <2>3. QED
    BY <2>1, <2>2 DEF GoodView
<1>6. GoodView([buf |-> v.buf, todo |-> Append(v.todo, w)])
  BY <1>4, <1>5, ViewIs DEF GoodView
<1>7. QED
  BY <1>2, <1>3, <1>6

\* What is written back is the buffer, which then equals the sector.
LEMMA WritebackGood ==
  ASSUME NEW v, GoodView(v)
  PROVE  /\ GoodView(fatfs_fat_writeback(v)) /\ ~fatfs_fat_writeback(v).buf.dirty
         /\ fatfs_fat_writeback(v).buf.lba = v.buf.lba
<1>1. CASE v.buf.dirty
  <2>1. v.buf.lba \in FatSectors /\ v.buf.lba # -1 /\ GoodSector(v.buf.lba, v.buf.data)
    BY <1>1, ViewIs DEF GoodBuffer
  <2>2. PICK l \in Lba, d \in SectorData :
          l = v.buf.lba /\ d = v.buf.data /\ l >= RESERVED /\ l # -1 /\ GoodSector(l, d)
    BY <2>1, FatSectorIs DEF GoodSector
  <2>3. PICK w \in SectorWrite(Cells) : w = WriteOf(l, d) /\ w.lba = l /\ w.data = d /\ GoodWrite(w)
    BY <2>2, WriteOfIs DEF GoodWrite
  <2>4. fatfs_fat_writeback(v) =
          [buf |-> [lba |-> l, data |-> d, dirty |-> FALSE], todo |-> Append(v.todo, w)]
    <3>1. PICK t \in Seq(SectorWrite(Cells)), f \in BOOLEAN :
            t = v.todo /\ v = [buf |-> [lba |-> l, data |-> d, dirty |-> f], todo |-> t]
      BY <2>2, ViewIs
    <3>2. PICK u \in Seq(SectorWrite(Cells)) : u = Append(t, w)
      BY <3>1, AppendProperties
    <3>3. fatfs_fat_writeback(v) = [[v EXCEPT !.todo = u] EXCEPT !.buf.dirty = FALSE]
      BY <1>1, <2>2, <2>3, <3>1, <3>2 DEF fatfs_fat_writeback, Asking
    <3>4. PICK x : x = [v EXCEPT !.todo = u]
      OBVIOUS
    <3>5. x = [buf |-> [lba |-> l, data |-> d, dirty |-> f], todo |-> u]
      BY <3>1, <3>4
    <3>6. [x EXCEPT !.buf.dirty = FALSE] = [buf |-> [lba |-> l, data |-> d, dirty |-> FALSE], todo |-> u]
      <4>1. ASSUME NEW g
            PROVE  [x EXCEPT !.buf.dirty = g] = [buf |-> [lba |-> l, data |-> d, dirty |-> g], todo |-> u]
        BY <3>5
      <4>2. QED
        BY <4>1, Zenon
    <3>7. QED
      BY <3>1, <3>2, <3>3, <3>4, <3>6
  <2>5. /\ Append(v.todo, w) \in Seq(SectorWrite(Cells))
        /\ \A i \in DOMAIN Append(v.todo, w) : GoodWrite(Append(v.todo, w)[i])
    BY <2>3, ViewIs, AppendGood DEF GoodView
  <2>6. SectorAfter(Append(v.todo, w), l) = d
    <3>1. v.todo \in Seq(SectorWrite(Cells))
      BY ViewIs
    <3>2. After(Append(v.todo, w), chip, l) = d
      BY <2>3, <3>1, AfterAppend
    <3>3. QED
      BY <3>2, SectorAfterIs
  <2>7. GoodBuffer([lba |-> l, data |-> d, dirty |-> FALSE])
    BY <2>1, <2>2 DEF GoodBuffer, Buffer
  <2>8. [lba |-> l, data |-> d, dirty |-> FALSE] \in Buffer
    BY <2>7 DEF GoodBuffer
  <2>9. GoodView([buf |-> [lba |-> l, data |-> d, dirty |-> FALSE], todo |-> Append(v.todo, w)])
    BY <2>5, <2>6, <2>7, <2>8 DEF GoodView
  <2>10. QED
    BY <2>2, <2>4, <2>9
<1>2. CASE ~v.buf.dirty
  BY <1>2 DEF fatfs_fat_writeback
<1>3. QED
  BY <1>1, <1>2

\* fatfs_fat_purge.
LEMMA PurgeGood ==
  ASSUME NEW v, GoodView(v)
  PROVE  GoodView(fatfs_fat_purge(v)) /\ ~fatfs_fat_purge(v).buf.dirty
  BY WritebackGood DEF fatfs_fat_purge

\* fatfs_fat_read_sector, which writes a dirty buffer back first.
LEMMA ReadSectorGood ==
  ASSUME GoodChip, NEW v, GoodView(v), NEW l \in FatSectors
  PROVE  GoodView(fatfs_fat_read_sector(v, l)) /\ fatfs_fat_read_sector(v, l).buf.lba = l
<1>1. CASE v.buf.lba = l
  BY <1>1 DEF fatfs_fat_read_sector
<1>2. CASE v.buf.lba # l
  <2>1. PICK w : w = fatfs_fat_writeback(v) /\ GoodView(w)
    BY WritebackGood
  <2>2. PICK d \in SectorData : d = SectorAfter(w.todo, l) /\ GoodSector(l, d)
    <3>1. GoodSector(l, SectorIn(chip, l))
      BY FatSectorIs DEF GoodChip
    <3>2. \A i \in DOMAIN w.todo : GoodSector(w.todo[i].lba, w.todo[i].data)
      BY <2>1 DEF GoodView, GoodWrite
    <3>3. GoodSector(l, SectorAfter(w.todo, l))
      BY <2>1, <3>1, <3>2, ViewIs, AfterIsGood, SectorAfterIs
    <3>4. QED
      BY <3>3 DEF GoodSector
  <2>3. fatfs_fat_read_sector(v, l) =
          [buf |-> [lba |-> l, data |-> d, dirty |-> FALSE], todo |-> w.todo]
    <3>1. w = [buf |-> w.buf, todo |-> w.todo]
      BY <2>1, ViewIs
    <3>2. fatfs_fat_read_sector(v, l) = [w EXCEPT !.buf = [lba |-> l, data |-> d, dirty |-> FALSE]]
      BY <1>2, <2>1, <2>2 DEF fatfs_fat_read_sector
    <3>3. QED
      BY <3>1, <3>2
  <2>4. GoodBuffer([lba |-> l, data |-> d, dirty |-> FALSE]) /\ l # -1
    BY <2>2, FatSectorIs DEF GoodBuffer, Buffer
  <2>5. GoodView([buf |-> [lba |-> l, data |-> d, dirty |-> FALSE], todo |-> w.todo])
    BY <2>1, <2>2, <2>4, ViewIs DEF GoodView, GoodBuffer
  <2>6. QED
    BY <2>3, <2>5
<1>3. QED
  BY <1>1, <1>2

\* The sector of a FAT entry is brought into the buffer.
LEMMA LoadedGood ==
  ASSUME GoodChip, NEW v, GoodView(v), NEW c \in Cluster
  PROVE  GoodView(Loaded(v, c)) /\ Loaded(v, c).buf.lba = FatLba(c)
  BY FatLbaIs, ReadSectorGood DEF Loaded

\* Entries are free, marks or clusters, and the first two are not free.
LEMMA EntryGood ==
  ASSUME GoodChip, NEW v, GoodView(v), NEW c \in Cluster
  PROVE  EntryOf(v, c) \in FatCell /\ (c \in {0, 1} => EntryOf(v, c) # ZERO)
<1>1. PICK w : w = Loaded(v, c) /\ GoodView(w) /\ w.buf.lba = FatLba(c)
  BY LoadedGood
<1>2. PICK k \in 1 .. SectorSize : k = (c % SectorSize) + 1 /\ (c \in {0, 1} => k = c + 1)
  BY FatLbaIs
<1>3. FatLba(c) \in FatSectors /\ (c \in {0, 1} => FatLba(c) = fat_begin_lba) /\ FatLba(c) # -1
  BY FatLbaIs, FatSectorIs
<1>4. GoodSector(FatLba(c), w.buf.data)
  BY <1>1, <1>3, ViewIs DEF GoodBuffer
<1>5. w.buf.data[k] \in FatCell
  BY <1>3, <1>4 DEF GoodSector
<1>6. c \in {0, 1} => w.buf.data[k] # ZERO
  <2>1. c = 0 => k = 1
    BY <1>2
  <2>2. c = 1 => k = 2
    BY <1>2
  <2>3. c \in {0, 1} => w.buf.data[1] # ZERO /\ w.buf.data[2] # ZERO
    BY <1>3, <1>4 DEF GoodSector
  <2>4. QED
    BY <2>1, <2>2, <2>3
<1>7. QED
  BY <1>1, <1>2, <1>5, <1>6 DEF EntryOf

\* What a walk reaches.
Reached == {LAST, 0} \cup (Cluster \ {0, 1})

\* fatfs_find_next_cluster stays among the clusters a chain may reach, 0 and LAST.
LEMMA NextGood ==
  ASSUME GoodChip, NEW v, GoodView(v), NEW c \in Reached \ {LAST}
  PROVE  fatfs_find_next_cluster(v, c) \in Reached
<1>1. PICK d \in Cluster : d = IF c = 0 THEN 2 ELSE c
  BY Sizes DEF Reached, LAST
<1>2. EntryOf(v, d) \in FatCell
  BY EntryGood
<1>3. Link(EntryOf(v, d)) \in Reached
  BY <1>2 DEF Link, FatCell, Reached
<1>4. QED
  BY <1>1, <1>3 DEF fatfs_find_next_cluster

\* Setting an entry.
LEMMA SetClusterGood ==
  ASSUME GoodChip, NEW v, GoodView(v), NEW c \in Cluster, NEW n \in FatCell,
         c \in {0, 1} => n # ZERO
  PROVE  GoodView(fatfs_fat_set_cluster(v, c, n))
<1>1. PICK w : w = Loaded(v, c) /\ GoodView(w) /\ w.buf.lba = FatLba(c)
  BY LoadedGood
<1>2. PICK l \in FatSectors : l = FatLba(c) /\ l # -1 /\ (c \in {0, 1} => l = fat_begin_lba)
  BY FatLbaIs, FatSectorIs
<1>3. PICK k \in 1 .. SectorSize :
        k = (c % SectorSize) + 1 /\ (l = fat_begin_lba /\ k \in {1, 2} => c \in {0, 1})
  BY <1>2, FatLbaIs
<1>4. PICK d \in SectorData : d = w.buf.data /\ GoodSector(l, d)
  <2>1. GoodBuffer(w.buf) /\ (w.buf.lba # -1 => w.buf.data \in SectorData)
    BY <1>1, ViewIs
  <2>2. QED
    BY <1>1, <1>2, <2>1 DEF GoodBuffer
<1>5. fatfs_fat_set_cluster(v, c, n) =
        [buf |-> [lba |-> l, data |-> [d EXCEPT ![k] = n], dirty |-> TRUE], todo |-> w.todo]
  <2>1. PICK f : w = [buf |-> [lba |-> l, data |-> d, dirty |-> f], todo |-> w.todo]
    <3>1. /\ w = [buf |-> w.buf, todo |-> w.todo]
          /\ w.buf = [lba |-> w.buf.lba, data |-> w.buf.data, dirty |-> w.buf.dirty]
      BY <1>1, ViewIs
    <3>2. QED
      BY <1>1, <1>2, <1>4, <3>1
  <2>2. fatfs_fat_set_cluster(v, c, n) = [[w EXCEPT !.buf.data[k] = n] EXCEPT !.buf.dirty = TRUE]
    BY <1>1, <1>3 DEF fatfs_fat_set_cluster
  <2>3. PICK x : x = [w EXCEPT !.buf.data[k] = n]
    OBVIOUS
  <2>4. x = [buf |-> [lba |-> l, data |-> [d EXCEPT ![k] = n], dirty |-> f], todo |-> w.todo]
    BY <2>1, <2>3, SetData
  <2>5. [x EXCEPT !.buf.dirty = TRUE] =
          [buf |-> [lba |-> l, data |-> [d EXCEPT ![k] = n], dirty |-> TRUE], todo |-> w.todo]
    <3>1. ASSUME NEW g
          PROVE  [x EXCEPT !.buf.dirty = g] =
                   [buf |-> [lba |-> l, data |-> [d EXCEPT ![k] = n], dirty |-> g], todo |-> w.todo]
      BY <2>4
    <3>2. QED
      BY <3>1, Zenon
  <2>6. QED
    BY <2>2, <2>3, <2>5
<1>6. PICK e : e = [d EXCEPT ![k] = n]
  OBVIOUS
<1>7. GoodSector(l, e)
  <2>1. n \in Cells
    BY CellsAre
  <2>2. e \in SectorData
    BY <1>6, <2>1 DEF SectorData
  <2>3. \A i \in 1 .. SectorSize : e[i] = IF i = k THEN n ELSE d[i]
    BY <1>6 DEF SectorData
  <2>4. \A i \in 1 .. SectorSize : e[i] \in FatCell
    BY <1>4, <2>3 DEF GoodSector
  <2>5. ASSUME l = fat_begin_lba PROVE e[1] # ZERO /\ e[2] # ZERO
    <3>1. 1 \in 1 .. SectorSize /\ 2 \in 1 .. SectorSize
      BY Sizes
    <3>2. d[1] # ZERO /\ d[2] # ZERO
      BY <1>4, <2>5 DEF GoodSector
    <3>3. k \in {1, 2} => n # ZERO
      BY <1>3, <2>5
    <3>4. QED
      BY <2>3, <3>1, <3>2, <3>3
  <2>6. l \notin RootSectors
    BY FatSectorIs
  <2>7. QED
    BY <2>2, <2>4, <2>5, <2>6 DEF GoodSector
<1>8. GoodBuffer([lba |-> l, data |-> e, dirty |-> TRUE])
  BY <1>2, <1>7 DEF GoodBuffer, Buffer, GoodSector
<1>9. [lba |-> l, data |-> e, dirty |-> TRUE] \in Buffer
  BY <1>8 DEF GoodBuffer
<1>10. GoodView([buf |-> [lba |-> l, data |-> e, dirty |-> TRUE], todo |-> w.todo])
  BY <1>1, <1>8, <1>9, ViewIs DEF GoodView
<1>11. QED
  BY <1>5, <1>6, <1>10

-----------------------------------------------------------------------------
(* Walking along chains.                                                   *)

\* A walk begins at c and goes from each cluster to the next, up to the end of the chain.
LEMMA WalkIs ==
  ASSUME GoodChip, NEW v, GoodView(v), NEW c \in Reached
  PROVE  /\ Walk(v, c) \in [0 .. Entries -> Reached] /\ Walk(v, c)[0] = c
         /\ \A i \in 1 .. Entries :
              Walk(v, c)[i] = IF Walk(v, c)[i - 1] = LAST THEN LAST
                              ELSE fatfs_find_next_cluster(v, Walk(v, c)[i - 1])
<1> DEFINE step(x) == IF x = LAST THEN LAST ELSE fatfs_find_next_cluster(v, x)
           body(w) == [i \in 0 .. Entries |-> IF i = 0 THEN c ELSE step(w[i - 1])]
<1>1. \A x \in Reached : step(x) \in Reached
  BY NextGood DEF Reached
<1>2. PICK G \in [0 .. Entries -> [Reached -> Reached]] :
        \A i \in 0 .. Entries, x \in Reached : G[i][x] = step(x)
  <2> DEFINE g == [i \in 0 .. Entries |-> [x \in Reached |-> step(x)]]
  <2>1. g \in [0 .. Entries -> [Reached -> Reached]]
    BY <1>1
  <2>2. \A i \in 0 .. Entries, x \in Reached : g[i][x] = step(x)
    OBVIOUS
  <2>3. QED
    BY <2>1, <2>2
<1>3. Walk(v, c) = CHOOSE w : w = body(w)
  BY DEF Walk, Entries
<1> HIDE DEF step
<1>4. \E w : w = body(w)
  <2>1. PICK f \in [0 .. Entries -> Reached] :
          \A i \in 0 .. Entries : f[i] = IF i = 0 THEN c ELSE G[i][f[i - 1]]
    <3>1. \E f : Steps(f, Entries, Reached, c, G)
      BY EntriesIs, Recursion
    <3>2. QED
      BY <3>1 DEF Steps
  <2>2. ASSUME NEW i \in 0 .. Entries PROVE f[i] = IF i = 0 THEN c ELSE step(f[i - 1])
    <3>1. i # 0 => i - 1 \in 0 .. Entries
      BY Sizes
    <3>2. i # 0 => G[i][f[i - 1]] = step(f[i - 1])
      BY <1>2, <2>1, <3>1
    <3>3. QED
      BY <2>1, <3>2
  <2>3. f = body(f)
    BY <2>2
  <2>4. QED
    BY <2>3
<1>5. PICK w : w = Walk(v, c) /\ w = body(w)
  <2> HIDE DEF body
  <2>1. QED
    BY <1>3, <1>4
<1>6. \A i \in 0 .. Entries : w[i] = IF i = 0 THEN c ELSE step(w[i - 1])
  BY <1>5
<1>7. 0 \in 0 .. Entries /\ w[0] = c /\ \A i \in 1 .. Entries : w[i] = step(w[i - 1])
  BY <1>6, EntriesIs
<1>8. \A i \in 0 .. Entries : w[i] \in Reached
  <2> DEFINE A == {i \in 0 .. Entries : w[i] \in Reached}
  <2>1. 0 \in A
    BY <1>7
  <2>2. ASSUME NEW n \in 0 .. Entries, n \in A, n < Entries PROVE n + 1 \in A
    <3>1. n + 1 \in 1 .. Entries /\ (n + 1) - 1 = n /\ n + 1 \in 0 .. Entries
      BY <2>2, Sizes
    <3>2. w[n + 1] = step(w[n])
      BY <1>7, <3>1
    <3>3. QED
      BY <1>1, <2>2, <3>1, <3>2
  <2> HIDE DEF A
  <2>3. 0 .. Entries \subseteq A
    BY <2>1, <2>2, Sizes, IntervalInduction
  <2>4. QED
    BY <2>3 DEF A
<1>9. w \in [0 .. Entries -> Reached]
  BY <1>5, <1>8
<1>10. QED
  BY <1>5, <1>7, <1>9 DEF step

Views == {v \in [buf : Buffer, todo : Seq(SectorWrite(Cells))] : GoodView(v)}

\* The good views as a set.
LEMMA ViewsAre ==
  ASSUME NEW v
  PROVE  v \in Views <=> GoodView(v)
  BY DEF Views, GoodView

\* Freeing a chain sets entries of clusters.
LEMMA FreeChainGood ==
  ASSUME GoodChip, NEW v, GoodView(v), NEW c \in Cluster \ {0, 1}
  PROVE  GoodView(fatfs_free_cluster_chain(v, c))
<1>1. PICK chain : chain = Walk(v, c) /\ chain \in [0 .. Entries -> Reached]
  BY WalkIs DEF Reached
<1> DEFINE ended(i) == \E j \in 0 .. i - 1 : chain[j] \in {LAST, 0}
           step(i, x) == IF ended(i) THEN x
                         ELSE fatfs_fat_set_cluster(Loaded(x, chain[i - 1]), chain[i - 1], ZERO)
           body(f) == [i \in 0 .. Entries |-> IF i = 0 THEN v ELSE step(i, f[i - 1])]
<1>2. ASSUME NEW i \in 0 .. Entries, i # 0, NEW x \in Views PROVE step(i, x) \in Views
  <2>1. CASE ended(i)
    BY <2>1
  <2>2. CASE ~ended(i)
    <3>1. i - 1 \in 0 .. Entries /\ i - 1 \in 0 .. i - 1
      BY <1>2, Sizes
    <3>2. PICK d \in Cluster \ {0, 1} : d = chain[i - 1]
      BY <1>1, <2>2, <3>1 DEF Reached
    <3>3. GoodView(Loaded(x, d))
      BY ViewsAre, LoadedGood
    <3>4. ZERO \in FatCell
      BY CellsAre
    <3>5. GoodView(fatfs_fat_set_cluster(Loaded(x, d), d, ZERO))
      BY <3>3, <3>4, SetClusterGood
    <3>6. QED
      BY <2>2, <3>2, <3>5, ViewsAre
  <2>3. QED
    BY <2>1, <2>2
<1>3. fatfs_free_cluster_chain(v, c) = (CHOOSE f : f = body(f))[Entries]
  BY <1>1 DEF fatfs_free_cluster_chain, Entries
<1> HIDE DEF step
<1>4. PICK G \in [0 .. Entries -> [Views -> Views]] :
        \A i \in 0 .. Entries \ {0}, x \in Views : G[i][x] = step(i, x)
  <2> DEFINE g == [i \in 0 .. Entries |-> [x \in Views |-> IF i = 0 THEN x ELSE step(i, x)]]
  <2>1. g \in [0 .. Entries -> [Views -> Views]]
    BY <1>2
  <2>2. \A i \in 0 .. Entries \ {0}, x \in Views : g[i][x] = step(i, x)
    OBVIOUS
  <2>3. QED
    BY <2>1, <2>2
<1>5. v \in Views
  BY ViewsAre
<1>6. \E f : f = body(f)
  <2>1. PICK f \in [0 .. Entries -> Views] :
          \A i \in 0 .. Entries : f[i] = IF i = 0 THEN v ELSE G[i][f[i - 1]]
    <3>1. \E f : Steps(f, Entries, Views, v, G)
      BY <1>5, EntriesIs, Recursion
    <3>2. QED
      BY <3>1 DEF Steps
  <2>2. ASSUME NEW i \in 0 .. Entries PROVE f[i] = IF i = 0 THEN v ELSE step(i, f[i - 1])
    <3>1. i # 0 => i - 1 \in 0 .. Entries
      BY Sizes
    <3>2. i # 0 => G[i][f[i - 1]] = step(i, f[i - 1])
      BY <1>4, <2>1, <3>1
    <3>3. QED
      BY <2>1, <3>2
  <2>3. f = body(f)
    BY <2>2
  <2>4. QED
    BY <2>3
<1>7. PICK f : fatfs_free_cluster_chain(v, c) = f[Entries] /\ f = body(f)
  <2> HIDE DEF body
  <2>1. QED
    BY <1>3, <1>6
<1>8. f[Entries] \in Views
  <2> DEFINE A == {i \in 0 .. Entries : f[i] \in Views}
  <2>1. 0 \in A
    BY <1>5, <1>7, Sizes
  <2>2. ASSUME NEW n \in 0 .. Entries, n \in A, n < Entries PROVE n + 1 \in A
    <3>1. n + 1 \in 0 .. Entries /\ (n + 1) - 1 = n /\ n + 1 # 0
      BY <2>2, Sizes
    <3>2. f[n + 1] = step(n + 1, f[n])
      BY <1>7, <3>1
    <3>3. QED
      BY <1>2, <2>2, <3>1, <3>2
  <2> HIDE DEF A
  <2>3. 0 .. Entries \subseteq A
    BY <2>1, <2>2, Sizes, IntervalInduction
  <2>4. QED
    BY <2>3, Sizes DEF A
<1>9. QED
  BY <1>7, <1>8, ViewsAre

\* Reading the entries of the chain of entry 0 stays in a set that no reading of an entry leaves.
LEMMA VisitedIn ==
  ASSUME GoodChip, NEW v, GoodView(v), NEW V, v \in V,
         \A x \in V, d \in Cluster : Loaded(x, d) \in V
  PROVE  Visited(v, 0) \in V
<1>1. PICK chain : chain = Walk(v, 0) /\ chain \in [0 .. Entries -> Reached]
  BY WalkIs DEF Reached
<1> DEFINE ended(i) == \E j \in 0 .. i - 1 : chain[j] = LAST \/ (j > 0 /\ chain[j] = 0)
           step(i, x) == IF ended(i) THEN x
                         ELSE Loaded(x, IF chain[i - 1] = 0 THEN 2 ELSE chain[i - 1])
           body(f) == [i \in 0 .. Entries |-> IF i = 0 THEN v ELSE step(i, f[i - 1])]
<1>2. ASSUME NEW i \in 0 .. Entries, i # 0, NEW x \in V PROVE step(i, x) \in V
  <2>1. CASE ended(i)
    BY <1>2, <2>1
  <2>2. CASE ~ended(i)
    <3>1. i - 1 \in 0 .. Entries /\ i - 1 \in 0 .. i - 1
      BY <1>2, Sizes
    <3>2. PICK d \in Cluster : d = IF chain[i - 1] = 0 THEN 2 ELSE chain[i - 1]
      <4>1. chain[i - 1] \in Reached \ {LAST}
        BY <1>1, <2>2, <3>1
      <4>2. \A c \in Reached \ {LAST} : \E d \in Cluster : d = IF c = 0 THEN 2 ELSE c
        BY Sizes DEF Reached, LAST
      <4>3. QED
        BY <4>1, <4>2
    <3>3. QED
      BY <1>2, <2>2, <3>2
  <2>3. QED
    BY <2>1, <2>2
<1>3. Visited(v, 0) = (CHOOSE f : f = body(f))[Entries]
  BY <1>1 DEF Visited, Entries
<1> HIDE DEF step
<1>4. PICK G \in [0 .. Entries -> [V -> V]] :
        \A i \in 0 .. Entries \ {0}, x \in V : G[i][x] = step(i, x)
  <2> DEFINE g == [i \in 0 .. Entries |-> [x \in V |-> IF i = 0 THEN x ELSE step(i, x)]]
  <2>1. g \in [0 .. Entries -> [V -> V]]
    BY <1>2
  <2>2. \A i \in 0 .. Entries \ {0}, x \in V : g[i][x] = step(i, x)
    OBVIOUS
  <2>3. QED
    BY <2>1, <2>2
<1>5. \E f : f = body(f)
  <2>1. PICK f \in [0 .. Entries -> V] :
          \A i \in 0 .. Entries : f[i] = IF i = 0 THEN v ELSE G[i][f[i - 1]]
    <3>1. \E f : Steps(f, Entries, V, v, G)
      BY <1>4, EntriesIs, Recursion
    <3>2. QED
      BY <3>1 DEF Steps
  <2>2. ASSUME NEW i \in 0 .. Entries PROVE f[i] = IF i = 0 THEN v ELSE step(i, f[i - 1])
    <3>1. i # 0 => i - 1 \in 0 .. Entries
      BY Sizes
    <3>2. i # 0 => G[i][f[i - 1]] = step(i, f[i - 1])
      BY <1>4, <2>1, <3>1
    <3>3. QED
      BY <2>1, <3>2
  <2>3. f = body(f)
    BY <2>2
  <2>4. QED
    BY <2>3
<1>6. PICK f : Visited(v, 0) = f[Entries] /\ f = body(f)
  <2> HIDE DEF body
  <2>1. QED
    BY <1>3, <1>5
<1>7. f[Entries] \in V
  <2> DEFINE A == {i \in 0 .. Entries : f[i] \in V}
  <2>1. 0 \in A
    BY <1>6, Sizes
  <2>2. ASSUME NEW n \in 0 .. Entries, n \in A, n < Entries PROVE n + 1 \in A
    <3>1. n + 1 \in 0 .. Entries /\ (n + 1) - 1 = n /\ n + 1 # 0
      BY <2>2, Sizes
    <3>2. f[n + 1] = step(n + 1, f[n])
      BY <1>6, <3>1
    <3>3. QED
      BY <1>2, <2>2, <3>1, <3>2
  <2> HIDE DEF A
  <2>3. 0 .. Entries \subseteq A
    BY <2>1, <2>2, Sizes, IntervalInduction
  <2>4. QED
    BY <2>3, Sizes DEF A
<1>8. QED
  BY <1>6, <1>7

\* It leaves a view.
LEMMA VisitedGood ==
  ASSUME GoodChip, NEW v, GoodView(v)
  PROVE  GoodView(Visited(v, 0))
<1>1. v \in Views /\ \A x \in Views, d \in Cluster : Loaded(x, d) \in Views
  BY ViewsAre, LoadedGood
<1>2. Visited(v, 0) \in Views
  BY <1>1, VisitedIn
<1>3. QED
  BY <1>2, ViewsAre

\* Adding a cluster to the chain of entry 0.
LEMMA AddChainGood ==
  ASSUME GoodChip, NEW v, GoodView(v), NEW n \in Cluster \ {0, 1}
  PROVE  /\ GoodView(fatfs_fat_add_cluster_to_chain(v, 0, n).v)
         /\ fatfs_fat_add_cluster_to_chain(v, 0, n).ok \in BOOLEAN
<1>1. PICK chain : /\ chain = Walk(v, 0) /\ chain \in [0 .. Entries -> Reached] /\ chain[0] = 0
                   /\ \A i \in 1 .. Entries : chain[i] = IF chain[i - 1] = LAST THEN LAST
                                              ELSE fatfs_find_next_cluster(v, chain[i - 1])
  BY WalkIs DEF Reached
<1> DEFINE ends == {i \in DOMAIN chain \ {0} : chain[i] = LAST /\ \A j \in 1 .. i : chain[j] # 0}
           e == CHOOSE i \in ends : \A j \in ends : i <= j
<1>0. PICK u : u = Visited(v, 0) /\ GoodView(u)
  BY VisitedGood
<1>2. CASE ends = {}
  <2>1. fatfs_fat_add_cluster_to_chain(v, 0, n) = [v |-> u, ok |-> FALSE]
    BY <1>0, <1>1, <1>2 DEF fatfs_fat_add_cluster_to_chain
  <2>2. [v |-> u, ok |-> FALSE].v = u /\ [v |-> u, ok |-> FALSE].ok \in BOOLEAN
    OBVIOUS
  <2>3. QED
    BY <1>0, <2>1, <2>2
<1>3. CASE ends # {}
  <2>1. ends \subseteq Nat
    BY <1>1, Sizes
  <2>2. e \in ends /\ \A j \in ends : e <= j
    <3> HIDE DEF ends
    <3>1. QED
      BY <1>3, <2>1, LeastElement
  <2>3. DOMAIN chain = 0 .. Entries
    BY <1>1
  <2>4. PICK k \in 1 .. Entries :
          /\ k = e /\ chain[k] = LAST /\ (\A j \in 1 .. k : chain[j] # 0)
          /\ \A j \in 1 .. Entries : chain[j] = LAST /\ (\A m \in 1 .. j : chain[m] # 0) => k <= j
    <3> HIDE DEF e
    <3>1. e \in 1 .. Entries /\ chain[e] = LAST /\ \A j \in 1 .. e : chain[j] # 0
      BY <2>2, <2>3, EntriesIs
    <3>2. ASSUME NEW j \in 1 .. Entries, chain[j] = LAST, \A m \in 1 .. j : chain[m] # 0 PROVE j \in ends
      BY <2>3, <3>2, EntriesIs
    <3>3. QED
      BY <2>2, <3>1, <3>2
  <2>5. PICK last \in Cluster : last = chain[e - 1]
    <3>1. PICK m \in 0 .. Entries : m = k - 1 /\ m < k /\ m = e - 1
      <4> HIDE DEF e
      <4>1. k - 1 \in 0 .. Entries /\ k - 1 < k /\ k - 1 = e - 1
        BY <2>4, EntriesIs
      <4>2. QED
        BY <4>1
    <3>2. CASE m = 0
      <4>1. chain[m] \in Cluster
        BY <1>1, <3>2, Sizes
      <4>2. QED
        BY <3>1, <4>1
    <3>3. CASE m # 0
      <4>1. m \in 1 .. Entries /\ 1 .. m \subseteq 1 .. k
        BY <3>1, <3>3
      <4>2. chain[m] # LAST /\ chain[m] # 0
        <5>1. \A j \in 1 .. m : chain[j] # 0
          BY <2>4, <4>1
        <5>2. ~(k <= m)
          BY <3>1
        <5>3. chain[m] # LAST
          BY <2>4, <4>1, <5>1, <5>2
        <5>4. QED
          BY <4>1, <5>1, <5>3
      <4>3. chain[m] \in Cluster
        BY <1>1, <3>1, <4>2 DEF Reached
      <4>4. QED
        BY <3>1, <4>3
    <3>4. QED
      BY <3>2, <3>3
  <2>6. PICK w : w = fatfs_fat_set_cluster(u, last, n) /\ GoodView(w)
    <3>1. n \in FatCell /\ n # ZERO
      BY MarkAssumption DEF FatCell
    <3>2. QED
      BY <1>0, <3>1, SetClusterGood
  <2>7. GoodView(fatfs_fat_set_cluster(w, n, FF))
    BY <2>6, CellsAre, SetClusterGood
  <2>8. fatfs_fat_add_cluster_to_chain(v, 0, n) =
          [v |-> fatfs_fat_set_cluster(w, n, FF), ok |-> TRUE]
    BY <1>0, <1>1, <1>3, <2>5, <2>6 DEF fatfs_fat_add_cluster_to_chain
  <2>9. QED
    <3>1. PICK x : x = fatfs_fat_set_cluster(w, n, FF) /\ GoodView(x)
      BY <2>7
    <3>2. [v |-> x, ok |-> TRUE].v = x /\ [v |-> x, ok |-> TRUE].ok \in BOOLEAN
      OBVIOUS
    <3>3. QED
      BY <2>8, <3>1, <3>2
<1>4. QED
  BY <1>2, <1>3

\* The search finds a free cluster of the data area, or none.
LEMMA BlankGood ==
  ASSUME GoodChip, NEW v, GoodView(v)
  PROVE  /\ GoodView(fatfs_find_blank_cluster(v).v)
         /\ fatfs_find_blank_cluster(v).c \in {LAST} \cup (Cluster \ {0, 1})
<1>1. PICK w : w = Loaded(v, 0) /\ GoodView(w)
  BY Sizes, LoadedGood
<1>2. CASE Blank(v) = {}
  <2>1. fat_begin_lba + FAT_SECTORS - 1 \in FatSectors
    BY Sizes, Regions DEF FatSectors
  <2>2. GoodView(fatfs_fat_read_sector(w, fat_begin_lba + FAT_SECTORS - 1))
    BY <1>1, <2>1, ReadSectorGood
  <2>3. QED
    BY <1>1, <1>2, <2>2 DEF fatfs_find_blank_cluster
<1>3. CASE Blank(v) # {}
  <2>1. Blank(v) \subseteq Nat
    BY Sizes DEF Blank
  <2>2. LowestBlank(v) \in Blank(v)
    BY <1>3, <2>1, LeastElement DEF LowestBlank
  <2>3. LowestBlank(v) \in Cluster \ {0, 1}
    BY <2>2, EntryGood DEF Blank
  <2>4. GoodView(Loaded(w, LowestBlank(v)))
    BY <1>1, <2>3, LoadedGood
  <2>5. QED
    BY <1>1, <1>3, <2>3, <2>4 DEF fatfs_find_blank_cluster
<1>4. QED
  BY <1>2, <1>3
-----------------------------------------------------------------------------
(* The root directory.                                                     *)

\* Sectors are read as good as they were written.
LEMMA SectorGood ==
  ASSUME GoodChip, NEW v, GoodView(v), NEW l \in Lba
  PROVE  GoodSector(l, SectorAfter(v.todo, l))
<1>1. GoodSector(l, SectorIn(chip, l))
  BY DEF GoodChip
<1>2. \A i \in DOMAIN v.todo : GoodSector(v.todo[i].lba, v.todo[i].data)
  BY DEF GoodView, GoodWrite
<1>3. QED
  BY <1>1, <1>2, ViewIs, AfterIsGood, SectorAfterIs

\* What a slot of the root directory holds after the writes.
LEMMA DirEntryGood ==
  ASSUME GoodChip, NEW v, GoodView(v), NEW i \in Slot
  PROVE  DirEntry(v.todo, i) \in DirCell
<1>1. PICK l \in RootSectors, k \in 1 .. SectorSize : l = SlotLba(i) /\ k = ((i - 1) % SectorSize) + 1
  BY SlotLbaIs
<1>2. GoodSector(l, SectorAfter(v.todo, l))
  BY RootSectorIs, SectorGood
<1>3. SectorAfter(v.todo, l)[k] \in DirCell
  BY <1>2 DEF GoodSector
<1>4. QED
  BY <1>1, <1>3 DEF DirEntry

\* The slots of the root directory are numbered from 1.
LEMMA SlotsAre == Slot \subseteq Nat \ {0} /\ ROOT_SECTORS * SectorSize \in Nat /\ Slot = 1 .. ROOT_SECTORS * SectorSize
  BY Sizes DEF Slot

\* The slot found is that of an entry with the name.
LEMMA FileEntryIs ==
  ASSUME GoodChip, NEW v, GoodView(v), NEW f,
         NEW i, i = fatfs_get_file_entry(v.todo, f), i # 0
  PROVE  i \in Slot /\ DirEntry(v.todo, i) \in Entry /\ DirEntry(v.todo, i).name = f
<1>1. SlotsOf(v.todo, f) # {} /\ i = CHOOSE j \in SlotsOf(v.todo, f) : \A k \in SlotsOf(v.todo, f) : j <= k
  BY DEF fatfs_get_file_entry
<1>2. SlotsOf(v.todo, f) \subseteq Nat
  BY SlotsAre DEF SlotsOf
<1>3. i \in SlotsOf(v.todo, f)
  BY <1>1, <1>2, LeastElement
<1>4. i \in Slot /\ IsEntry(DirEntry(v.todo, i)) /\ DirEntry(v.todo, i).name = f
  BY <1>3 DEF SlotsOf
<1>5. DirEntry(v.todo, i) \in DirCell
  BY <1>4, DirEntryGood
<1>6. QED
  BY <1>4, <1>5 DEF IsEntry, DirCell

\* Writing an entry.
LEMMA SetEntryGood ==
  ASSUME GoodChip, NEW v, GoodView(v), NEW i \in Slot, NEW cell \in DirCell
  PROVE  GoodView(SetEntry(v, i, cell)) /\ SetEntry(v, i, cell).buf = v.buf
<1>1. PICK l \in RootSectors, k \in 1 .. SectorSize : l = SlotLba(i) /\ k = ((i - 1) % SectorSize) + 1
  BY SlotLbaIs
<1>2. PICK d : d = SectorAfter(v.todo, l) /\ GoodSector(l, d)
  BY RootSectorIs, SectorGood
<1>3. PICK e : e = [d EXCEPT ![k] = cell]
  OBVIOUS
<1>4. GoodSector(l, e)
  <2>1. cell \in Cells
    BY CellsAre
  <2>2. d \in [1 .. SectorSize -> Cells] /\ \A j \in 1 .. SectorSize : d[j] \in DirCell
    BY <1>2 DEF GoodSector, SectorData
  <2>3. e \in [1 .. SectorSize -> Cells] /\ \A j \in 1 .. SectorSize : e[j] \in DirCell
    BY <1>3, <2>1, <2>2
  <2>4. QED
    BY <2>3, RootSectorIs DEF GoodSector, SectorData
<1>5. SetEntry(v, i, cell) = Asking(v, l, e)
  BY <1>1, <1>2, <1>3 DEF SetEntry
<1>6. QED
  BY <1>4, <1>5, RootSectorIs, AskingGood

\* Clearing a cluster stays within a set of views that its writes do not leave.
LEMMA ClearedIn ==
  ASSUME NEW V, NEW v \in V, NEW c,
         \A i \in 1 .. SECTORS_PER_CLUSTER, x \in V : Asking(x, fatfs_lba_of_cluster(c) + i - 1, Zeros) \in V
  PROVE  Cleared(v, c) \in V
<1>1. PICK N \in Nat : N = SECTORS_PER_CLUSTER
  BY Sizes
<1> DEFINE step(i, x) == Asking(x, fatfs_lba_of_cluster(c) + i - 1, Zeros)
           body(f) == [i \in 0 .. N |-> IF i = 0 THEN v ELSE step(i, f[i - 1])]
<1>2. ASSUME NEW i \in 0 .. N, i # 0, NEW x \in V PROVE step(i, x) \in V
  <2>1. i \in 1 .. SECTORS_PER_CLUSTER
    BY <1>1, <1>2
  <2>2. QED
    BY <2>1
<1>3. Cleared(v, c) = (CHOOSE f : f = body(f))[N]
  BY <1>1 DEF Cleared
<1> HIDE DEF step
<1>4. PICK G \in [0 .. N -> [V -> V]] :
        \A i \in 0 .. N \ {0}, x \in V : G[i][x] = step(i, x)
  <2> DEFINE g == [i \in 0 .. N |-> [x \in V |-> IF i = 0 THEN x ELSE step(i, x)]]
  <2>1. g \in [0 .. N -> [V -> V]]
    BY <1>2
  <2>2. \A i \in 0 .. N \ {0}, x \in V : g[i][x] = step(i, x)
    OBVIOUS
  <2>3. QED
    BY <2>1, <2>2
<1>6. \E f : f = body(f)
  <2>1. PICK f \in [0 .. N -> V] :
          \A i \in 0 .. N : f[i] = IF i = 0 THEN v ELSE G[i][f[i - 1]]
    <3>1. \E f : Steps(f, N, V, v, G)
      BY Recursion
    <3>2. QED
      BY <3>1 DEF Steps
  <2>2. ASSUME NEW i \in 0 .. N PROVE f[i] = IF i = 0 THEN v ELSE step(i, f[i - 1])
    <3>1. i # 0 => i - 1 \in 0 .. N
      OBVIOUS
    <3>2. i # 0 => G[i][f[i - 1]] = step(i, f[i - 1])
      BY <1>4, <2>1, <3>1
    <3>3. QED
      BY <2>1, <3>2
  <2>3. f = body(f)
    BY <2>2
  <2>4. QED
    BY <2>3
<1>7. PICK f : Cleared(v, c) = f[N] /\ f = body(f)
  <2> HIDE DEF body
  <2>1. QED
    BY <1>3, <1>6
<1>8. f[N] \in V
  <2> DEFINE A == {i \in 0 .. N : f[i] \in V}
  <2>1. 0 \in A
    BY <1>7
  <2>2. ASSUME NEW n \in 0 .. N, n \in A, n < N PROVE n + 1 \in A
    <3>1. n + 1 \in 0 .. N /\ (n + 1) - 1 = n /\ n + 1 # 0
      BY <2>2
    <3>2. f[n + 1] = step(n + 1, f[n])
      BY <1>7, <3>1
    <3>3. QED
      BY <1>2, <2>2, <3>1, <3>2
  <2> HIDE DEF A
  <2>3. 0 .. N \subseteq A
    BY <2>1, <2>2, IntervalInduction
  <2>4. QED
    BY <2>3 DEF A
<1>9. QED
  BY <1>7, <1>8

\* Clearing a cluster writes to its sectors.
LEMMA ClearedGood ==
  ASSUME GoodChip, NEW v, GoodView(v), NEW c \in Cluster \ {0, 1}
  PROVE  GoodView(Cleared(v, c))
<1>1. ASSUME NEW i \in 1 .. SECTORS_PER_CLUSTER, NEW x \in Views
      PROVE  Asking(x, fatfs_lba_of_cluster(c) + i - 1, Zeros) \in Views
  <2>1. i - 1 \in 0 .. SECTORS_PER_CLUSTER - 1
    BY <1>1, Sizes
  <2>2. fatfs_lba_of_cluster(c) + (i - 1) = fatfs_lba_of_cluster(c) + i - 1
    <3>1. c - 2 \in Nat /\ rootdir_first_sector \in Nat
      BY Sizes, Regions
    <3>2. (c - 2) * SECTORS_PER_CLUSTER \in Nat
      BY <3>1, Sizes
    <3>3. fatfs_lba_of_cluster(c) \in Nat
      BY <3>1, <3>2, Sizes DEF fatfs_lba_of_cluster
    <3>4. QED
      BY <3>3
  <2>3. PICK l : l = fatfs_lba_of_cluster(c) + (i - 1) /\ Asking(x, fatfs_lba_of_cluster(c) + i - 1, Zeros) = Asking(x, l, Zeros)
    BY <2>2
  <2>4. /\ l \in Lba /\ l >= RESERVED /\ l \notin FatSectors /\ l \notin RootSectors
        /\ l # fat_begin_lba
    BY <2>1, <2>3, ClusterSectorIs
  <2>5. GoodSector(l, Zeros)
    <3>1. Zeros \in SectorData
      BY CellsAre DEF Zeros, SectorData
    <3>2. QED
      BY <2>4, <3>1 DEF GoodSector
  <2>6. GoodView(x)
    BY ViewsAre
  <2>7. GoodView(Asking(x, l, Zeros))
    BY <2>4, <2>5, <2>6, AskingGood
  <2>8. QED
    BY <2>3, <2>7, ViewsAre
<1>2. QED
  BY <1>1, ViewsAre, ClearedIn

\* The run of erased slots in front of slot i begins at i or in front of it, and they are erased.
LEMMA RunBeforeIn ==
  ASSUME NEW td, NEW i \in Nat \ {0}
  PROVE  /\ RunBefore(td, i) \in 1 .. i
         /\ \A k \in RunBefore(td, i) .. i - 1 : DirEntry(td, k) = FF
<1> DEFINE J == {j \in 1 .. i : \A k \in j .. i - 1 : DirEntry(td, k) = FF}
<1>1. J \subseteq Nat /\ i \in J
  OBVIOUS
<1>2. PICK j \in J : \A k \in J : j <= k
  <2> HIDE DEF J
  <2>1. QED
    BY <1>1, LeastElement
<1>3. ASSUME j > 1 PROVE DirEntry(td, j - 1) # FF
  <2>1. SUFFICES ASSUME DirEntry(td, j - 1) = FF PROVE FALSE
    OBVIOUS
  <2>2. j - 1 \in 1 .. i
    BY <1>3
  <2>3. ASSUME NEW k \in j - 1 .. i - 1 PROVE DirEntry(td, k) = FF
    <3>1. k = j - 1 \/ k \in j .. i - 1
      OBVIOUS
    <3>2. QED
      BY <2>1, <3>1
  <2>4. j - 1 \in J
    BY <2>2, <2>3
  <2>5. j <= j - 1
    BY <1>2, <2>4
  <2>6. QED
    BY <2>2, <2>5
<1>4. j \in 1 .. i /\ \A k \in j .. i - 1 : DirEntry(td, k) = FF
  OBVIOUS
<1>5. QED
  BY <1>3, <1>4 DEF RunBefore

MaxLength == FAT_SECTORS * SectorSize * ClusterSize
\* The longest file is a natural number of cells.
LEMMA MaxLengthIs == MaxLength \in Nat
<1>1. ClusterSize \in Nat
  BY Sizes DEF ClusterSize
<1>2. MaxLength = Entries * ClusterSize
  BY DEF MaxLength, Entries
<1>3. \A a, b \in Nat : a * b \in Nat
  OBVIOUS
<1>4. QED
  BY <1>1, <1>2, <1>3, EntriesIs

\* Entering a file.
LEMMA EnteredBehindGood ==
  ASSUME GoodChip, NEW added, GoodView(added.v), added.ok \in BOOLEAN, NEW cell \in DirCell,
         NEW c \in Cluster \ {0, 1}, NEW i
  PROVE  /\ GoodView(EnteredBehind(added, cell, c, i).v)
         /\ EnteredBehind(added, cell, c, i).ok \in BOOLEAN
<1>1. GoodView(Cleared(added.v, c))
  BY ClearedGood
<1>2. CASE ~added.ok
  BY <1>2 DEF EnteredBehind
<1>3. CASE added.ok /\ i \in Slot
  <2>1. PICK x : x = SetEntry(Cleared(added.v, c), i, cell) /\ GoodView(x)
    BY <1>1, <1>3, SetEntryGood
  <2>2. EnteredBehind(added, cell, c, i) = [v |-> x, ok |-> TRUE]
    BY <1>3, <2>1 DEF EnteredBehind
  <2>3. QED
    BY <2>1, <2>2
<1>4. CASE added.ok /\ i \notin Slot
  <2>1. PICK x : x = Cleared(added.v, c) /\ GoodView(x)
    BY <1>1
  <2>2. EnteredBehind(added, cell, c, i) = [v |-> x, ok |-> FALSE]
    BY <1>4, <2>1 DEF EnteredBehind
  <2>3. QED
    BY <2>1, <2>2
<1>5. QED
  BY <1>2, <1>3, <1>4

\* A new directory entry, and the search for room that may extend the root directory.
LEMMA AddEntryGood ==
  ASSUME GoodChip, NEW v, GoodView(v), NEW f \in Names, NEW start \in Cluster \ {0, 1}
  PROVE  /\ GoodView(fatfs_add_file_entry(v, f, start).v)
         /\ fatfs_add_file_entry(v, f, start).ok \in BOOLEAN
<1>1. PICK cell \in DirCell : cell = [name |-> f, start |-> start, len |-> 0]
  <2>1. [name |-> f, start |-> start, len |-> 0] \in Entry
    BY MaxLengthIs DEF Entry, MaxLength
  <2>2. QED
    BY <2>1, CellsAre
<1>2. CASE Vacant(v.todo) # {}
  <2>1. Vacant(v.todo) \subseteq Nat
    BY SlotsAre DEF Vacant
  <2>2. PICK i \in Vacant(v.todo) : i = CHOOSE k \in Vacant(v.todo) : \A j \in Vacant(v.todo) : k <= j
    BY <1>2, <2>1, LeastElement
  <2>3. i \in Slot /\ i \in Nat \ {0}
    BY SlotsAre DEF Vacant
  <2>4. PICK j \in Slot : j = RunBefore(v.todo, i)
    BY <2>3, SlotsAre, RunBeforeIn
  <2>5. PICK x : x = SetEntry(v, j, cell) /\ GoodView(x)
    BY SetEntryGood
  <2>6. fatfs_add_file_entry(v, f, start) = [v |-> x, ok |-> TRUE]
    BY <1>1, <1>2, <2>2, <2>4, <2>5 DEF fatfs_add_file_entry
  <2>7. QED
    BY <2>5, <2>6
<1>3. CASE Vacant(v.todo) = {}
  <2>1. PICK blank : /\ blank = fatfs_find_blank_cluster(v) /\ GoodView(blank.v)
                     /\ blank.c \in {LAST} \cup (Cluster \ {0, 1})
    BY BlankGood
  <2>2. fatfs_add_file_entry(v, f, start) = Extended(blank, cell)
    BY <1>1, <1>3, <2>1 DEF fatfs_add_file_entry
  <2>3. CASE blank.c = LAST
    <3>1. Extended(blank, cell) = [v |-> blank.v, ok |-> FALSE]
      BY <2>3 DEF Extended
    <3>2. QED
      BY <2>1, <2>2, <3>1
  <2>4. CASE blank.c # LAST
    <3>1. PICK added : /\ added = fatfs_fat_add_cluster_to_chain(blank.v, 0, blank.c)
                       /\ GoodView(added.v) /\ added.ok \in BOOLEAN
      BY <2>1, <2>4, AddChainGood
    <3>2. PICK i : Extended(blank, cell) = EnteredBehind(added, cell, blank.c, i)
      BY <2>4, <3>1 DEF Extended
    <3>3. QED
      BY <2>1, <2>2, <2>4, <3>1, <3>2, EnteredBehindGood
  <2>5. QED
    BY <2>3, <2>4
<1>4. QED
  BY <1>2, <1>3

\* Changing the length of a file, and deleting one.
LEMMA UpdateLengthGood ==
  ASSUME GoodChip, NEW v, GoodView(v), NEW f \in Names, NEW len \in 0 .. MaxLength
  PROVE  GoodView(fatfs_update_file_length(v, f, len))
<1>1. PICK i : i = fatfs_get_file_entry(v.todo, f)
  OBVIOUS
<1>2. CASE i = 0
  BY <1>1, <1>2 DEF fatfs_update_file_length
<1>3. CASE i # 0
  <2>1. i \in Slot /\ DirEntry(v.todo, i) \in Entry
    BY <1>1, <1>3, FileEntryIs
  <2>2. [DirEntry(v.todo, i) EXCEPT !.len = len] \in Entry
    BY <2>1 DEF Entry, MaxLength
  <2>3. GoodView(SetEntry(v, i, [DirEntry(v.todo, i) EXCEPT !.len = len]))
    BY <2>1, <2>2, CellsAre, SetEntryGood
  <2>4. QED
    BY <1>1, <1>3, <2>3 DEF fatfs_update_file_length
<1>4. QED
  BY <1>2, <1>3

\* fatfs_mark_file_deleted.
LEMMA DeleteGood ==
  ASSUME GoodChip, NEW v, GoodView(v), NEW f
  PROVE  GoodView(fatfs_mark_file_deleted(v, f))
<1>1. PICK i : i = fatfs_get_file_entry(v.todo, f)
  OBVIOUS
<1>2. CASE i = 0
  BY <1>1, <1>2 DEF fatfs_mark_file_deleted
<1>3. CASE i # 0
  <2>1. i \in Slot
    BY <1>1, <1>3, FileEntryIs
  <2>2. GoodView(SetEntry(v, i, DEL))
    BY <2>1, CellsAre, SetEntryGood
  <2>3. QED
    BY <1>1, <1>3, <2>2 DEF fatfs_mark_file_deleted
<1>4. QED
  BY <1>2, <1>3

-----------------------------------------------------------------------------
(* Files.                                                                  *)

\* What opening gives: at most one file, of the name, and only if there was a handle for it.
Opened(r, f) ==
  /\ GoodView(r.v)
  /\ r.file = <<>> \/ \E h \in OpenFile : r.file = <<h>> /\ h.name = f /\ h.pos = 0 /\ ~NoHandle(f)

\* A handle made from a directory entry.
LEMMA HandleGood ==
  ASSUME NEW f \in Names, NEW start \in Cluster \ {0, 1}, NEW len \in 0 .. MaxLength
  PROVE  /\ Handle(f, start, len) \in OpenFile /\ Handle(f, start, len).name = f
         /\ Handle(f, start, len).pos = 0
<1>1. PICK h : h = Handle(f, start, len)
  OBVIOUS
<1>2. /\ h = [name |-> f, start |-> start, len |-> len, pos |-> 0, data |-> <<>>, dirty |-> FALSE,
              changed |-> FALSE]
      /\ len >= 0
  BY <1>1, MaxLengthIs DEF Handle
<1>3. /\ h \in [name : Names, start : Cluster \ {0, 1},
                len : 0 .. FAT_SECTORS * SectorSize * ClusterSize, pos : Nat,
                data : {<<>>} \cup SectorData, dirty : BOOLEAN, changed : BOOLEAN]
      /\ h.pos <= h.len /\ ~h.dirty /\ h.name = f /\ h.pos = 0
  BY <1>2 DEF MaxLength
<1>4. QED
  BY <1>1, <1>3 DEF OpenFile

\* _open_file.
LEMMA OpenFileGood ==
  ASSUME GoodChip, NEW w, GoodView(w), NEW f \in Names
  PROVE  Opened(open_file(w, f), f)
<1>1. PICK i : i = fatfs_get_file_entry(w.todo, f)
  OBVIOUS
<1>2. CASE NoHandle(f) \/ i = 0
  <2>1. open_file(w, f) = [v |-> w, file |-> <<>>]
    BY <1>1, <1>2 DEF open_file
  <2>2. QED
    BY <2>1 DEF Opened
<1>3. CASE ~NoHandle(f) /\ i # 0
  <2>1. PICK e \in Entry : e = DirEntry(w.todo, i)
    BY <1>1, <1>3, FileEntryIs
  <2>2. PICK h \in OpenFile : h = Handle(f, e.start, e.len) /\ h.name = f /\ h.pos = 0
    <3>1. e.start \in Cluster \ {0, 1} /\ e.len \in 0 .. MaxLength
      BY DEF Entry, MaxLength
    <3>2. QED
      BY <3>1, HandleGood
  <2>3. PICK x : x = fatfs_fat_purge(w) /\ GoodView(x)
    BY PurgeGood
  <2>4. open_file(w, f) = [v |-> x, file |-> <<h>>]
    BY <1>1, <1>3, <2>1, <2>2, <2>3 DEF open_file
  <2>5. QED
    BY <1>3, <2>2, <2>3, <2>4 DEF Opened
<1>4. QED
  BY <1>2, <1>3

\* _create_file.
LEMMA CreateGood ==
  ASSUME GoodChip, NEW w, GoodView(w), NEW f \in Names
  PROVE  Opened(create_file(w, f), f)
<1>1. CASE NoHandle(f) \/ fatfs_get_file_entry(w.todo, f) # 0
  <2>1. create_file(w, f) = [v |-> w, file |-> <<>>]
    BY <1>1 DEF create_file
  <2>2. QED
    BY <2>1 DEF Opened
<1>2. CASE ~NoHandle(f) /\ fatfs_get_file_entry(w.todo, f) = 0
  <2>1. PICK blank : /\ blank = fatfs_find_blank_cluster(w) /\ GoodView(blank.v)
                     /\ blank.c \in {LAST} \cup (Cluster \ {0, 1})
    BY BlankGood
  <2>2. create_file(w, f) = CreatedAt(blank, f)
    BY <1>2, <2>1 DEF create_file
  <2>3. CASE blank.c = LAST
    <3>1. CreatedAt(blank, f) = [v |-> blank.v, file |-> <<>>]
      BY <2>3 DEF CreatedAt
    <3>2. QED
      BY <2>1, <2>2, <3>1 DEF Opened
  <2>4. CASE blank.c # LAST
    <3>1. PICK c \in Cluster \ {0, 1} : c = blank.c
      BY <2>1, <2>4
    <3>2. PICK x : x = fatfs_fat_set_cluster(blank.v, c, FF) /\ GoodView(x)
      BY <2>1, CellsAre, SetClusterGood
    <3>3. PICK added : /\ added = fatfs_add_file_entry(x, f, c)
                       /\ GoodView(added.v) /\ added.ok \in BOOLEAN
      BY <3>2, AddEntryGood
    <3>4. CreatedAt(blank, f) = Created(added, f, c)
      BY <2>4, <3>1, <3>2, <3>3 DEF CreatedAt
    <3>5. CASE added.ok
      <4>1. PICK h \in OpenFile : h = Handle(f, c, 0) /\ h.name = f /\ h.pos = 0
        BY MaxLengthIs, HandleGood
      <4>2. PICK y : y = fatfs_fat_purge(added.v) /\ GoodView(y)
        BY <3>3, PurgeGood
      <4>3. Created(added, f, c) = [v |-> y, file |-> <<h>>]
        BY <3>5, <4>1, <4>2 DEF Created
      <4>4. QED
        BY <1>2, <2>2, <3>4, <4>1, <4>2, <4>3 DEF Opened
    <3>6. CASE ~added.ok
      <4>1. PICK y : y = fatfs_free_cluster_chain(added.v, c) /\ GoodView(y)
        BY <3>3, FreeChainGood
      <4>2. Created(added, f, c) = [v |-> y, file |-> <<>>]
        BY <3>6, <4>1 DEF Created
      <4>3. QED
        BY <2>2, <3>4, <4>1, <4>2 DEF Opened
    <3>7. QED
      BY <3>5, <3>6
  <2>5. QED
    BY <2>3, <2>4
<1>3. QED
  BY <1>1, <1>2

\* fl_fopen for writing: an old file, or a new one.
LEMMA FopenWGood ==
  ASSUME GoodChip, NEW w, GoodView(w), NEW f \in Names
  PROVE  Opened(fopen_w(w, f), f)
<1>1. PICK new : new = create_file(w, f) /\ Opened(new, f)
  BY CreateGood
<1>2. GoodView(new.v)
  BY <1>1 DEF Opened
<1>3. Opened(open_file(new.v, f), f)
  BY <1>2, OpenFileGood
<1>4. QED
  BY <1>1, <1>3 DEF fopen_w, CreatedOrOpen

\* The first sector of a file is that of its first cluster.
LEMMA FirstSectorIs ==
  ASSUME GoodChip, NEW w, GoodView(w), NEW h \in OpenFile
  PROVE  /\ SectorOf(w, h, 0) \in Lba /\ SectorOf(w, h, 0) >= RESERVED
         /\ SectorOf(w, h, 0) \notin FatSectors /\ SectorOf(w, h, 0) \notin RootSectors
         /\ \A d \in SectorData : GoodSector(SectorOf(w, h, 0), d)
<1>1. PICK c \in Cluster \ {0, 1} : c = h.start /\ c # LAST
  BY Sizes DEF OpenFile, LAST
<1>2. PICK N \in Nat \ {0} : N = SECTORS_PER_CLUSTER
  BY Sizes
<1>3. 0 \div N = 0 /\ 0 % N = 0
  BY <1>2
<1>4. Walk(w, c)[0] = c
  BY WalkIs DEF Reached
<1>5. SectorOf(w, h, 0) = fatfs_lba_of_cluster(c) + 0
  BY <1>1, <1>2, <1>3, <1>4 DEF SectorOf
<1>6. PICK l : l = fatfs_lba_of_cluster(c) + 0
  OBVIOUS
<1>7. 0 \in 0 .. SECTORS_PER_CLUSTER - 1
  BY Sizes
<1>8. /\ l \in Lba /\ l >= RESERVED /\ l \notin FatSectors /\ l \notin RootSectors
      /\ l # fat_begin_lba
  BY <1>6, <1>7, ClusterSectorIs
<1>9. QED
  BY <1>5, <1>6, <1>8 DEF GoodSector

\* Reading to the n-th cell from the position reads the table at most.
LEMMA WalkedToIs ==
  ASSUME GoodChip, NEW w, GoodView(w), NEW h \in OpenFile, NEW n \in Nat \ {0}, h.pos + n <= h.len,
         NEW k, k = (h.pos + n - 1) \div SectorSize
  PROVE  WalkedTo(w, h, k) = w \/ \E c \in Cluster : WalkedTo(w, h, k) = Loaded(w, c)
<1>1. PICK N \in Nat \ {0} : N = SECTORS_PER_CLUSTER
  BY Sizes
<1>2. PICK i : i = k \div N
  OBVIOUS
<1>3. i \in 0 .. Entries - 1
  <2>1. PICK p \in Nat : p = h.pos + n - 1 /\ p < MaxLength
    <3>1. h.pos \in Nat /\ h.len \in 0 .. MaxLength
      BY DEF OpenFile, MaxLength
    <3>2. h.pos + n - 1 \in Nat /\ h.pos + n - 1 < MaxLength
      BY <3>1, MaxLengthIs
    <3>3. QED
      BY <3>2
  <2>2. MaxLength = (Entries * N) * SectorSize /\ Entries * N \in Nat
    <3>1. MaxLength = Entries * (N * SectorSize)
      BY <1>1 DEF MaxLength, Entries, ClusterSize
    <3>2. QED
      BY <3>1, EntriesIs, Sizes, ProductAssociates
  <2>3. k \in 0 .. (Entries * N) - 1
    BY <2>1, <2>2, Split
  <2>4. k \in Nat /\ k < Entries * N
    BY <2>2, <2>3
  <2>5. PICK q \in Nat, m \in Nat : q = k \div N /\ m = q * N /\ m <= k
    BY <2>4, DivBounds
  <2>6. q < Entries
    <3>1. q >= Entries => q * N >= Entries * N
      BY EntriesIs
    <3>2. QED
      BY <2>2, <2>4, <2>5, <3>1, EntriesIs
  <2>7. QED
    BY <1>2, <2>5, <2>6, EntriesIs
<1>4. PICK chain : /\ chain = Walk(w, h.start) /\ chain \in [0 .. Entries -> Reached]
                   /\ chain[0] = h.start
  <2>1. h.start \in Reached
    BY DEF OpenFile, Reached
  <2>2. QED
    BY <2>1, WalkIs
<1>5. CASE i = 0
  BY <1>1, <1>2, <1>5 DEF WalkedTo
<1>6. CASE i # 0
  <2> DEFINE last == CHOOSE j \in 0 .. i - 1 : chain[j] # LAST /\ (j + 1 < i => chain[j + 1] = LAST)
             S == {j \in 0 .. i - 1 : chain[j] # LAST}
  <2>1. i - 1 \in Nat /\ S \subseteq 0 .. i - 1 /\ 0 \in S
    <3>1. h.start # LAST
      BY Sizes DEF OpenFile, LAST
    <3>2. QED
      BY <1>3, <1>4, <1>6, <3>1, EntriesIs
  <2>2. PICK j \in S : \A x \in S : x <= j
    <3> HIDE DEF S
    <3>1. QED
      BY <2>1, GreatestElement
  <2>3. j \in 0 .. i - 1 /\ chain[j] # LAST
    OBVIOUS
  <2>4. ASSUME j + 1 < i, chain[j + 1] # LAST PROVE FALSE
    <3>1. j + 1 \in S
      BY <1>3, <2>3, <2>4, EntriesIs
    <3>2. j + 1 <= j
      BY <2>2, <3>1
    <3>3. QED
      BY <2>3, <3>2
  <2>5. last \in 0 .. i - 1 /\ chain[last] # LAST
    BY <2>3, <2>4
  <2>6. PICK c \in Cluster : c = chain[last]
    <3>1. last \in 0 .. Entries
      BY <1>3, <2>5, EntriesIs
    <3>2. chain[last] \in Reached
      BY <1>4, <3>1
    <3>3. 0 \in Cluster
      BY Sizes
    <3> HIDE DEF last
    <3>4. QED
      BY <2>5, <3>2, <3>3 DEF Reached
  <2>7. WalkedTo(w, h, k) = Loaded(w, c)
    BY <1>1, <1>2, <1>4, <1>6, <2>6 DEF WalkedTo
  <2>8. QED
    BY <2>7
<1>7. QED
  BY <1>5, <1>6

\* Reading leaves a good buffer, and gives no more than was asked for.
LEMMA FreadGood ==
  ASSUME GoodChip, NEW w, GoodView(w), NEW h \in OpenFile, NEW n \in Nat, h.pos + n <= h.len
  PROVE  /\ GoodView(fl_fread(w, h, n).v)
         /\ Len(fl_fread(w, h, n).cells) \in 0 .. n
         /\ fl_fread(w, h, n).cells \in Seq({fl_fread(w, h, n).cells[i] :
                                               i \in 1 .. Len(fl_fread(w, h, n).cells)})
<1> DEFINE sector(i) == (h.pos + i - 1) \div SectorSize
           there(i) == SectorOf(w, h, sector(i)) # LAST
           got == CHOOSE m \in 0 .. n : /\ \A i \in 1 .. m : SectorOf(w, h, sector(i)) # LAST
                                        /\ m < n => SectorOf(w, h, sector(m + 1)) = LAST
           cells == [i \in 1 .. got |->
              SectorAfter(w.todo, SectorOf(w, h, sector(i)))[((h.pos + i - 1) % SectorSize) + 1]]
<1>1. fl_fread(w, h, n) = [v |-> IF n = 0 THEN w ELSE WalkedTo(w, h, sector(n)), cells |-> cells]
  BY DEF fl_fread
<1>2. got \in 0 .. n
  <2> DEFINE M == {m \in 0 .. n : \A i \in 1 .. m : there(i)}
  <2> HIDE DEF there
  <2>1. M \subseteq 0 .. n /\ 0 \in M
    OBVIOUS
  <2>2. PICK m \in M : \A k \in M : k <= m
    <3> HIDE DEF M
    <3>1. QED
      BY <2>1, GreatestElement
  <2>3. m \in 0 .. n /\ \A i \in 1 .. m : there(i)
    OBVIOUS
  <2>4. ASSUME m < n, there(m + 1) PROVE FALSE
    <3>1. m + 1 \in 0 .. n
      BY <2>3, <2>4
    <3>2. \A i \in 1 .. m + 1 : i \in 1 .. m \/ i = m + 1
      BY <2>3
    <3>3. m + 1 \in M
      BY <2>3, <2>4, <3>1, <3>2
    <3>4. m + 1 <= m
      BY <2>2, <3>3
    <3>5. QED
      BY <2>3, <3>4
  <2>5. \E x \in 0 .. n : (\A i \in 1 .. x : there(i)) /\ (x < n => ~there(x + 1))
    BY <2>3, <2>4
  <2>6. QED
    BY <2>5 DEF there
<1>3. Len(cells) = got /\ cells \in Seq({cells[i] : i \in 1 .. got})
  <2>1. PICK g \in Nat : g = got
    BY <1>2
  <2> HIDE DEF got, sector
  <2>2. PICK f : f = cells /\ DOMAIN f = 1 .. g
    <3>1. DOMAIN cells = 1 .. g
      BY <2>1
    <3>2. QED
      BY <3>1
  <2>3. f \in [1 .. g -> {f[i] : i \in 1 .. g}]
    <3>1. f = [i \in 1 .. g |-> f[i]]
      BY <2>1, <2>2
    <3>2. QED
      BY <3>1
  <2>4. f \in Seq({f[i] : i \in 1 .. g})
    BY <2>3, SeqDef
  <2>5. Len(f) = g
    <3>1. Len(f) \in Nat /\ DOMAIN f = 1 .. Len(f)
      BY <2>4, LenProperties
    <3>2. PICK m \in Nat : m = Len(f) /\ 1 .. m = 1 .. g
      BY <2>2, <3>1
    <3>3. m \in 1 .. m \/ m = 0
      OBVIOUS
    <3>4. g \in 1 .. g \/ g = 0
      OBVIOUS
    <3>5. m <= g /\ g <= m
      BY <3>2, <3>3, <3>4
    <3>6. QED
      BY <3>2, <3>5
  <2>6. QED
    BY <2>1, <2>2, <2>4, <2>5
<1> HIDE DEF cells, got, sector
<1>4. CASE n = 0
  <2>1. fl_fread(w, h, n) = [v |-> w, cells |-> cells]
    BY <1>1, <1>4
  <2>2. QED
    BY <1>2, <1>3, <2>1
<1>5. CASE n # 0
  <2>1. PICK k : k = sector(n) /\ k = (h.pos + n - 1) \div SectorSize
    BY DEF sector
  <2>2. GoodView(WalkedTo(w, h, k))
    <3>1. n \in Nat \ {0}
      BY <1>5
    <3>2. WalkedTo(w, h, k) = w \/ \E c \in Cluster : WalkedTo(w, h, k) = Loaded(w, c)
      BY <2>1, <3>1, WalkedToIs
    <3>3. QED
      BY <3>2, LoadedGood
  <2>3. PICK x : x = WalkedTo(w, h, k) /\ GoodView(x)
    BY <2>2
  <2>4. fl_fread(w, h, n) = [v |-> x, cells |-> cells]
    BY <1>1, <1>5, <2>1, <2>3
  <2>5. QED
    BY <1>2, <1>3, <2>3, <2>4
<1>6. QED
  BY <1>4, <1>5

\* A text goes into the first sector of the file.
LEMMA FputsGood ==
  ASSUME GoodChip, NEW w, GoodView(w), NEW h \in OpenFile, NEW t \in Texts
  PROVE  fl_fputs(w, h, t) \in OpenFile /\ fl_fputs(w, h, t).name = h.name
<1>1. PICK old \in SectorData : old = SectorAfter(w.todo, SectorOf(w, h, 0))
  <2>1. GoodSector(SectorOf(w, h, 0), SectorAfter(w.todo, SectorOf(w, h, 0)))
    BY FirstSectorIs, SectorGood
  <2>2. QED
    BY <2>1 DEF GoodSector
<1>2. PICK n \in 1 .. SectorSize : n = Len(t)
  BY LineAssumption
<1>3. PICK d \in SectorData : d = [i \in 1 .. SectorSize |-> IF i <= Len(t) THEN t[i] ELSE old[i]]
  <2>1. ASSUME NEW i \in 1 .. SectorSize, i <= Len(t) PROVE t[i] \in Cells
    <3>1. i \in DOMAIN t
      BY <2>1, LineAssumption
    <3>2. t[i] \in UNION {{s[j] : j \in DOMAIN s} : s \in Texts}
      BY <3>1
    <3>3. QED
      BY <3>2 DEF Cells
  <2>2. \A i \in 1 .. SectorSize : old[i] \in Cells
    BY DEF SectorData
  <2>3. QED
    BY <2>1, <2>2 DEF SectorData
<1>4. PICK len \in 0 .. MaxLength : len = (IF n > h.len THEN n ELSE h.len) /\ n <= len
  <2>1. h.len \in 0 .. MaxLength
    BY DEF OpenFile, MaxLength
  <2>2. SectorSize <= MaxLength
    <3>1. ClusterSize \in Nat \ {0}
      BY Sizes DEF ClusterSize
    <3>2. PICK p \in Nat \ {0} : p = FAT_SECTORS * ClusterSize
      BY <3>1, Sizes
    <3>3. MaxLength = p * SectorSize
      BY <3>1, <3>2, Sizes DEF MaxLength
    <3>4. \A a \in Nat \ {0}, b \in Nat : a * b >= b
      OBVIOUS
    <3>5. QED
      BY <3>3, <3>4, Sizes
  <2>3. PICK p : p = IF n > h.len THEN n ELSE h.len
    OBVIOUS
  <2>4. p \in 0 .. MaxLength /\ n <= p
    BY <2>1, <2>2, <2>3, MaxLengthIs, Sizes
  <2>5. QED
    BY <2>3, <2>4
<1>5. PICK g : g = fl_fputs(w, h, t)
  OBVIOUS
<1>6. g = [h EXCEPT !.pos = n, !.dirty = TRUE, !.data = d, !.len = len,
                    !.changed = h.changed \/ n > h.len]
  BY <1>1, <1>2, <1>3, <1>4, <1>5 DEF fl_fputs
<1>7. /\ g.name = h.name /\ g.start = h.start /\ g.len = len /\ g.pos = n /\ g.data = d
      /\ g.dirty = TRUE /\ g.changed = (h.changed \/ n > h.len)
      /\ g = [name |-> g.name, start |-> g.start, len |-> g.len, pos |-> g.pos, data |-> g.data,
              dirty |-> g.dirty, changed |-> g.changed]
  BY <1>6 DEF OpenFile
<1>8. g.name \in Names /\ g.start \in Cluster \ {0, 1} /\ g.changed \in BOOLEAN /\ g.pos \in Nat
  BY <1>7 DEF OpenFile
<1>9. g \in OpenFile
  BY <1>4, <1>7, <1>8 DEF OpenFile, MaxLength
<1>10. QED
  BY <1>5, <1>7, <1>9

\* Closing writes the sector, the length and the FAT.
LEMMA FcloseGood ==
  ASSUME GoodChip, NEW w, GoodView(w), NEW h \in OpenFile
  PROVE  GoodView(fl_fclose(w, h))
<1>1. PICK x : x = fl_fflush(w, h) /\ GoodView(x)
  <2>1. CASE h.dirty
    <3>1. h.data \in SectorData
      BY <2>1 DEF OpenFile
    <3>2. GoodView(Asking(w, SectorOf(w, h, 0), h.data))
      BY <3>1, FirstSectorIs, AskingGood
    <3>3. QED
      BY <2>1, <3>2 DEF fl_fflush
  <2>2. CASE ~h.dirty
    BY <2>2 DEF fl_fflush
  <2>3. QED
    BY <2>1, <2>2
<1>2. PICK y : y = NewLength(x, h) /\ GoodView(y)
  <2>1. h.name \in Names /\ h.len \in 0 .. MaxLength
    BY DEF OpenFile, MaxLength
  <2>2. QED
    BY <1>1, <2>1, UpdateLengthGood DEF NewLength
<1>3. QED
  BY <1>1, <1>2, PurgeGood DEF fl_fclose

\* fl_remove.
LEMMA RemoveGood ==
  ASSUME GoodChip, NEW w, GoodView(w), NEW f \in Names
  PROVE  GoodView(fl_remove(w, f))
<1>1. PICK r : r = open_file(w, f) /\ Opened(r, f)
  BY OpenFileGood
<1>2. CASE r.file = <<>>
  BY <1>1, <1>2 DEF fl_remove, Opened
<1>3. CASE r.file # <<>>
  <2>1. PICK h \in OpenFile : r.file = <<h>> /\ r.file[1] = h
    BY <1>1, <1>3 DEF Opened
  <2>2. h.start \in Cluster \ {0, 1} /\ GoodView(r.v)
    BY <1>1 DEF OpenFile, Opened
  <2>3. PICK x : x = fatfs_free_cluster_chain(r.v, h.start) /\ GoodView(x)
    BY <2>2, FreeChainGood
  <2>4. PICK y : y = fatfs_mark_file_deleted(x, f) /\ GoodView(y)
    BY <2>3, DeleteGood
  <2>5. fl_remove(w, f) = fl_fclose(y, h)
    BY <1>1, <1>3, <2>1, <2>3, <2>4 DEF fl_remove
  <2>6. QED
    BY <2>4, <2>5, FcloseGood
<1>4. QED
  BY <1>2, <1>3

-----------------------------------------------------------------------------
(* The medium and the FAT buffer in the steps of the system.               *)

\* Between two calls nothing is asked for or under way.
LEMMA Quiet ==
  ASSUME FilesInv, Idle
  PROVE  /\ GoodChip /\ GoodView(Now) /\ Now.todo = <<>> /\ Now.buf = buf
         /\ FlashInv(Cells) /\ phase = "idle" /\ Stored = chip /\ Asked = <<>>
<1>1. FlashInv(Cells) /\ todo = <<>> /\ up = TRUE
  BY DEF FilesInv, DiskOK, Idle, BootOK
<1>2. phase = "idle"
  BY <1>1 DEF FlashInv
<1>3. Stored = chip /\ Asked = <<>>
  BY <1>1, <1>2, StoredIsChip DEF FlashInv, Asked
<1>4. GoodChip
  BY <1>3 DEF FilesInv, DiskOK, GoodChip
<1>5. Now = [buf |-> buf, todo |-> <<>>]
  BY <1>1 DEF Now
<1>6. GoodBuffer(buf) /\ (buf.lba # -1 /\ ~buf.dirty => buf.data = SectorAfter(<<>>, buf.lba))
  BY <1>3, SectorAfterIs DEF FilesInv, BufferOK, Final
<1>7. <<>> \in Seq(SectorWrite(Cells)) /\ DOMAIN <<>> = {}
  BY EmptySeq
<1>8. GoodView(Now)
  BY <1>5, <1>6, <1>7 DEF GoodView, GoodBuffer
<1>9. QED
  BY <1>1, <1>2, <1>3, <1>4, <1>5, <1>8

\* Writes behind the reserved sectors leave the boot sector.
LEMMA BootStays ==
  ASSUME NEW td, NEW d, \A i \in DOMAIN td : td[i].lba >= RESERVED
  PROVE  After(td, d, 0) = SectorIn(d, 0)
<1>1. \A i \in DOMAIN td : td[i].lba # 0
  BY Sizes
<1>2. QED
  BY <1>1, AfterNone

\* A call of the library asks for its writes.
LEMMA TakeKeeps ==
  ASSUME FilesInv, Idle, NEW w, GoodView(w), Take(w), up' = up
  PROVE  DiskOK' /\ BufferOK' /\ BootOK' /\ MediumStep
<1>1. PICK b, td : b = w.buf /\ td = w.todo
  OBVIOUS
<1>2. /\ buf' = b /\ todo' = td /\ chip' = chip /\ phase' = phase /\ at' = at /\ src' = src
      /\ up' = TRUE /\ todo = <<>>
  BY <1>1 DEF Take, Idle, FilesInv, BootOK
<1>3. /\ GoodChip /\ FlashInv(Cells) /\ phase = "idle" /\ Stored = chip /\ Asked = <<>>
  BY Quiet
<1>4. /\ td \in Seq(SectorWrite(Cells)) /\ GoodBuffer(b) /\ (\A i \in DOMAIN td : GoodWrite(td[i]))
      /\ b.lba # -1 /\ ~b.dirty => b.data = After(td, chip, b.lba)
  BY <1>1, ViewIs, SectorAfterIs DEF GoodView
<1>5. Asks(Cells)
  BY <1>2, <1>3, <1>4 DEF Asks
<1>6. FlashInv(Cells)' /\ MediumStep
  BY <1>3, <1>5, AsksStep
<1>7. Stored' = chip /\ Asked' = td
  <2>1. Stored' = chip'
    <3>1. FlashTypeOK(Cells)' /\ phase' # "program"
      BY <1>2, <1>3, <1>6 DEF FlashInv
    <3>2. QED
      BY <3>1 DEF Stored, InFlight, FlashTypeOK
  <2>2. QED
    BY <1>2, <1>3, <2>1 DEF Asked
<1>8. DiskOK'
  <2>1. \A l \in Lba : GoodSector(l, SectorIn(Stored', l))
    BY <1>3, <1>7 DEF GoodChip
  <2>2. \A i \in DOMAIN todo' : GoodSector(todo'[i].lba, todo'[i].data)
    BY <1>2, <1>4 DEF GoodWrite
  <2>3. QED
    BY <1>6, <2>1, <2>2 DEF DiskOK
<1>9. BufferOK'
  BY <1>2, <1>4, <1>7 DEF BufferOK, Final
<1>10. BootOK'
  <2>1. Final(0) = SectorIn(chip, 0) /\ Boots(Final(0))
    BY <1>2, <1>3, AfterNone DEF Final, FilesInv, BootOK
  <2>2. Final(0)' = SectorIn(chip, 0)
    BY <1>4, <1>7, BootStays DEF Final, GoodWrite
  <2>3. \A i \in DOMAIN todo' : todo'[i].lba >= RESERVED
    BY <1>2, <1>4 DEF GoodWrite
  <2>4. QED
    BY <1>2, <2>1, <2>2, <2>3 DEF BootOK
<1>11. QED
  BY <1>6, <1>8, <1>9, <1>10

\* So does a step that asks for none.
LEMMA UntouchedKeeps ==
  ASSUME FilesInv, Idle, Untouched, up' = up
  PROVE  DiskOK' /\ BufferOK' /\ BootOK' /\ MediumStep
<1>1. GoodView(Now) /\ Now.todo = <<>> /\ Now.buf = buf /\ todo = <<>>
  BY Quiet DEF Idle
<1>2. Take(Now)
  BY <1>1 DEF Untouched, flashVars, Take
<1>3. QED
  BY <1>1, <1>2, TakeKeeps

\* The writes of a format are the boot sector, the first sector of the first FAT, and zeros up
\* to the end of the root directory.
LEMMA FormatList ==
  \E n \in Nat \ {0} :
    /\ fat_begin_lba \in Nat \ {0} /\ fat_begin_lba + n - 1 = rootdir_first_sector + ROOT_SECTORS
    /\ DOMAIN FormatWrites = 1 .. n /\ FormatWrites = [i \in 1 .. n |-> FormatWrites[i]]
    /\ \A i \in 1 .. n : FormatWrites[i] = CASE i = 1 -> WriteOf(0, BootSector)
                                           [] i = 2 -> WriteOf(fat_begin_lba, FirstFat)
                                           [] OTHER -> WriteOf(fat_begin_lba + i - 2, Zeros)
<1>1. PICK n \in Nat \ {0} : n = 1 + NUM_FATS * FAT_SECTORS + ROOT_SECTORS
  <2>1. NUM_FATS * FAT_SECTORS \in Nat
    BY Sizes
  <2>2. QED
    BY <2>1, Sizes
<1>2. fat_begin_lba \in Nat \ {0} /\ fat_begin_lba + n - 1 = rootdir_first_sector + ROOT_SECTORS
  <2>1. PICK f \in Nat : f = NUM_FATS * FAT_SECTORS
    BY Sizes
  <2>2. n = 1 + f + ROOT_SECTORS /\ rootdir_first_sector = RESERVED + f /\ fat_begin_lba = RESERVED
    BY <1>1, <2>1 DEF rootdir_first_sector, fat_begin_lba
  <2>3. QED
    BY <2>1, <2>2, Sizes
<1>3. FormatWrites = [i \in 1 .. n |-> CASE i = 1 -> WriteOf(0, BootSector)
                                  [] i = 2 -> WriteOf(fat_begin_lba, FirstFat)
                                  [] OTHER -> WriteOf(fat_begin_lba + i - 2, Zeros)]
  BY <1>1 DEF FormatWrites
<1>4. DOMAIN FormatWrites = 1 .. n /\ FormatWrites = [i \in 1 .. n |-> FormatWrites[i]]
  BY <1>3
<1>5. \A i \in 1 .. n : FormatWrites[i] = CASE i = 1 -> WriteOf(0, BootSector)
                                         [] i = 2 -> WriteOf(fat_begin_lba, FirstFat)
                                         [] OTHER -> WriteOf(fat_begin_lba + i - 2, Zeros)
  BY <1>3
<1>6. QED
  BY <1>2, <1>4, <1>5

\* Every write of a format is good, and the first one is the boot sector.
LEMMA FormatIs ==
  /\ FormatWrites \in Seq(SectorWrite(Cells))
  /\ \A i \in DOMAIN FormatWrites : GoodSector(FormatWrites[i].lba, FormatWrites[i].data)
  /\ \A d : After(FormatWrites, d, 0) = BootSector
  /\ Boots(BootSector)
<1>1. PICK n \in Nat \ {0} :
        /\ fat_begin_lba \in Nat \ {0} /\ fat_begin_lba + n - 1 = rootdir_first_sector + ROOT_SECTORS
        /\ DOMAIN FormatWrites = 1 .. n /\ FormatWrites = [i \in 1 .. n |-> FormatWrites[i]]
        /\ \A i \in 1 .. n : FormatWrites[i] = CASE i = 1 -> WriteOf(0, BootSector)
                                               [] i = 2 -> WriteOf(fat_begin_lba, FirstFat)
                                               [] OTHER -> WriteOf(fat_begin_lba + i - 2, Zeros)
  BY FormatList
<1>2. PICK td :
        /\ fat_begin_lba \in Nat \ {0} /\ fat_begin_lba + n - 1 = rootdir_first_sector + ROOT_SECTORS
        /\ td = FormatWrites /\ DOMAIN td = 1 .. n /\ td = [i \in 1 .. n |-> td[i]]
        /\ \A i \in 1 .. n : td[i] = CASE i = 1 -> WriteOf(0, BootSector)
                                     [] i = 2 -> WriteOf(fat_begin_lba, FirstFat)
                                     [] OTHER -> WriteOf(fat_begin_lba + i - 2, Zeros)
  BY <1>1
<1>3. BootSector \in SectorData /\ FirstFat \in SectorData /\ Zeros \in SectorData
  BY CellsAre DEF BootSector, FirstFat, Zeros, SectorData
<1>4. ASSUME NEW i \in 1 .. n
      PROVE  /\ td[i] \in SectorWrite(Cells) /\ GoodSector(td[i].lba, td[i].data)
             /\ i # 1 => td[i].lba # 0
             /\ i = 1 => td[i].lba = 0 /\ td[i].data = BootSector
  <2>1. CASE i = 1
    <3>1. 0 \in Lba /\ 0 \notin FatSectors /\ 0 \notin RootSectors /\ 0 # fat_begin_lba
      <4>1. 0 \notin FatSectors /\ 0 \notin RootSectors
        BY Sizes, Regions DEF FatSectors, RootSectors
      <4>2. 0 \in Lba
        BY Sizes, Regions
      <4>3. QED
        BY <1>2, <4>1, <4>2
    <3>2. td[i] = WriteOf(0, BootSector)
      BY <1>2, <2>1
    <3>3. td[i] \in SectorWrite(Cells) /\ td[i].lba = 0 /\ td[i].data = BootSector
      BY <1>3, <3>1, <3>2, WriteOfIs
    <3>4. QED
      BY <1>3, <2>1, <3>1, <3>3 DEF GoodSector
  <2>2. CASE i = 2
    <3>1. fat_begin_lba \in FatSectors /\ fat_begin_lba \in Lba /\ fat_begin_lba \notin RootSectors
      <4>1. fat_begin_lba \in FatSectors
        BY Sizes, Regions DEF FatSectors
      <4>2. QED
        BY <4>1, FatSectorIs
    <3>2. td[i] = WriteOf(fat_begin_lba, FirstFat)
      BY <1>2, <2>2
    <3>3. td[i] \in SectorWrite(Cells) /\ td[i].lba = fat_begin_lba /\ td[i].data = FirstFat
      BY <1>3, <3>1, <3>2, WriteOfIs
    <3>4. \A j \in 1 .. SectorSize : FirstFat[j] \in FatCell
      BY CellsAre DEF FirstFat
    <3>5. FirstFat[1] # ZERO /\ FirstFat[2] # ZERO
      BY Sizes, MarkAssumption DEF FirstFat
    <3>6. QED
      BY <1>2, <1>3, <2>2, <3>1, <3>3, <3>4, <3>5 DEF GoodSector
  <2>3. CASE i # 1 /\ i # 2
    <3>1. PICK l : l = fat_begin_lba + i - 2
      OBVIOUS
    <3>2. l \in Nat /\ l > fat_begin_lba /\ l # 0 /\ l \in Lba
      <4>1. /\ i \in 3 .. n /\ n \in Nat /\ fat_begin_lba \in Nat \ {0}
            /\ fat_begin_lba + n - 1 = rootdir_first_sector + ROOT_SECTORS
        BY <1>1, <2>3
      <4>2. l \in Nat /\ l > fat_begin_lba /\ l < fat_begin_lba + n - 1
        BY <3>1, <4>1
      <4>3. QED
        BY <4>1, <4>2, Sizes, Regions
    <3>3. td[i] = WriteOf(l, Zeros)
      BY <1>2, <2>3, <3>1
    <3>4. td[i] \in SectorWrite(Cells) /\ td[i].lba = l /\ td[i].data = Zeros
      BY <1>3, <3>2, <3>3, WriteOfIs
    <3>5. \A j \in 1 .. SectorSize : Zeros[j] \in FatCell /\ Zeros[j] \in DirCell
      BY CellsAre DEF Zeros
    <3>6. l # fat_begin_lba
      BY <1>2, <3>2
    <3>7. QED
      BY <1>3, <2>3, <3>2, <3>4, <3>5, <3>6 DEF GoodSector
  <2>4. QED
    BY <2>1, <2>2, <2>3
<1>5. td \in [1 .. n -> SectorWrite(Cells)]
  BY <1>2, <1>4
<1>6. td \in Seq(SectorWrite(Cells))
  BY <1>5, SeqDef
<1>7. ASSUME NEW d PROVE After(td, d, 0) = BootSector
  <2>1. 1 \in DOMAIN td /\ IsLast(td, 0, 1)
    BY <1>2, <1>4 DEF IsLast
  <2>2. QED
    BY <1>2, <1>4, <1>6, <2>1, AfterIs
<1>8. Boots(BootSector)
  BY Sizes DEF Boots, BootSector
<1>9. QED
  BY <1>2, <1>4, <1>6, <1>7, <1>8

\* A format leaves good writes, a boot sector and no FAT buffer.
LEMMA FormatKeeps ==
  ASSUME FilesInv, Format
  PROVE  DiskOK' /\ BufferOK' /\ BootOK' /\ MediumStep
<1>1. /\ Idle /\ buf' = Invalid /\ todo' = FormatWrites /\ chip' = chip /\ phase' = phase
      /\ at' = at /\ src' = src /\ up' = up /\ cmd' = [cmd EXCEPT !.pc = "end"]
      /\ cmd.op = "format"
  BY DEF Format, At, FatAfterFormat, Goto
<1>2. /\ GoodChip /\ FlashInv(Cells) /\ phase = "idle" /\ Stored = chip /\ Asked = <<>>
      /\ todo = <<>> /\ up = TRUE
  BY <1>1, Quiet DEF Idle, FilesInv, BootOK
<1>3. Asks(Cells)
  BY <1>1, <1>2, FormatIs DEF Asks
<1>4. FlashInv(Cells)' /\ MediumStep
  BY <1>2, <1>3, AsksStep
<1>5. Stored' = chip /\ Asked' = FormatWrites
  <2>1. Stored' = chip'
    <3>1. FlashTypeOK(Cells)' /\ phase' # "program"
      BY <1>1, <1>2, <1>4 DEF FlashInv
    <3>2. QED
      BY <3>1 DEF Stored, InFlight, FlashTypeOK
  <2>2. QED
    BY <1>1, <1>2, <2>1 DEF Asked
<1>6. DiskOK'
  <2>1. \A l \in Lba : GoodSector(l, SectorIn(Stored', l))
    BY <1>2, <1>5 DEF GoodChip
  <2>2. \A i \in DOMAIN todo' : GoodSector(todo'[i].lba, todo'[i].data)
    BY <1>1, FormatIs
  <2>3. QED
    BY <1>4, <2>1, <2>2 DEF DiskOK
<1>7. BufferOK'
  BY <1>1 DEF BufferOK, Invalid, GoodBuffer, Buffer
<1>8. BootOK'
  <2>1. Boots(Final(0)')
    BY <1>5, FormatIs DEF Final
  <2>2. cmd'.op = "format"
    BY <1>1 DEF FilesInv, CmdOK
  <2>3. QED
    BY <1>1, <1>2, <2>1, <2>2 DEF BootOK
<1>9. QED
  BY <1>4, <1>6, <1>7, <1>8

\* The commands of the driver drop nothing but the write they have made.
LEMMA WritesLeft ==
  ASSUME FlashStep
  PROVE  todo' = todo \/ (phase = "program" /\ todo' = Tail(todo))
  BY DEF FlashStep, WriteBegin, SPI_Flash_Erase_Sector, SPI_Flash_Write_Page

\* The rest of a list of writes.
LEMMA TailOf ==
  ASSUME NEW S, NEW td \in Seq(S), td # <<>>
  PROVE  /\ Head(td) = td[1] /\ 1 \in DOMAIN td
         /\ \A i \in DOMAIN Tail(td) : i + 1 \in DOMAIN td /\ Tail(td)[i] = td[i + 1]
<1>1. /\ Len(td) \in Nat \ {0} /\ DOMAIN td = 1 .. Len(td) /\ Head(td) = td[1]
      /\ Tail(td) \in Seq(S) /\ Len(Tail(td)) = Len(td) - 1
      /\ \A i \in 1 .. Len(Tail(td)) : Tail(td)[i] = td[i + 1]
  BY EmptySeq, LenProperties, HeadTailProperties
<1>2. DOMAIN Tail(td) = 1 .. Len(td) - 1
  BY <1>1, LenProperties
<1>3. QED
  BY <1>1, <1>2

AllGood(td) == \A i \in DOMAIN td : GoodSector(td[i].lba, td[i].data)

\* The writes behind the one that is under way are good, too, and follow each other as asked.
LEMMA AskedGood ==
  ASSUME FlashInv(Cells), AllGood(todo)
  PROVE  /\ Asked \in Seq(SectorWrite(Cells)) /\ AllGood(Asked)
         /\ \E k \in {0, 1} : \A i \in DOMAIN Asked : i + k \in DOMAIN todo /\ Asked[i] = todo[i + k]
<1>1. todo \in Seq(SectorWrite(Cells)) /\ (phase = "program" => todo # <<>>)
  BY DEF FlashInv, FlashTypeOK
<1>2. CASE phase = "program"
  <2>1. todo # <<>> /\ Asked = Tail(todo)
    BY <1>1, <1>2 DEF Asked
  <2>2. \A i \in DOMAIN Asked : i + 1 \in DOMAIN todo /\ Asked[i] = todo[i + 1]
    BY <1>1, <2>1, TailOf
  <2>3. Asked \in Seq(SectorWrite(Cells))
    BY <1>1, <2>1, HeadTailProperties
  <2>4. QED
    BY <2>2, <2>3 DEF AllGood
<1>3. CASE phase # "program"
  <2>1. Asked = todo /\ DOMAIN todo = 1 .. Len(todo)
    BY <1>1, <1>3, LenProperties DEF Asked
  <2>2. \A i \in DOMAIN Asked : i + 0 \in DOMAIN todo /\ Asked[i] = todo[i + 0]
    BY <2>1
  <2>3. QED
    BY <1>1, <2>1, <2>2
<1>4. QED
  BY <1>2, <1>3

\* A command of the driver makes the oldest write of the array, or none; what all of them will
\* have made of a sector stays.
LEMMA FlashIs ==
  ASSUME FilesInv, FlashWrites
  PROVE  /\ \A l \in Lba : Final(l)' = Final(l)
         /\ \/ UNCHANGED <<Stored, Asked>>
            \/ \E w \in SectorWrite(Cells) :
                 /\ Asked # <<>> /\ w = Head(Asked) /\ GoodSector(w.lba, w.data)
                 /\ Asked' = Tail(Asked) /\ Made(w, Stored, Stored')
<1>1. WriteStep /\ FlashInv(Cells) /\ AllGood(todo)
  BY DriverStep DEF FilesInv, DiskOK, FlashWrites, AllGood
<1>2. Asked \in Seq(SectorWrite(Cells)) /\ AllGood(Asked)
  BY <1>1, AskedGood
<1>3. CASE UNCHANGED <<Stored, Asked>>
  BY <1>3 DEF Final
<1>4. CASE Medium!Write
  <2>1. Asked # <<>> /\ Asked' = Tail(Asked)
    BY <1>4 DEF Medium!Write, Asked
  <2>2. PICK w \in SectorWrite(Cells) : w = Head(Asked) /\ GoodSector(w.lba, w.data)
    BY <1>2, <2>1, TailOf, ElementOfSeq DEF AllGood
  <2>3. PICK k \in Lba : k = w.lba
    BY DEF SectorWrite
  <2>4. Made(w, Stored, Stored')
    <3>1. PICK s : s = SectorStart(k)
      OBVIOUS
    <3>2. /\ [m \in Lba |-> <<SectorStart(m), SectorStart(m) + SectorSize - 1>>][k][1] = s
          /\ [m \in Lba |-> <<SectorStart(m), SectorStart(m) + SectorSize - 1>>][k][2] = s + SectorSize - 1
      BY <3>1
    <3>3. Stored' = [a \in Addr |-> IF a \in s .. s + SectorSize - 1
                                   THEN w.data[a - s + 1] ELSE Stored[a]]
      BY <1>4, <2>2, <2>3, <3>2 DEF Medium!Write, Asked
    <3>4. QED
      BY <2>3, <3>1, <3>3 DEF Made, SectorRange
  <2>5. ASSUME NEW l \in Lba PROVE Final(l)' = Final(l)
    <3>1. After(Tail(Asked), Stored', l) = After(Asked, Stored, l)
      BY <1>2, <2>1, <2>2, <2>4, AfterApplied
    <3>2. QED
      BY <2>1, <3>1 DEF Final
  <2>6. QED
    BY <2>1, <2>2, <2>4, <2>5
<1>5. QED
  BY <1>1, <1>3, <1>4 DEF WriteStep

\* A command of the driver leaves what all the writes asked for will have made of every sector.
LEMMA FlashKeeps ==
  ASSUME FilesInv, FlashWrites
  PROVE  DiskOK' /\ BufferOK' /\ BootOK' /\ MediumStep
<1>1. /\ FlashInv(Cells)' /\ WriteStep /\ FlashInv(Cells)
      /\ up' = up /\ buf' = buf /\ cmd' = cmd /\ lostIn' = lostIn
  BY DriverStep DEF FilesInv, DiskOK, FlashWrites, history
<1>2. MediumStep
  BY <1>1 DEF WriteStep, MediumStep, Medium!Next
<1>3. AllGood(todo) /\ todo \in Seq(SectorWrite(Cells)) /\ (phase = "program" => todo # <<>>)
  BY <1>1 DEF FilesInv, DiskOK, AllGood, FlashInv, FlashTypeOK
<1>4. AllGood(todo') /\ (cmd'.op # "format" => \A i \in DOMAIN todo' : todo'[i].lba >= RESERVED)
  <2>1. cmd'.op # "format" => \A i \in DOMAIN todo : todo[i].lba >= RESERVED
    BY <1>1 DEF FilesInv, BootOK
  <2>2. CASE todo' = todo
    BY <1>3, <2>1, <2>2
  <2>3. CASE phase = "program" /\ todo' = Tail(todo)
    <3>1. todo # <<>>
      BY <1>3, <2>3
    <3>2. \A i \in DOMAIN todo' : i + 1 \in DOMAIN todo /\ todo'[i] = todo[i + 1]
      BY <1>3, <2>3, <3>1, TailOf
    <3>3. QED
      BY <1>3, <2>1, <3>2 DEF AllGood
  <2>4. QED
    BY <2>2, <2>3, WritesLeft DEF FlashWrites
<1>5. \A l \in Lba : Final(l)' = Final(l)
  BY FlashIs
<1>6. ASSUME NEW l \in Lba PROVE GoodSector(l, SectorIn(Stored', l))
  <2>1. GoodSector(l, SectorIn(Stored, l))
    BY DEF FilesInv, DiskOK
  <2>2. CASE UNCHANGED <<Stored, Asked>>
    BY <2>1, <2>2
  <2>3. ASSUME NEW w \in SectorWrite(Cells), GoodSector(w.lba, w.data), Made(w, Stored, Stored')
        PROVE  GoodSector(l, SectorIn(Stored', l))
    <3>1. SectorIn(Stored', l) = IF l = w.lba THEN w.data ELSE SectorIn(Stored, l)
      BY <2>3, SectorWritten
    <3>2. QED
      BY <2>1, <2>3, <3>1
  <2>4. QED
    BY <2>2, <2>3, FlashIs
<1>7. DiskOK'
  BY <1>1, <1>4, <1>6 DEF DiskOK, AllGood
<1>8. BufferOK'
  <2>1. GoodBuffer(buf) /\ (buf.lba # -1 /\ ~buf.dirty => buf.data = Final(buf.lba))
    BY DEF FilesInv, BufferOK
  <2>2. buf.lba # -1 => buf.lba \in Lba
    BY <2>1, FatSectorIs DEF GoodBuffer, Buffer
  <2>3. buf.lba # -1 => Final(buf.lba)' = Final(buf.lba)
    BY <1>1, <1>5, <2>2
  <2>4. QED
    BY <1>1, <2>1, <2>3 DEF BufferOK
<1>9. BootOK'
  <2>1. 0 \in Lba
    BY Sizes, Regions
  <2>2. Final(0)' = Final(0)
    BY <1>5, <2>1
  <2>3. QED
    BY <1>1, <1>4, <2>2 DEF FilesInv, BootOK
<1>10. QED
  BY <1>2, <1>7, <1>8, <1>9

\* A cell that is erased spoils no sector.
LEMMA ErasedGood ==
  ASSUME NEW l, NEW d, NEW e \in [1 .. SectorSize -> Cells], GoodSector(l, d),
         \A i \in 1 .. SectorSize : e[i] = d[i] \/ e[i] = FF
  PROVE  GoodSector(l, e)
<1>1. FF \in FatCell /\ FF \in DirCell /\ FF # ZERO
  BY CellsAre, MarkAssumption
<1>2. l = fat_begin_lba => e[1] # ZERO /\ e[2] # ZERO
  <2>1. 1 \in 1 .. SectorSize /\ 2 \in 1 .. SectorSize
    BY Sizes
  <2>2. QED
    BY <1>1, <2>1 DEF GoodSector
<1>3. QED
  BY <1>1, <1>2 DEF GoodSector, SectorData

\* A failure takes erased cells only, and those of the boot sector only in a format.
LEMMA LossKeeps ==
  ASSUME FilesInv, PowerLoss
  PROVE  DiskOK' /\ BufferOK' /\ BootOK' /\ MediumStep
<1>1. /\ FlashInv(Cells) /\ FlashInv(Cells)' /\ MediumStep /\ FlashLoss
      /\ buf' = Invalid /\ up' = fatfs_init_ok /\ cmd' = AtPrompt /\ up = TRUE
      /\ lostIn' = lostIn \cup Interrupted
  BY LossStep DEF FilesInv, DiskOK, BootOK, PowerLoss
<1>2. todo' = <<>> /\ Stored' = chip /\ Asked' = <<>> /\ chip \in [Addr -> Cells]
  <2>1. todo' = <<>> /\ chip' = chip /\ phase' = "idle"
    BY <1>1 DEF FlashLoss
  <2>2. Stored' = chip'
    <3>1. FlashTypeOK(Cells)' /\ phase' # "program"
      BY <1>1, <2>1 DEF FlashInv
    <3>2. QED
      BY <3>1 DEF Stored, InFlight, FlashTypeOK
  <2>3. chip \in [Addr -> Cells]
    BY <1>1, CellsAre DEF FlashInv, FlashTypeOK
  <2>4. QED
    BY <2>1, <2>2, <2>3 DEF Asked
<1>3. \A a \in Addr : chip[a] = Stored[a] \/ (a \in InFlight /\ chip[a] = FF)
  <2>1. \A a \in InFlight : chip[a] = FF
    BY <1>1 DEF FlashInv, Erased, InFlight
  <2>2. QED
    BY <2>1 DEF Stored
<1>4. ASSUME NEW l \in Lba PROVE GoodSector(l, SectorIn(chip, l))
  <2>1. PICK s \in Nat : s = SectorStart(l) /\ \A i \in 1 .. SectorSize : s + i - 1 \in Addr
    <3>1. 1 \in 1 .. SectorSize
      BY Sizes
    <3>2. QED
      BY <3>1, SectorAddress
  <2>2. GoodSector(l, SectorIn(Stored, l))
    BY DEF FilesInv, DiskOK
  <2>3. SectorIn(chip, l) \in [1 .. SectorSize -> Cells]
    BY <1>2, <2>1 DEF SectorIn
  <2>4. \A i \in 1 .. SectorSize : \/ SectorIn(chip, l)[i] = SectorIn(Stored, l)[i]
                                   \/ SectorIn(chip, l)[i] = FF
    BY <1>3, <2>1 DEF SectorIn
  <2>5. QED
    BY <2>2, <2>3, <2>4, ErasedGood
<1>5. DiskOK'
  BY <1>1, <1>2, <1>4 DEF DiskOK
<1>6. BufferOK'
  BY <1>1 DEF BufferOK, Invalid, GoodBuffer, Buffer
<1>7. BootOK'
  <2>1. Final(0)' = SectorIn(chip, 0)
    BY <1>2, AfterNone DEF Final
  <2>2. fatfs_init_ok <=> Boots(SectorIn(chip, 0))
    <3>1. 1 \in 1 .. SectorSize /\ SectorSize \in 1 .. SectorSize /\ SectorStart(0) = 0
      BY Sizes DEF SectorStart
    <3>2. SectorIn(chip, 0)[1] = chip[0] /\ SectorIn(chip, 0)[SectorSize] = chip[SectorSize - 1]
      BY <3>1, Sizes DEF SectorIn
    <3>3. QED
      BY <3>1, <3>2, Sizes DEF fatfs_init_ok, Boots
  <2>3. ASSUME cmd.op # "format" PROVE Boots(SectorIn(chip, 0))
    <3>1. \A i \in DOMAIN todo : todo[i].lba >= RESERVED
      BY <2>3 DEF FilesInv, BootOK
    <3>2. Boots(SectorIn(Stored, 0))
      <4>1. todo \in Seq(SectorWrite(Cells)) /\ (phase = "program" => todo # <<>>)
        BY <1>1 DEF FlashInv, FlashTypeOK
      <4>2. \A i \in DOMAIN Asked : Asked[i].lba >= RESERVED
        <5>1. phase = "program" => \A i \in DOMAIN Tail(todo) : Tail(todo)[i].lba >= RESERVED
          BY <3>1, <4>1, TailOf
        <5>2. QED
          BY <3>1, <5>1 DEF Asked
      <4>3. Final(0) = SectorIn(Stored, 0)
        BY <4>2, BootStays DEF Final
      <4>4. QED
        BY <1>1, <4>3 DEF FilesInv, BootOK
    <3>3. ASSUME NEW a \in Addr, a < SectorSize PROVE a \notin InFlight
      <4>1. SUFFICES ASSUME a \in InFlight PROVE FALSE
        OBVIOUS
      <4>2. phase = "program" /\ todo # <<>>
        BY <1>1, <4>1 DEF InFlight, FlashInv
      <4>3. a \in BlockRange(WriteAddr)
        BY <1>1, <4>1, <4>2 DEF FlashInv, Erased
      <4>4. PICK l \in Lba : l = Head(todo).lba /\ l >= RESERVED /\ WriteAddr = SectorStart(l)
        <5>1. todo \in Seq(SectorWrite(Cells))
          BY <1>1 DEF FlashInv, FlashTypeOK
        <5>2. Head(todo).lba >= RESERVED
          BY <3>1, <4>2, <5>1, TailOf
        <5>3. Head(todo).lba \in Lba
          BY <1>1, <4>2, HeadWrite DEF FlashInv
        <5>4. QED
          BY <5>2, <5>3 DEF WriteAddr
      <4>5. PICK w \in Nat : w = SectorStart(l) /\ w >= BlockSize
        <5>1. l \in Nat /\ RESERVED \in Nat /\ SectorSize \in Nat
          BY Sizes
        <5>2. \A x, y, z \in Nat : x >= y => x * z >= y * z /\ x * z \in Nat /\ y * z \in Nat
          OBVIOUS
        <5>3. l * SectorSize >= RESERVED * SectorSize /\ l * SectorSize \in Nat /\ RESERVED * SectorSize \in Nat
          BY <4>4, <5>1, <5>2
        <5>4. QED
          BY <5>3, LayoutAssumption, Sizes DEF SectorStart
      <4>6. PICK q \in Nat, m \in Nat : q = w \div BlockSize /\ m = q * BlockSize /\ m <= w /\ w < m + BlockSize
        BY Sizes, DivBounds
      <4>7. q # 0
        BY <4>5, <4>6, Sizes
      <4>8. m >= BlockSize
        <5>1. \A x \in Nat \ {0}, y \in Nat : x * y >= y
          OBVIOUS
        <5>2. QED
          BY <4>6, <4>7, <5>1, Sizes
      <4>9. BlockRange(WriteAddr) = m .. m + BlockSize - 1
        BY <4>4, <4>5, <4>6 DEF BlockRange, BlockStart
      <4>10. SectorSize <= BlockSize
        <5>1. PICK k \in Nat \ {0} : BlockSize = k * SectorSize
          BY WholeSectors
        <5>2. \A x \in Nat \ {0}, y \in Nat : x * y >= y
          OBVIOUS
        <5>3. QED
          BY <5>1, <5>2, Sizes
      <4>11. a \in Nat
        BY DEF Addr
      <4>12. QED
        BY <3>3, <4>3, <4>6, <4>8, <4>9, <4>10, <4>11, Sizes
    <3>4. SectorIn(chip, 0) = SectorIn(Stored, 0)
      <4>1. 0 \in Lba
        BY Sizes, Regions
      <4>2. ASSUME NEW i \in 1 .. SectorSize
            PROVE  chip[SectorStart(0) + i - 1] = Stored[SectorStart(0) + i - 1]
        <5>1. SectorStart(0) + i - 1 \in Addr /\ SectorStart(0) + i - 1 < SectorSize
          BY <4>1, SectorAddress, Sizes DEF SectorStart
        <5>2. QED
          BY <1>3, <3>3, <5>1
      <4>3. QED
        BY <4>2 DEF SectorIn
    <3>5. QED
      BY <3>2, <3>4
  <2>4. cmd.op = "format" => "format" \in lostIn'
    BY <1>1 DEF Interrupted, Writers
  <2>5. up' \in BOOLEAN
    BY <1>1 DEF fatfs_init_ok
  <2>6. IF up' THEN Boots(Final(0)') ELSE "format" \in lostIn'
    BY <1>1, <2>1, <2>2, <2>3, <2>4
  <2>7. QED
    BY <1>2, <2>5, <2>6 DEF BootOK
<1>8. QED
  BY <1>1, <1>5, <1>6, <1>7

\* A volume holds good sectors.
LEMMA VolumeGood ==
  ASSUME NEW d, IsVolume(d), NEW l \in Lba, SectorIn(d, l) \in SectorData
  PROVE  GoodSector(l, SectorIn(d, l))
<1>1. l \in Nat /\ \A i \in 1 .. SectorSize : SectorIn(d, l)[i] = d[l * SectorSize + i - 1]
  BY Sizes DEF SectorIn, SectorStart
<1>2. ASSUME l \in FatSectors, NEW i \in 1 .. SectorSize
      PROVE  \E c \in Cluster : SectorIn(d, l)[i] = d[LinkCell(c)] /\ (l = fat_begin_lba => c = i - 1)
  <2>1. PICK k \in Nat : l = fat_begin_lba + k /\ k < FAT_SECTORS /\ fat_begin_lba \in Nat
    <3>1. l - fat_begin_lba \in Nat /\ l = fat_begin_lba + (l - fat_begin_lba) /\ l - fat_begin_lba < FAT_SECTORS
      BY <1>1, <1>2, Sizes, Regions DEF FatSectors
    <3>2. QED
      BY <3>1, Regions
  <2>2. PICK x \in Nat, y \in Nat : /\ x = fat_begin_lba * SectorSize /\ y = k * SectorSize
                                    /\ l * SectorSize = x + y
    BY <2>1, Sizes
  <2>3. y + SectorSize <= Entries
    <3>1. (k + 1) * SectorSize = y + SectorSize
      BY <2>1, <2>2, Sizes
    <3>2. \A a, b, c \in Nat : a <= b => a * c <= b * c
      OBVIOUS
    <3>3. QED
      BY <2>1, <3>1, <3>2, Sizes DEF Entries
  <2>4. PICK c \in Cluster : c = y + i - 1
    BY <2>2, <2>3, Sizes
  <2>5. LinkCell(c) = l * SectorSize + i - 1
    BY <2>2, <2>4, Sizes DEF LinkCell, SectorStart
  <2>6. l = fat_begin_lba => c = i - 1
    <3>1. l = fat_begin_lba => k = 0
      BY <2>1
    <3>2. k = 0 => y = 0
      BY <2>2, Sizes
    <3>3. QED
      BY <2>4, <3>1, <3>2
  <2>7. QED
    BY <1>1, <2>4, <2>5, <2>6
<1>3. ASSUME l \in RootSectors, NEW i \in 1 .. SectorSize
      PROVE  \E j \in Slot : SectorIn(d, l)[i] = EntryIn(d, j)
  <2>1. PICK r \in Nat : r = rootdir_first_sector
    BY Regions
  <2>2. PICK k \in Nat : l = r + k /\ k < ROOT_SECTORS
    <3>1. l - r \in Nat /\ l = r + (l - r) /\ l - r < ROOT_SECTORS
      BY <1>1, <1>3, <2>1, Sizes DEF RootSectors
    <3>2. QED
      BY <3>1
  <2>3. PICK x \in Nat, y \in Nat : x = r * SectorSize /\ y = k * SectorSize /\ l * SectorSize = x + y
    BY <2>1, <2>2, Sizes
  <2>4. y + SectorSize <= ROOT_SECTORS * SectorSize
    <3>1. (k + 1) * SectorSize = y + SectorSize
      BY <2>2, <2>3, Sizes
    <3>2. \A a, b, c \in Nat : a <= b => a * c <= b * c
      OBVIOUS
    <3>3. QED
      BY <2>2, <3>1, <3>2, Sizes
  <2>5. PICK j \in Slot : j = y + i
    BY <2>3, <2>4, SlotsAre, Sizes
  <2>6. EntryIn(d, j) = d[l * SectorSize + i - 1]
    <3>1. SectorStart(rootdir_first_sector) + j - 1 = l * SectorSize + i - 1
      BY <2>1, <2>3, <2>5, Sizes DEF SectorStart
    <3>2. QED
      BY <3>1 DEF EntryIn
  <2>7. QED
    BY <1>1, <2>5, <2>6
<1>4. \A c \in Cluster : d[LinkCell(c)] \in FatCell
  BY DEF IsVolume, FatCell
<1>5. \A j \in Slot : EntryIn(d, j) \in DirCell
  BY DEF IsVolume, DirCell
<1>6. ASSUME l = fat_begin_lba PROVE SectorIn(d, l)[1] # ZERO /\ SectorIn(d, l)[2] # ZERO
  <2>1. l \in FatSectors /\ 1 \in 1 .. SectorSize /\ 2 \in 1 .. SectorSize
    BY <1>1, <1>6, Sizes, Regions DEF FatSectors
  <2>2. SectorIn(d, l)[1] = d[LinkCell(0)]
    BY <1>2, <1>6, <2>1
  <2>3. SectorIn(d, l)[2] = d[LinkCell(1)]
    BY <1>2, <1>6, <2>1
  <2>4. QED
    BY <2>2, <2>3 DEF IsVolume
<1>7. QED
  BY <1>2, <1>3, <1>4, <1>5, <1>6 DEF GoodSector

-----------------------------------------------------------------------------
(* The handles.                                                            *)

\* A file is opened.
LEMMA HeldAppend ==
  ASSUME NEW fs, NEW names, Held(fs, names), NEW h \in OpenFile, h.name \notin names,
         Len(fs) # MAXOPEN
  PROVE  /\ Held(fs \o <<h>>, names \cup {h.name}) /\ fs \o <<h>> # <<>>
         /\ (fs \o <<h>>)[Len(fs \o <<h>>)] = h
<1>1. PICK n \in Nat : n = Len(fs) /\ DOMAIN fs = 1 .. n /\ fs \in Seq(OpenFile) /\ n + 1 <= MAXOPEN
  BY LenProperties, LineAssumption DEF Held
<1>2. PICK g : /\ g = Append(fs, h) /\ g \in Seq(OpenFile) /\ Len(g) = n + 1
               /\ (\A i \in 1 .. n : g[i] = fs[i]) /\ g[n + 1] = h
  <2>1. /\ Append(fs, h) \in Seq(OpenFile) /\ Len(Append(fs, h)) = Len(fs) + 1
        /\ \A i \in 1 .. Len(fs) : Append(fs, h)[i] = fs[i]
        /\ Append(fs, h)[Len(fs) + 1] = h
    BY <1>1, AppendProperties
  <2>2. QED
    BY <1>1, <2>1
<1>3. fs \o <<h>> = g
  BY <1>1, <1>2, AppendIsConcat
<1>4. DOMAIN g = 1 .. n + 1 /\ g # <<>>
  BY <1>1, <1>2, LenProperties, EmptySeq
<1>5. \A i \in 1 .. n : fs[i].name \in names /\ fs[i].name # h.name
  BY <1>1 DEF Held
<1>6. \A i, j \in DOMAIN g : g[i].name = g[j].name => i = j
  <2>1. ASSUME NEW i \in 1 .. n + 1, NEW j \in 1 .. n + 1, g[i].name = g[j].name PROVE i = j
    <3>1. CASE i \in 1 .. n /\ j \in 1 .. n
      BY <1>1, <1>2, <2>1, <3>1 DEF Held
    <3>2. CASE i = n + 1 \/ j = n + 1
      <4>1. i \in 1 .. n \/ i = n + 1
        BY <1>1
      <4>2. j \in 1 .. n \/ j = n + 1
        BY <1>1
      <4>3. QED
        BY <1>2, <1>5, <2>1, <3>2, <4>1, <4>2
    <3>3. QED
      BY <1>1, <3>1, <3>2
  <2>2. QED
    BY <1>4, <2>1
<1>7. {g[i].name : i \in DOMAIN g} = names \cup {h.name}
  <2>1. \A i \in DOMAIN g : g[i].name \in names \cup {h.name}
    <3>1. \A i \in 1 .. n + 1 : i \in 1 .. n \/ i = n + 1
      BY <1>1
    <3>2. QED
      BY <1>2, <1>4, <1>5, <3>1
  <2>2. ASSUME NEW f \in names PROVE \E i \in DOMAIN g : g[i].name = f
    <3>1. PICK i \in 1 .. n : fs[i].name = f
      BY <1>1 DEF Held
    <3>2. i \in DOMAIN g /\ g[i] = fs[i]
      BY <1>1, <1>2, <1>4
    <3>3. QED
      BY <3>1, <3>2
  <2>3. n + 1 \in DOMAIN g /\ g[n + 1].name = h.name
    BY <1>1, <1>2, <1>4
  <2>4. QED
    BY <2>1, <2>2, <2>3
<1>8. Held(g, names \cup {h.name})
  BY <1>1, <1>2, <1>6, <1>7 DEF Held
<1>9. QED
  BY <1>2, <1>3, <1>4, <1>8

\* A file goes on to be used.
LEMMA HeldSet ==
  ASSUME NEW fs, NEW names, Held(fs, names), fs # <<>>, NEW h \in OpenFile,
         h.name = fs[Len(fs)].name
  PROVE  /\ Held([fs EXCEPT ![Len(fs)] = h], names) /\ [fs EXCEPT ![Len(fs)] = h] # <<>>
         /\ [fs EXCEPT ![Len(fs)] = h][Len([fs EXCEPT ![Len(fs)] = h])] = h
<1>1. PICK n \in Nat \ {0} : n = Len(fs) /\ DOMAIN fs = 1 .. n /\ fs \in Seq(OpenFile)
  BY LenProperties, EmptySeq DEF Held
<1>2. PICK g : /\ g = [fs EXCEPT ![n] = h] /\ g \in Seq(OpenFile) /\ Len(g) = n
               /\ \A j \in 1 .. n : g[j] = IF j = n THEN h ELSE fs[j]
  <2>1. /\ [fs EXCEPT ![n] = h] \in Seq(OpenFile) /\ Len([fs EXCEPT ![n] = h]) = Len(fs)
        /\ \A j \in 1 .. Len(fs) : [fs EXCEPT ![n] = h][j] = IF j = n THEN h ELSE fs[j]
    BY <1>1, ExceptSeq
  <2>2. QED
    BY <1>1, <2>1
<1>3. DOMAIN g = 1 .. n /\ g # <<>> /\ g[n] = h
  BY <1>1, <1>2, LenProperties, EmptySeq
<1>4. \A j \in 1 .. n : g[j].name = fs[j].name
  BY <1>1, <1>2
<1>5. Held(g, names)
  BY <1>1, <1>2, <1>3, <1>4 DEF Held
<1>6. QED
  BY <1>1, <1>2, <1>3, <1>5

\* A file is closed.
LEMMA HeldDrop ==
  ASSUME NEW fs, NEW names, Held(fs, names), fs # <<>>
  PROVE  Held(SubSeq(fs, 1, Len(fs) - 1), names \ {fs[Len(fs)].name})
<1>1. PICK n \in Nat : n + 1 = Len(fs) /\ DOMAIN fs = 1 .. n + 1 /\ fs \in Seq(OpenFile)
  <2>1. fs \in Seq(OpenFile) /\ Len(fs) \in Nat \ {0} /\ DOMAIN fs = 1 .. Len(fs)
    BY LenProperties, EmptySeq DEF Held
  <2>2. Len(fs) - 1 \in Nat /\ (Len(fs) - 1) + 1 = Len(fs)
    BY <2>1
  <2>3. QED
    BY <2>1, <2>2
<1>2. PICK g : g = SubSeq(fs, 1, n) /\ g \in Seq(OpenFile) /\ Len(g) = n /\ \A i \in 1 .. n : g[i] = fs[i]
  <2>1. \A i \in 1 .. n : fs[i] \in OpenFile
    BY <1>1, ElementOfSeq
  <2>2. /\ SubSeq(fs, 1, n) \in Seq(OpenFile)
        /\ Len(SubSeq(fs, 1, n)) = (IF 1 <= n THEN n - 1 + 1 ELSE 0)
        /\ \A i \in 1 .. n - 1 + 1 : SubSeq(fs, 1, n)[i] = fs[1 + i - 1]
    BY <2>1, SubSeqProperties
  <2>3. Len(SubSeq(fs, 1, n)) = n /\ \A i \in 1 .. n : SubSeq(fs, 1, n)[i] = fs[i]
    BY <2>2
  <2>4. QED
    BY <2>2, <2>3
<1>3. DOMAIN g = 1 .. n
  BY <1>2, LenProperties
<1>4. PICK f : f = fs[n + 1].name /\ \A i \in 1 .. n : fs[i].name \in names /\ fs[i].name # f
  <2>1. \A i \in 1 .. n : i \in DOMAIN fs /\ n + 1 \in DOMAIN fs /\ i # n + 1
    BY <1>1
  <2>2. QED
    BY <2>1 DEF Held
<1>5. {g[i].name : i \in DOMAIN g} = names \ {f}
  <2>1. \A i \in DOMAIN g : g[i].name \in names \ {f}
    BY <1>2, <1>3, <1>4
  <2>2. ASSUME NEW x \in names, x # f PROVE \E i \in DOMAIN g : g[i].name = x
    <3>1. PICK i \in 1 .. n + 1 : fs[i].name = x
      BY <1>1 DEF Held
    <3>2. i \in 1 .. n
      BY <1>1, <1>4, <2>2, <3>1
    <3>3. QED
      BY <1>2, <1>3, <3>1, <3>2
  <2>3. QED
    BY <2>1, <2>2
<1>6. Len(g) <= MAXOPEN
  BY <1>1, <1>2, LineAssumption DEF Held
<1>7. \A i, j \in DOMAIN g : g[i].name = g[j].name => i = j
  <2>1. \A i \in 1 .. n : i \in DOMAIN fs /\ g[i] = fs[i]
    BY <1>1, <1>2
  <2>2. QED
    BY <1>3, <2>1 DEF Held
<1>8. Held(g, names \ {f})
  BY <1>2, <1>5, <1>6, <1>7 DEF Held
<1>9. Len(fs) - 1 = n
  BY <1>1
<1>10. QED
  BY <1>1, <1>2, <1>4, <1>8, <1>9

\* There are as many handles as names.
LEMMA HeldCount ==
  ASSUME NEW fs, NEW names, Held(fs, names)
  PROVE  Len(fs) = Cardinality(names)
<1>1. PICK n \in Nat : n = Len(fs) /\ DOMAIN fs = 1 .. n
  BY LenProperties DEF Held
<1>2. PICK f : f = [i \in 1 .. n |-> fs[i].name]
  OBVIOUS
<1>3. f \in [1 .. n -> names] /\ (\A i, j \in 1 .. n : f[i] = f[j] => i = j)
      /\ \A x \in names : \E i \in 1 .. n : f[i] = x
  BY <1>1, <1>2 DEF Held
<1>4. f \in Bijection(1 .. n, names)
  BY <1>3, Fun_IsBij
<1>5. ExistsBijection(1 .. n, names)
  BY <1>4, Fun_ExistsBij
<1>6. QED
  BY <1>1, <1>5, FS_CountingElements

\* No handle bears the name of a file that can be opened.
LEMMA NotHeld ==
  ASSUME NEW names, Held(files, names), NEW f, ~NoHandle(f)
  PROVE  f \notin names /\ Len(files) # MAXOPEN
  BY DEF Held, NoHandle, check_file_open

-----------------------------------------------------------------------------
(* The steps of the shell.                                                 *)

\* A command opens its file.
LEMMA OpenedKeeps ==
  ASSUME HandlesOK, ~Holding, cmd.pc # "spin", NEW r, Opened(r, cmd.name), files' = files \o r.file,
         kept' = kept, cmd'.name = cmd.name, cmd'.pc # "spin",
         r.file = <<>> => ~Holding', r.file # <<>> => Holding'
  PROVE  HandlesOK'
<1>1. Held(files, kept) /\ files \in Seq(OpenFile)
  BY DEF HandlesOK, Held
<1>2. CASE r.file = <<>>
  <2>1. files' = files /\ ~Holding' /\ cmd'.pc # "load"
    BY <1>1, <1>2, ConcatEmptySeq DEF Holding
  <2>2. QED
    BY <1>1, <2>1 DEF HandlesOK
<1>3. CASE r.file # <<>>
  <2>1. PICK h \in OpenFile : r.file = <<h>> /\ h.name = cmd.name /\ h.pos = 0 /\ ~NoHandle(cmd.name)
    BY <1>3 DEF Opened
  <2>2. cmd.name \notin kept /\ Len(files) # MAXOPEN
    BY <1>1, <2>1, NotHeld
  <2>3. PICK fs : fs = files' /\ Held(fs, kept \cup {cmd.name}) /\ fs # <<>> /\ fs[Len(fs)] = h
    BY <1>1, <2>1, <2>2, HeldAppend
  <2>4. file' = h
    BY <2>3 DEF file
  <2>5. Holding'
    BY <1>3
  <2>6. QED
    BY <2>1, <2>2, <2>3, <2>4, <2>5 DEF HandlesOK
<1>4. QED
  BY <1>2, <1>3

\* It uses the file, and keeps its handle.
LEMMA UsedKeeps ==
  ASSUME HandlesOK, Holding, NEW h \in OpenFile, h.name = file.name, SetFile(h), kept' = kept,
         cmd'.name = cmd.name, Holding' \/ cmd'.pc = "spin", cmd'.pc # "load"
  PROVE  HandlesOK'
<1>1. /\ Held(files, kept \cup {cmd.name}) /\ files # <<>> /\ h.name = cmd.name
      /\ cmd.name \notin kept /\ h.name = files[Len(files)].name
  BY DEF HandlesOK, Holding, file
<1>2. PICK fs : fs = files' /\ Held(fs, kept \cup {cmd.name}) /\ fs # <<>> /\ fs[Len(fs)] = h
  BY <1>1, HeldSet DEF SetFile
<1>3. file' = h
  BY <1>2 DEF file
<1>4. QED
  BY <1>1, <1>2, <1>3 DEF HandlesOK

\* The file of the command.
LEMMA FileIs ==
  ASSUME HandlesOK, Holding
  PROVE  /\ file \in OpenFile /\ file.name = cmd.name /\ files # <<>>
         /\ file.pos \in Nat /\ file.len \in Nat /\ file.pos <= file.len
<1>1. files \in Seq(OpenFile) /\ files # <<>> /\ file.name = cmd.name
  BY DEF HandlesOK, Holding, Held
<1>2. Len(files) \in 1 .. Len(files)
  BY <1>1, EmptySeq, LenProperties
<1>3. file \in OpenFile
  BY <1>1, <1>2, ElementOfSeq DEF file
<1>4. QED
  BY <1>1, <1>3 DEF OpenFile

\* A command goes on.
LEMMA GotoKeeps ==
  ASSUME CmdOK, NEW p, NEW k, cmd' = [cmd EXCEPT !.pc = p] \/ cmd' = [cmd EXCEPT !.ok = k, !.pc = p],
         \/ cmd.op \in Readers /\ p \in ReaderPcs
         \/ cmd.op = "put" /\ p \in {"open", "puts", "close", "end"}
         \/ cmd.op = "format" /\ p \in {"format", "end"}
  PROVE  CmdOK' /\ cmd'.name = cmd.name /\ cmd'.pc = p /\ cmd'.op = cmd.op
<1>1. PICK o, n, t, q, b : cmd = [op |-> o, name |-> n, text |-> t, pc |-> q, ok |-> b]
  BY DEF CmdOK
<1>2. PICK c : cmd' = [op |-> o, name |-> n, text |-> t, pc |-> p, ok |-> c]
  BY <1>1
<1>3. QED
  BY <1>1, <1>2 DEF CmdOK, Readers

\* The shell takes a line.
LEMMA ReadLineKeeps ==
  ASSUME FilesInv, ReadLine
  PROVE  FilesInv' /\ MediumStep
<1>1. /\ Idle /\ cmd.pc = "prompt" /\ count < MaxCommands /\ Untouched /\ up' = up /\ files' = files
      /\ kept' = kept /\ count' = count + 1 /\ UNCHANGED <<stale, risk, losses>>
  BY DEF ReadLine, At
<1>2. DiskOK' /\ BufferOK' /\ BootOK' /\ MediumStep
  BY <1>1, UntouchedKeeps
<1>3. CmdOK' /\ cmd'.pc \in {"open", "format"}
  <2>1. CASE \E op \in {"cat", "run", "rm", "touch"}, f \in Names :
               cmd' = [op |-> op, name |-> f, text |-> <<>>, pc |-> "open", ok |-> FALSE]
    BY <2>1 DEF CmdOK, Readers, ReaderPcs
  <2>2. CASE \E f \in Names, t \in Texts :
               cmd' = [op |-> "put", name |-> f, text |-> t, pc |-> "open", ok |-> FALSE]
    BY <2>2 DEF CmdOK
  <2>3. CASE cmd' = [op |-> "format", name |-> NoFile, text |-> <<>>, pc |-> "format", ok |-> FALSE]
    BY <2>3 DEF CmdOK
  <2>4. QED
    BY <2>1, <2>2, <2>3 DEF ReadLine
<1>4. HandlesOK'
  <2>1. Held(files, kept)
    BY <1>1 DEF FilesInv, HandlesOK, Holding
  <2>2. ~Holding' /\ cmd'.pc \notin {"load", "spin"}
    BY <1>3 DEF Holding
  <2>3. QED
    BY <1>1, <2>1, <2>2 DEF HandlesOK
<1>5. CountsOK'
  BY <1>1, LineAssumption DEF FilesInv, CountsOK
<1>6. QED
  BY <1>2, <1>3, <1>4, <1>5 DEF FilesInv

\* A command opens an existing file, or ends.
LEMMA OpenReadKeeps ==
  ASSUME FilesInv, OpenRead
  PROVE  FilesInv' /\ MediumStep
<1>1. /\ Idle /\ cmd.op \in {"cat", "run", "rm", "touch"} /\ cmd.pc = "open" /\ CmdOK
      /\ up' = up /\ UNCHANGED history /\ HandlesOK
  BY DEF OpenRead, At, FilesInv
<1>2. PICK f \in Names : f = cmd.name
  BY <1>1 DEF CmdOK, Readers
<1>3. PICK r : r = open_file(Now, f) /\ Opened(r, f)
  BY <1>1, Quiet, OpenFileGood
<1>4. PICK p : /\ cmd' = [cmd EXCEPT !.pc = p] /\ Take(r.v) /\ files' = files \o r.file
               /\ r.file = <<>> => p \in {"create", "end"} /\ (p = "create" => cmd.op = "touch")
               /\ r.file # <<>> => p \in {"read", "load", "remove", "close"}
  <2> DEFINE found == [cat |-> "read", run |-> "load", rm |-> "remove", touch |-> "close"]
             p == IF r.file # <<>> THEN found[cmd.op] ELSE IF cmd.op = "touch" THEN "create" ELSE "end"
  <2>1. cmd' = [cmd EXCEPT !.pc = p] /\ Take(r.v) /\ files' = files \o r.file
    BY <1>2, <1>3 DEF OpenRead, Goto
  <2>2. r.file = <<>> => p \in {"create", "end"} /\ (p = "create" => cmd.op = "touch")
    OBVIOUS
  <2>3. found[cmd.op] \in {"read", "load", "remove", "close"}
    BY <1>1
  <2>4. r.file # <<>> => p \in {"read", "load", "remove", "close"}
    BY <2>3
  <2>5. QED
    BY <2>1, <2>2, <2>4
<1>5. DiskOK' /\ BufferOK' /\ BootOK' /\ MediumStep
  BY <1>1, <1>3, <1>4, TakeKeeps DEF Opened
<1>6. CmdOK' /\ cmd'.name = cmd.name /\ cmd'.pc = p
  <2>1. p \in {"create", "end", "read", "load", "remove", "close"}
    BY <1>4
  <2>2. QED
    BY <1>1, <1>4, <2>1, GotoKeeps DEF Readers, ReaderPcs
<1>7. HandlesOK'
  <2>1. ~Holding /\ cmd.pc # "spin"
    BY <1>1 DEF Holding
  <2>2. cmd'.pc # "spin" /\ (r.file = <<>> => ~Holding') /\ (r.file # <<>> => Holding')
    BY <1>4, <1>6 DEF Holding
  <2>3. QED
    BY <1>1, <1>2, <1>3, <1>4, <1>6, <2>1, <2>2, OpenedKeeps DEF history
<1>8. CountsOK'
  BY <1>1 DEF FilesInv, CountsOK, history
<1>9. QED
  BY <1>5, <1>6, <1>7, <1>8 DEF FilesInv

\* A command opens a file for writing, or ends.
LEMMA OpenWriteKeeps ==
  ASSUME FilesInv, OpenWrite
  PROVE  FilesInv' /\ MediumStep
<1>1. /\ Idle /\ CmdOK /\ HandlesOK /\ up' = up /\ UNCHANGED history
      /\ \/ cmd.op = "put" /\ cmd.pc = "open"
         \/ cmd.op = "touch" /\ cmd.pc = "create"
  BY DEF OpenWrite, At, FilesInv
<1>2. PICK f \in Names : f = cmd.name
  BY <1>1 DEF CmdOK, Readers
<1>3. PICK r : r = fopen_w(Now, f) /\ Opened(r, f)
  BY <1>1, Quiet, FopenWGood
<1>4. PICK p, k : /\ cmd' = [cmd EXCEPT !.ok = k, !.pc = p] /\ k \in BOOLEAN
                  /\ Take(r.v) /\ files' = files \o r.file
                  /\ p = IF r.file = <<>> THEN "end" ELSE IF cmd.op = "put" THEN "puts" ELSE "close"
  BY <1>2, <1>3 DEF OpenWrite
<1>5. DiskOK' /\ BufferOK' /\ BootOK' /\ MediumStep
  BY <1>1, <1>3, <1>4, TakeKeeps DEF Opened
<1>6. CmdOK' /\ cmd'.name = cmd.name /\ cmd'.pc = p
  BY <1>1, <1>4, GotoKeeps DEF Readers, ReaderPcs
<1>7. HandlesOK'
  <2>1. ~Holding /\ cmd.pc # "spin"
    BY <1>1 DEF Holding
  <2>2. cmd'.pc # "spin" /\ (r.file = <<>> => ~Holding') /\ (r.file # <<>> => Holding')
    BY <1>4, <1>6 DEF Holding
  <2>3. QED
    BY <1>1, <1>2, <1>3, <1>4, <1>6, <2>1, <2>2, OpenedKeeps DEF history
<1>8. CountsOK'
  BY <1>1 DEF FilesInv, CountsOK, history
<1>9. QED
  BY <1>5, <1>6, <1>7, <1>8 DEF FilesInv

\* A file whose position moves within it.
LEMMA MovedFile ==
  ASSUME NEW h \in OpenFile, NEW n \in Nat, n <= h.len
  PROVE  [h EXCEPT !.pos = n] \in OpenFile /\ [h EXCEPT !.pos = n].name = h.name
  BY DEF OpenFile

\* fgetc moves by one cell at most, never past the end of the file.
LEMMA FgetcKeeps ==
  ASSUME FilesInv, Fgetc
  PROVE  FilesInv' /\ MediumStep
<1>1. /\ Idle /\ CmdOK /\ HandlesOK /\ up' = up /\ UNCHANGED history
      /\ cmd.op = "cat" /\ cmd.pc = "read" /\ Holding
  BY DEF Fgetc, At, FilesInv, Holding
<1>2. PICK h \in OpenFile : /\ h = file /\ h.name = cmd.name /\ h.pos \in Nat /\ h.len \in Nat
                            /\ h.pos <= h.len
  BY <1>1, FileIs
<1>3. CountsOK'
  BY <1>1 DEF FilesInv, CountsOK, history
<1>4. CASE fl_feof(file)
  <2>1. /\ cmd' = [cmd EXCEPT !.pc = "close"] /\ Untouched /\ files' = files
    BY <1>4 DEF Fgetc, Goto
  <2>2. DiskOK' /\ BufferOK' /\ BootOK' /\ MediumStep
    BY <1>1, <2>1, UntouchedKeeps
  <2>3. CmdOK' /\ cmd'.name = cmd.name /\ cmd'.pc = "close"
    BY <1>1, <2>1, GotoKeeps DEF Readers, ReaderPcs
  <2>4. HandlesOK'
    BY <1>1, <2>1, <2>3 DEF HandlesOK, Holding, history, file
  <2>5. QED
    BY <1>3, <2>2, <2>3, <2>4 DEF FilesInv
<1>5. CASE ~fl_feof(file)
  <2>1. h.pos + 1 <= h.len
    BY <1>2, <1>5 DEF fl_feof
  <2>2. PICK r : /\ r = fl_fread(Now, h, 1) /\ GoodView(r.v) /\ Len(r.cells) \in 0 .. 1
    BY <1>1, <2>1, Quiet, FreadGood
  <2>3. PICK p : /\ cmd' = [cmd EXCEPT !.pc = p] /\ p \in {"spin", "read"}
                 /\ Take(r.v) /\ SetFile([h EXCEPT !.pos = h.pos + Len(r.cells)])
    <3>1. /\ Goto(IF r.cells = <<>> THEN "spin" ELSE "read") /\ Take(r.v)
          /\ SetFile([h EXCEPT !.pos = @ + Len(r.cells)])
      BY <1>2, <1>5, <2>2 DEF Fgetc
    <3>2. QED
      BY <3>1 DEF Goto
  <2>4. PICK n \in Nat : n = h.pos + Len(r.cells) /\ n <= h.len
    <3>1. PICK k \in Nat : k = Len(r.cells) /\ k <= 1
      <4>1. \A k : k \in 0 .. 1 => k \in Nat /\ k <= 1
        OBVIOUS
      <4>2. QED
        BY <2>2, <4>1
    <3>2. h.pos + k \in Nat /\ h.pos + k <= h.len
      <4>1. \A x, y, z \in Nat : x + 1 <= y /\ z <= 1 => x + z \in Nat /\ x + z <= y
        OBVIOUS
      <4>2. QED
        BY <1>2, <2>1, <3>1, <4>1
    <3>3. QED
      BY <3>1, <3>2
  <2>5. PICK g \in OpenFile : g = [h EXCEPT !.pos = n] /\ g.name = h.name
    BY <2>4, MovedFile
  <2>6. DiskOK' /\ BufferOK' /\ BootOK' /\ MediumStep
    BY <1>1, <2>2, <2>3, TakeKeeps
  <2>7. CmdOK' /\ cmd'.name = cmd.name /\ cmd'.pc = p
    BY <1>1, <2>3, GotoKeeps DEF Readers, ReaderPcs
  <2>8. HandlesOK'
    <3>1. (Holding' \/ cmd'.pc = "spin") /\ cmd'.pc # "load" /\ kept' = kept
      BY <1>1, <2>3, <2>7 DEF Holding, history
    <3>2. SetFile(g) /\ g.name = file.name
      BY <1>2, <2>3, <2>4, <2>5
    <3>3. QED
      BY <1>1, <2>7, <3>1, <3>2, UsedKeeps
  <2>9. QED
    BY <1>3, <2>6, <2>7, <2>8 DEF FilesInv
<1>6. QED
  BY <1>4, <1>5

\* The loader reads the whole file, from its beginning.
LEMMA LoadKeeps ==
  ASSUME FilesInv, Load
  PROVE  FilesInv' /\ MediumStep
<1>1. /\ Idle /\ CmdOK /\ HandlesOK /\ up' = up /\ UNCHANGED history
      /\ cmd.op = "run" /\ cmd.pc = "load" /\ Holding
  BY DEF Load, At, FilesInv, Holding
<1>2. CountsOK'
  BY <1>1 DEF FilesInv, CountsOK, history
<1>3. CASE LoadFails
  <2>1. cmd' = [cmd EXCEPT !.pc = "drop"] /\ Untouched /\ files' = files
    BY <1>3 DEF LoadFails, Goto
  <2>2. DiskOK' /\ BufferOK' /\ BootOK' /\ MediumStep
    BY <1>1, <2>1, UntouchedKeeps
  <2>3. CmdOK' /\ cmd'.name = cmd.name /\ cmd'.pc = "drop"
    BY <1>1, <2>1, GotoKeeps DEF Readers, ReaderPcs
  <2>4. HandlesOK'
    BY <1>1, <2>1, <2>3 DEF HandlesOK, Holding, history, file
  <2>5. QED
    BY <1>2, <2>2, <2>3, <2>4 DEF FilesInv
<1>4. CASE LoadRead
  <2>1. PICK h \in OpenFile : h = file /\ h.name = cmd.name /\ h.pos = 0 /\ h.len \in Nat
    BY <1>1, FileIs DEF HandlesOK
  <2>2. PICK r : r = fl_fread(Now, h, h.len) /\ GoodView(r.v) /\ Len(r.cells) \in 0 .. h.len
    <3>1. h.pos + h.len <= h.len /\ h.len \in Nat
      BY <2>1
    <3>2. QED
      BY <1>1, <2>1, <3>1, Quiet, FreadGood
  <2>3. PICK p \in {"close", "drop", "spin"} :
          cmd' = [cmd EXCEPT !.pc = p] /\ Take(r.v) /\ SetFile([h EXCEPT !.pos = Len(r.cells)])
    <3>1. \E p \in IF Len(r.cells) = h.len THEN {"close", "drop", "spin"} ELSE {"close"} :
            cmd' = [cmd EXCEPT !.pc = p]
      BY <1>4, <2>1, <2>2 DEF LoadRead, Goto
    <3>2. Take(r.v) /\ SetFile([h EXCEPT !.pos = Len(r.cells)])
      BY <1>4, <2>1, <2>2 DEF LoadRead
    <3>3. QED
      BY <3>1, <3>2
  <2>4. PICK g \in OpenFile : g = [h EXCEPT !.pos = Len(r.cells)] /\ g.name = h.name
    <3>1. Len(r.cells) \in Nat /\ Len(r.cells) <= h.len
      BY <2>1, <2>2
    <3>2. QED
      BY <2>1, <3>1, MovedFile
  <2>5. DiskOK' /\ BufferOK' /\ BootOK' /\ MediumStep
    BY <1>1, <2>2, <2>3, TakeKeeps
  <2>6. CmdOK' /\ cmd'.name = cmd.name /\ cmd'.pc = p
    BY <1>1, <2>3, GotoKeeps DEF Readers, ReaderPcs
  <2>7. HandlesOK'
    <3>1. (Holding' \/ cmd'.pc = "spin") /\ cmd'.pc # "load" /\ kept' = kept
      BY <1>1, <2>3, <2>6 DEF Holding, history
    <3>2. SetFile(g) /\ g.name = file.name
      BY <2>1, <2>3, <2>4
    <3>3. QED
      BY <1>1, <2>6, <3>1, <3>2, UsedKeeps
  <2>8. QED
    BY <1>2, <2>5, <2>6, <2>7 DEF FilesInv
<1>5. QED
  BY <1>3, <1>4 DEF Load

\* fputs changes the handle only.
LEMMA FputsKeeps ==
  ASSUME FilesInv, Fputs
  PROVE  FilesInv' /\ MediumStep
<1>1. /\ Idle /\ CmdOK /\ HandlesOK /\ up' = up /\ UNCHANGED history /\ Untouched
      /\ cmd.op = "put" /\ cmd.pc = "puts" /\ Holding /\ cmd' = [cmd EXCEPT !.pc = "close"]
      /\ SetFile(fl_fputs(Now, file, cmd.text))
  BY DEF Fputs, At, FilesInv, Holding, Goto
<1>2. cmd.text \in Texts
  BY <1>1 DEF CmdOK, Readers
<1>3. PICK g \in OpenFile : g = fl_fputs(Now, file, cmd.text) /\ g.name = file.name
  BY <1>1, <1>2, Quiet, FileIs, FputsGood
<1>4. DiskOK' /\ BufferOK' /\ BootOK' /\ MediumStep
  BY <1>1, UntouchedKeeps
<1>5. CmdOK' /\ cmd'.name = cmd.name /\ cmd'.pc = "close"
  BY <1>1, GotoKeeps DEF Readers, ReaderPcs
<1>6. HandlesOK'
  <2>1. Holding' /\ cmd'.pc # "load" /\ kept' = kept
    BY <1>1, <1>5 DEF Holding, history
  <2>2. QED
    BY <1>1, <1>3, <1>5, <2>1, UsedKeeps
<1>7. CountsOK'
  BY <1>1 DEF FilesInv, CountsOK, history
<1>8. QED
  BY <1>4, <1>5, <1>6, <1>7 DEF FilesInv

\* The handle that rm has opened stays in use.
LEMMA FRemoveKeeps ==
  ASSUME FilesInv, FRemove
  PROVE  FilesInv' /\ MediumStep
<1>1. /\ Idle /\ CmdOK /\ HandlesOK /\ up' = up /\ files' = files /\ UNCHANGED <<risk, count, losses>>
      /\ stale' = stale
      /\ cmd.op = "rm" /\ cmd.pc = "remove" /\ Holding /\ cmd' = [cmd EXCEPT !.ok = TRUE, !.pc = "end"]
      /\ kept' = kept \cup {cmd.name} /\ Take(fl_remove(Now, cmd.name))
  BY DEF FRemove, At, FilesInv, Holding
<1>2. cmd.name \in Names
  BY <1>1 DEF CmdOK, Readers
<1>3. GoodView(fl_remove(Now, cmd.name))
  BY <1>1, <1>2, Quiet, RemoveGood
<1>4. DiskOK' /\ BufferOK' /\ BootOK' /\ MediumStep
  BY <1>1, <1>3, TakeKeeps
<1>5. CmdOK' /\ cmd'.name = cmd.name /\ cmd'.pc = "end"
  BY <1>1, GotoKeeps DEF Readers, ReaderPcs
<1>6. HandlesOK'
  <2>1. Held(files, kept \cup {cmd.name}) /\ ~Holding' /\ cmd'.pc \notin {"load", "spin"}
    BY <1>1, <1>5 DEF HandlesOK, Holding
  <2>2. QED
    BY <1>1, <2>1 DEF HandlesOK
<1>7. CountsOK'
  BY <1>1, <1>2 DEF FilesInv, CountsOK
<1>8. QED
  BY <1>4, <1>5, <1>6, <1>7 DEF FilesInv

\* fl_fclose gives the handle back.
LEMMA FcloseKeeps ==
  ASSUME FilesInv, Fclose
  PROVE  FilesInv' /\ MediumStep
<1>1. /\ Idle /\ CmdOK /\ HandlesOK /\ up' = up /\ UNCHANGED history
      /\ \/ cmd.op \in {"cat", "run", "touch", "put"} /\ cmd.pc = "close"
         \/ cmd.op = "run" /\ cmd.pc = "drop"
      /\ Holding /\ files' = SubSeq(files, 1, Len(files) - 1)
      /\ Take(fl_fclose(Now, file))
  BY DEF Fclose, At, FilesInv, Holding
<1>8. PICK p \in {"end", "spin"} : cmd' = [cmd EXCEPT !.pc = p] /\ (p = "spin" => cmd.op = "run")
  BY <1>1 DEF Fclose, Goto
<1>2. GoodView(fl_fclose(Now, file))
  BY <1>1, Quiet, FileIs, FcloseGood
<1>3. DiskOK' /\ BufferOK' /\ BootOK' /\ MediumStep
  BY <1>1, <1>2, TakeKeeps
<1>4. CmdOK' /\ cmd'.pc = p
  BY <1>1, <1>8, GotoKeeps DEF Readers, ReaderPcs
<1>5. HandlesOK'
  <2>1. Held(files, kept \cup {cmd.name}) /\ files # <<>> /\ files[Len(files)].name = cmd.name
    BY <1>1 DEF HandlesOK, Holding, file
  <2>2. Held(files', (kept \cup {cmd.name}) \ {cmd.name})
    BY <1>1, <2>1, HeldDrop
  <2>3. (kept \cup {cmd.name}) \ {cmd.name} = kept
    BY <1>1 DEF HandlesOK
  <2>4. ~Holding' /\ cmd'.pc # "load" /\ kept' = kept
    BY <1>1, <1>4, <1>8 DEF Holding, history
  <2>5. Held(files', kept)
    BY <2>2, <2>3
  <2>6. QED
    BY <2>4, <2>5 DEF HandlesOK
<1>6. CountsOK'
  BY <1>1 DEF FilesInv, CountsOK, history
<1>7. QED
  BY <1>3, <1>4, <1>5, <1>6 DEF FilesInv

\* The command format.
LEMMA FormatStepKeeps ==
  ASSUME FilesInv, Format
  PROVE  FilesInv' /\ MediumStep
<1>1. /\ CmdOK /\ HandlesOK /\ files' = files /\ UNCHANGED history
      /\ cmd.op = "format" /\ cmd.pc = "format" /\ cmd' = [cmd EXCEPT !.pc = "end"]
  BY DEF Format, At, FilesInv, Goto
<1>2. CmdOK' /\ cmd'.pc = "end"
  BY <1>1, GotoKeeps DEF Readers, ReaderPcs
<1>3. HandlesOK'
  BY <1>1, <1>2 DEF HandlesOK, Holding, history
<1>4. CountsOK'
  BY <1>1 DEF FilesInv, CountsOK, history
<1>5. QED
  BY <1>2, <1>3, <1>4, FormatKeeps DEF FilesInv

\* The command is done.
LEMMA ReturnKeeps ==
  ASSUME FilesInv, Return
  PROVE  FilesInv' /\ MediumStep
<1>1. /\ Idle /\ CmdOK /\ HandlesOK /\ up' = up /\ files' = files /\ UNCHANGED <<kept, count, losses>>
      /\ cmd.pc = "end" /\ cmd' = AtPrompt /\ Untouched
      /\ risk' = IF cmd.op = "format" THEN {} ELSE risk
  BY DEF Return, FilesInv
<1>7. stale' = {} \/ stale' = stale \/ (cmd.name \in Names /\ stale' = stale \cup {cmd.name})
  <2>1. cmd.op \in Writers \/ cmd.op = "rm" => cmd.name \in Names
    BY <1>1 DEF CmdOK, Readers, Writers
  <2>2. QED
    BY <2>1 DEF Return
<1>2. DiskOK' /\ BufferOK' /\ BootOK' /\ MediumStep
  BY <1>1, UntouchedKeeps
<1>3. CmdOK' /\ cmd'.pc = "prompt"
  BY <1>1 DEF CmdOK, AtPrompt
<1>4. HandlesOK'
  BY <1>1, <1>3 DEF HandlesOK, Holding
<1>5. CountsOK'
  BY <1>1, <1>7 DEF FilesInv, CountsOK
<1>6. QED
  BY <1>2, <1>3, <1>4, <1>5 DEF FilesInv

\* A power failure and the mount after it.
LEMMA PowerLossKeeps ==
  ASSUME FilesInv, PowerLoss
  PROVE  FilesInv' /\ MediumStep
<1>1. /\ CmdOK /\ cmd' = AtPrompt /\ files' = <<>> /\ kept' = {} /\ losses < MaxLosses
      /\ losses' = losses + 1 /\ count' = count /\ stale' = stale /\ risk' = risk \cup Endangered
  BY DEF PowerLoss, FilesInv
<1>2. CmdOK' /\ cmd'.pc = "prompt"
  BY <1>1 DEF CmdOK, AtPrompt
<1>3. HandlesOK'
  <2>1. <<>> \in Seq(OpenFile) /\ Len(<<>>) = 0 /\ DOMAIN <<>> = {}
    BY EmptySeq
  <2>2. Held(<<>>, {})
    BY <2>1, LineAssumption DEF Held
  <2>3. QED
    BY <1>1, <1>2, <2>2 DEF HandlesOK, Holding
<1>4. Endangered \subseteq Names
  <2>1. CASE cmd.op \in Writers
    <3>1. cmd.name \in Names
      BY <1>1, <2>1 DEF CmdOK, Readers, Writers
    <3>2. QED
      BY <2>1, <3>1 DEF Endangered
  <2>2. CASE cmd.op \notin Writers
    BY <2>2 DEF Endangered
  <2>3. QED
    BY <2>1, <2>2
<1>5. CountsOK'
  BY <1>1, <1>4, LineAssumption DEF FilesInv, CountsOK
<1>6. QED
  BY <1>2, <1>3, <1>5, LossKeeps DEF FilesInv

\* The driver makes a step on the way of a write.
LEMMA FlashWritesKeeps ==
  ASSUME FilesInv, FlashWrites
  PROVE  FilesInv' /\ MediumStep
<1>1. UNCHANGED <<files, cmd, history>>
  BY DEF FlashWrites
<1>2. CmdOK' /\ HandlesOK' /\ CountsOK'
  BY <1>1 DEF FilesInv, CmdOK, AtPrompt, HandlesOK, Holding, file, CountsOK, history
<1>3. QED
  BY <1>2, FlashKeeps DEF FilesInv

\* The chip the system starts with is a volume, nothing is under way and no file is open.
LEMMA FilesInvInit ==
  ASSUME Init
  PROVE  FilesInv
<1>1. PICK s \in Starts : FlashInit(s.chip) /\ told = s.told
  BY DEF Init
<1>2. /\ up = TRUE /\ buf = Invalid /\ files = <<>> /\ cmd = AtPrompt /\ out = <<>>
      /\ stale = {} /\ risk = {} /\ lostIn = {} /\ kept = {} /\ count = 0 /\ losses = 0
  BY DEF Init
<1>3. IsVolume(s.chip)
  BY <1>1, StartAssumption
<1>4. PICK d : d = s.chip /\ d \in [Addr -> Cells] /\ IsVolume(d)
  <2>1. \A a \in Addr : s.chip[a] \in Cells
    <3>1. \A a \in Addr : s.chip[a] \in StartCells
      BY <1>1 DEF StartCells
    <3>2. StartCells \subseteq Cells
      BY DEF Cells
    <3>3. QED
      BY <3>1, <3>2
  <2>2. s.chip = [a \in Addr |-> s.chip[a]]
    BY <1>3 DEF IsVolume
  <2>3. s.chip \in [Addr -> Cells]
    <3>1. PICK g : g = s.chip
      OBVIOUS
    <3>2. g = [a \in Addr |-> g[a]] /\ \A a \in Addr : g[a] \in Cells
      BY <2>1, <2>2, <3>1
    <3>3. g \in [Addr -> Cells]
      BY <3>2
    <3>4. QED
      BY <3>1, <3>3
  <2>4. QED
    BY <1>3, <2>3
<1>5. chip = d /\ todo = <<>> /\ phase = "idle" /\ Stored = d /\ Asked = <<>>
  <2>1. chip = d /\ todo = <<>> /\ phase = "idle"
    BY <1>1, <1>4 DEF FlashInit
  <2>2. InFlight = {}
    BY <2>1 DEF InFlight
  <2>3. Stored = d
    BY <1>4, <2>1, <2>2 DEF Stored
  <2>4. QED
    BY <2>1, <2>3 DEF Asked
<1>6. DiskOK
  <2>1. d \in [Addr -> Content(Cells)]
    BY <1>4 DEF Content, Cells
  <2>2. FlashInv(Cells)
    BY <1>1, <1>4, <2>1, FlashInvInit
  <2>3. ASSUME NEW l \in Lba PROVE GoodSector(l, SectorIn(Stored, l))
    <3>1. SectorIn(d, l) \in SectorData
      <4>1. \A i \in 1 .. SectorSize : d[SectorStart(l) + i - 1] \in Cells
        BY <1>4, SectorAddress
      <4>2. QED
        BY <4>1 DEF SectorIn, SectorData
    <3>2. QED
      BY <1>4, <1>5, <3>1, VolumeGood
  <2>4. QED
    BY <1>5, <2>2, <2>3 DEF DiskOK
<1>7. BufferOK
  BY <1>2 DEF BufferOK, GoodBuffer, Buffer, Invalid
<1>8. BootOK
  <2>1. 0 \in Lba /\ SectorStart(0) = 0 /\ SectorSize \in Nat \ {0}
    BY Sizes, Regions DEF SectorStart
  <2>2. Final(0) = SectorIn(d, 0)
    BY <1>5, EmptySeq DEF Final, After
  <2>3. d[0] = BPB /\ d[SectorSize - 1] = SIG
    BY <1>4, <2>1 DEF IsVolume
  <2>4. Boots(SectorIn(d, 0))
    BY <2>1, <2>3 DEF Boots, SectorIn
  <2>5. QED
    BY <1>2, <1>5, <2>2, <2>4, EmptySeq DEF BootOK
<1>9. CmdOK /\ cmd.pc = "prompt"
  BY <1>2 DEF CmdOK, AtPrompt
<1>10. HandlesOK
  <2>1. Held(<<>>, {})
    BY EmptySeq, LineAssumption DEF Held
  <2>2. QED
    BY <1>2, <1>9, <2>1 DEF HandlesOK, Holding
<1>11. CountsOK
  BY <1>2, LineAssumption DEF CountsOK
<1>12. QED
  BY <1>6, <1>7, <1>8, <1>9, <1>10, <1>11 DEF FilesInv

\* Every call of a command keeps the invariant.
LEMMA ShellKeeps ==
  ASSUME FilesInv, ShellStep
  PROVE  FilesInv' /\ MediumStep
<1>1. CASE OpenRead
  BY <1>1, OpenReadKeeps
<1>2. CASE OpenWrite
  BY <1>2, OpenWriteKeeps
<1>3. CASE Fgetc
  BY <1>3, FgetcKeeps
<1>4. CASE Load
  BY <1>4, LoadKeeps
<1>5. CASE Fputs
  BY <1>5, FputsKeeps
<1>6. CASE FRemove
  BY <1>6, FRemoveKeeps
<1>7. CASE Fclose
  BY <1>7, FcloseKeeps
<1>8. CASE Format
  BY <1>8, FormatStepKeeps
<1>9. CASE Return
  BY <1>9, ReturnKeeps
<1>10. QED
  BY <1>1, <1>2, <1>3, <1>4, <1>5, <1>6, <1>7, <1>8, <1>9 DEF ShellStep

\* Every step keeps the inductive invariant, and is a step of the array of sectors or none.
LEMMA FilesStep == FilesInv /\ [Next]_vars => FilesInv' /\ MediumStep
<1> SUFFICES ASSUME FilesInv, [Next]_vars PROVE FilesInv' /\ MediumStep
  OBVIOUS
<1>1. CASE ReadLine
  BY <1>1, ReadLineKeeps
<1>2. CASE ShellStep
  BY <1>2, ShellKeeps
<1>3. CASE FlashWrites
  BY <1>3, FlashWritesKeeps
<1>4. CASE PowerLoss
  BY <1>4, PowerLossKeeps
<1>5. CASE UNCHANGED vars
  <2>1. /\ UNCHANGED flashVars /\ up' = up /\ buf' = buf /\ files' = files /\ cmd' = cmd
        /\ UNCHANGED history /\ Stored' = Stored /\ Asked' = Asked
    BY <1>5 DEF vars, flashVars, Stored, InFlight, Asked
  <2>2. MediumStep
    BY <2>1 DEF MediumStep
  <2>3. FlashInv(Cells)'
    BY <2>1, FlashStepRefines DEF FilesInv, DiskOK
  <2>4. DiskOK'
    BY <2>1, <2>3 DEF FilesInv, DiskOK, flashVars
  <2>5. Final(0)' = Final(0) /\ Final(buf.lba)' = Final(buf.lba)
    BY <2>1 DEF Final
  <2>6. BufferOK' /\ BootOK'
    BY <2>1, <2>5 DEF FilesInv, BufferOK, BootOK, flashVars, history
  <2>7. CmdOK' /\ HandlesOK' /\ CountsOK'
    BY <2>1 DEF FilesInv, CmdOK, HandlesOK, Holding, file, CountsOK, history
  <2>8. QED
    BY <2>2, <2>4, <2>6, <2>7 DEF FilesInv
<1>6. QED
  BY <1>1, <1>2, <1>3, <1>4, <1>5 DEF Next

-----------------------------------------------------------------------------
(* The theorems.                                                           *)

\* The disk, the FAT buffer, the boot sector, the command and the open files agree with each
\* other after every step of the shell, of the driver and of the supply.
THEOREM FilesInvHolds == Spec => []FilesInv
<1>1. Init => FilesInv
  BY FilesInvInit
<1>2. QED
  BY <1>1, FilesStep, PTL DEF Spec

\* Type correctness of the shell and the file system: what waits to be written are whole
\* sectors of the chip, and a dirty FAT buffer holds a sector of the first FAT.
THEOREM FilesTypesHold == Spec => []FilesTypeOK
<1>1. FilesInv => FilesTypeOK
  <2> SUFFICES ASSUME FilesInv PROVE FilesTypeOK
    OBVIOUS
  <2>1. up \in BOOLEAN
    BY DEF FilesInv, BootOK
  <2>2. phase \in {"idle", "erase", "program"} /\ DOMAIN chip = Addr
    BY DEF FilesInv, DiskOK, FlashInv, FlashTypeOK
  <2>3. buf.dirty => buf.lba \in fat_begin_lba .. fat_begin_lba + FAT_SECTORS - 1
    BY DEF FilesInv, BufferOK, GoodBuffer, Buffer, FatSectors
  <2>4. Len(files) <= MAXOPEN
    BY DEF FilesInv, HandlesOK, Held
  <2>5. ASSUME NEW i \in DOMAIN todo PROVE todo[i].lba \in Lba /\ Len(todo[i].data) = SectorSize
    <3>1. todo \in Seq(SectorWrite(Cells))
      BY DEF FilesInv, DiskOK, FlashInv, FlashTypeOK
    <3>2. todo[i] \in SectorWrite(Cells)
      BY <3>1, <2>5, ElementOfSeq, LenProperties
    <3>3. PICK x : x = todo[i].data /\ x \in [1 .. SectorSize -> Cells] /\ todo[i].lba \in Lba
      BY <3>2 DEF SectorWrite
    <3>4. Len(x) = SectorSize
      BY <3>3, Sizes, LenProperties
    <3>5. QED
      BY <3>3, <3>4
  <2>6. /\ stale \subseteq Names /\ risk \subseteq Names /\ kept \subseteq Names
        /\ count <= MaxCommands /\ losses <= MaxLosses
    BY LineAssumption DEF FilesInv, CountsOK
  <2>7. QED
    BY <2>1, <2>2, <2>3, <2>4, <2>5, <2>6 DEF FilesTypeOK
<1>2. QED
  BY <1>1, FilesInvHolds, PTL

\* A FAT sector in RAM that is not marked dirty is the one on the disk (FatBufferCoherent of
\* the run files), whatever commands ran, formats included, and wherever a failure struck.
THEOREM FatBufferStaysCoherent == Spec => []FatBufferCoherent
<1>1. FilesInv => FatBufferCoherent
  <2> SUFFICES ASSUME FilesInv, Idle, buf.lba # Invalid.lba, ~buf.dirty
               PROVE  buf.data = SPI_Flash_Read(SectorStart(buf.lba), SectorSize)
    BY DEF FatBufferCoherent
  <2>1. buf.lba # -1 /\ buf.data = Final(buf.lba)
    BY DEF Invalid, FilesInv, BufferOK
  <2>2. Final(buf.lba) = SectorIn(chip, buf.lba)
    <3>1. Stored = chip /\ Asked = <<>>
      BY Quiet
    <3>2. QED
      BY <3>1, EmptySeq, AfterNone DEF Final
  <2>3. QED
    BY <2>1, <2>2 DEF SectorIn, SPI_Flash_Read
<1>2. QED
  BY <1>1, FilesInvHolds, PTL

\* Every command gives back the handle it took, rm apart (HandlesAccounted of the run files):
\* for any number of handles and commands, failures included.
THEOREM HandlesAreAccounted == Spec => []HandlesAccounted
<1>1. FilesInv => HandlesAccounted
  <2> SUFFICES ASSUME FilesInv, AtRest
               PROVE  Len(files) = Cardinality(kept) /\ {files[i].name : i \in DOMAIN files} = kept
    BY DEF HandlesAccounted
  <2>1. ~Holding /\ cmd.pc # "spin"
    BY DEF AtRest, AtPrompt, Holding
  <2>2. Held(files, kept)
    BY <2>1 DEF FilesInv, HandlesOK
  <2>3. QED
    BY <2>2, HeldCount DEF Held
<1>2. QED
  BY <1>1, FilesInvHolds, PTL

\* The board boots again after every failure that does not strike a format (StillBoots of the
\* run files): the block the driver erases for a write behind RESERVED is never the first.
THEOREM BoardStillBoots == Spec => []StillBoots
<1>1. FilesInv => StillBoots
  BY DEF FilesInv, BootOK, StillBoots
<1>2. QED
  BY <1>1, FilesInvHolds, PTL

\* Under the shell, too, the chip is an array of sectors (DiskSpec, the property of the run
\* files): the file system asks for writes only when none is under way, each of them replaces
\* one sector, and a failure takes cells of one block at most.
THEOREM FilesImplementDisk == Spec => DiskSpec
<1>1. DiskSpec <=> [][Medium!Next]_<<Stored, Asked>>
  BY DEF DiskSpec, Medium!Spec, Asked
<1>2. FilesInv /\ [Next]_vars => [Medium!Next]_<<Stored, Asked>>
  BY FilesStep DEF MediumStep
<1>3. QED
  BY <1>1, <1>2, FilesInvHolds, PTL DEF Spec

-----------------------------------------------------------------------------
(* The invariant of the table and the directory.                           *)

\* Somebody leads into the set B of clusters: a file starts there, or a cluster outside is linked
\* to one of them.
Led(E, D, B) ==
  (\E i \in Slot : IsEntry(D[i]) /\ D[i].start \in B)
    \/ (\E k \in Cluster \ {0, 1} : k \notin B /\ Link(E[k]) \in B)
\* So it is for every set of clusters in use, except those of X, unless the root directory was
\* extended behind entry 0: none is lost, and none of a ring of clusters.
Owned(E, D, X) ==
  E[0] = MEDIA =>
    \A B \in SUBSET ({c \in Cluster \ {0, 1} : E[c] # ZERO} \ X) : B # {} => Led(E, D, B)

\* The table and the directory that the sectors S hold.
TableOf(S) == [c \in Cluster |-> S[FatLba(c)][(c % SectorSize) + 1]]
DirOf(S) == [i \in Slot |-> S[SlotLba(i)][((i - 1) % SectorSize) + 1]]
SoundSectors(S) == Sound(TableOf(S), DirOf(S))
OwnedSectors(S) == Owned(TableOf(S), DirOf(S), {})

\* What a call of the library reads of every sector, and what the disk will hold in the end.
SectorsOf(v) == [l \in Lba |-> IF v.buf.lba = l THEN v.buf.data ELSE SectorAfter(v.todo, l)]
Ending == [l \in Lba |-> IF buf.lba = l THEN buf.data ELSE Final(l)]
Holds(d) == [l \in Lba |-> SectorIn(d, l)]
TableAt(v) == TableOf(SectorsOf(v))
DirAt(v) == DirOf(SectorsOf(v))
SoundView(v) == Sound(TableAt(v), DirAt(v))
OwnedView(v, X) == Owned(TableAt(v), DirAt(v), X)

\* A view with a change of the table that is not on the chip; its last write is one of the
\* table, or none is, or one is to come; and if none is pending the directory is written once.
FatWrite(w) == w.lba \in FatSectors
RootWrite(w) == w.lba \in RootSectors
Writes(td) == \E i \in DOMAIN td : FatWrite(td[i])
Pending(v) == v.buf.dirty \/ Writes(v.todo)
Ordered(v) == v.buf.dirty \/ ~ Writes(v.todo) \/ FatWrite(v.todo[Len(v.todo)])
Single(v) == Pending(v) \/ \A i, j \in DOMAIN v.todo :
                             RootWrite(v.todo[i]) /\ RootWrite(v.todo[j]) => i = j

LinkInv ==
  /\ lostIn = {} \/ (cmd.op = "format" /\ cmd.pc = "end") => SoundSectors(Ending)
  /\ lostIn = {} /\ cmd.op # "format" =>
       /\ Ordered(Now) /\ Single(Now)
       /\ ~ Pending(Now) => SoundSectors(Holds(Stored))
  /\ losses = 0 => lostIn = {} /\ OwnedSectors(Ending)

-----------------------------------------------------------------------------
(* One change of the table or of the directory.                            *)

Table == [Cluster -> FatCell]
Directory == [Slot -> DirCell]

\* Who refers to c.
Referred(E, D, c) ==
  (\E i \in Slot : IsEntry(D[i]) /\ D[i].start = c) \/ (\E k \in Cluster : Link(E[k]) = c)

\* An erased entry of the table ends a chain, and every entry leads to a cluster or nowhere.
LEMMA LinkIs ==
  ASSUME NEW e \in FatCell
  PROVE  /\ Link(e) \in {LAST, 0} \cup (Cluster \ {0, 1})
         /\ e = FF => Link(e) = LAST
         /\ e = ZERO => Link(e) \in {LAST, 0}
         /\ Link(e) \notin {LAST, 0} => Link(e) = e /\ e \in Cluster \ {0, 1}
<1>1. ZERO \notin {FF, MEDIA} \cup Cluster
  BY MarkAssumption
<1>2. CASE e \in {FF, MEDIA, Garbled} /\ e # ZERO
  BY <1>1, <1>2 DEF Link
<1>3. CASE e = ZERO
  BY <1>1, <1>3 DEF Link
<1>4. CASE e \notin {FF, MEDIA, Garbled} /\ e # ZERO
  BY <1>1, <1>4 DEF Link, FatCell
<1>5. QED
  BY <1>2, <1>3, <1>4

\* A cluster is none of the values that end a walk.
LEMMA ClusterIs == \A c \in Cluster \ {0, 1} : c \in Cluster /\ c \notin {LAST, 0} /\ c # ZERO
  BY Sizes, MarkAssumption DEF LAST

\* An entry of a file starts with a cluster.
LEMMA EntryStart ==
  ASSUME NEW e \in DirCell, IsEntry(e)
  PROVE  e \in Entry /\ e.start \in Cluster \ {0, 1}
  BY DEF DirCell, IsEntry, Entry

\* Ending a chain, at an entry that may have been free.
LEMMA EndSound ==
  ASSUME NEW E \in Table, NEW D \in Directory, Sound(E, D), NEW k \in Cluster
  PROVE  Sound([E EXCEPT ![k] = FF], D)
<1> DEFINE F == [E EXCEPT ![k] = FF]
<1>1. FF \in FatCell /\ FF # ZERO /\ Link(FF) = LAST
  BY LinkIs, CellsAre, MarkAssumption
<1>2. \A c \in Cluster : F[c] = IF c = k THEN FF ELSE E[c]
  BY DEF Table
<1>3. \A c \in Cluster : /\ Link(F[c]) = LAST \/ Link(F[c]) = Link(E[c])
                         /\ E[c] # ZERO => F[c] # ZERO
                         /\ Link(E[c]) \in {LAST, 0} \cup (Cluster \ {0, 1})
  BY <1>1, <1>2, LinkIs DEF Table
<1>4. \A i \in Slot : IsEntry(D[i]) => D[i].start \in Cluster \ {0, 1}
  BY EntryStart DEF Directory
<1> HIDE DEF F
<1>5. Sound(F, D)
  BY <1>3, <1>4, ClusterIs DEF Sound
<1>6. QED
  BY <1>5 DEF F

\* Freeing an entry that nobody refers to.
LEMMA FreeSound ==
  ASSUME NEW E \in Table, NEW D \in Directory, Sound(E, D), NEW k \in Cluster,
         ~ Referred(E, D, k)
  PROVE  Sound([E EXCEPT ![k] = ZERO], D)
<1> DEFINE F == [E EXCEPT ![k] = ZERO]
<1>1. ZERO \in FatCell /\ Link(ZERO) \in {LAST, 0}
  BY LinkIs, CellsAre
<1>2. \A c \in Cluster : F[c] = IF c = k THEN ZERO ELSE E[c]
  BY DEF Table
<1>3. \A c \in Cluster : /\ Link(F[c]) \in {LAST, 0} \/ Link(F[c]) = Link(E[c])
                         /\ E[c] # ZERO /\ c # k => F[c] # ZERO
                         /\ Link(E[c]) \in {LAST, 0} \cup (Cluster \ {0, 1})
                         /\ Link(E[c]) # k
  BY <1>1, <1>2, LinkIs DEF Table, Referred
<1>4. \A i \in Slot : IsEntry(D[i]) => D[i].start \in Cluster \ {0, 1} /\ D[i].start # k
  BY EntryStart DEF Directory, Referred
<1> HIDE DEF F
<1>5. Sound(F, D)
  BY <1>3, <1>4, ClusterIs DEF Sound
<1>6. QED
  BY <1>5 DEF F

\* Linking a used cluster that nobody refers to.
LEMMA LinkSound ==
  ASSUME NEW E \in Table, NEW D \in Directory, Sound(E, D), NEW k \in Cluster,
         NEW n \in Cluster \ {0, 1}, ~ Referred(E, D, n), E[n] # ZERO
  PROVE  Sound([E EXCEPT ![k] = n], D)
<1> DEFINE F == [E EXCEPT ![k] = n]
<1>1. n \in FatCell /\ (Link(n) \in {LAST, 0} \/ Link(n) = n) /\ n # ZERO /\ n \notin {LAST, 0}
  BY LinkIs, ClusterIs DEF FatCell
<1>2. \A c \in Cluster : F[c] = IF c = k THEN n ELSE E[c]
  BY DEF Table
<1>3. \A c \in Cluster : /\ c # k => Link(F[c]) = Link(E[c])
                         /\ E[c] # ZERO => F[c] # ZERO
                         /\ Link(E[c]) \in {LAST, 0} \cup (Cluster \ {0, 1})
                         /\ Link(E[c]) # n
  BY <1>1, <1>2, LinkIs DEF Table, Referred
<1>4. Link(F[k]) \in {LAST, 0} \/ Link(F[k]) = n
  BY <1>1, <1>2
<1>5. \A i \in Slot : IsEntry(D[i]) => D[i].start \in Cluster \ {0, 1} /\ D[i].start # n
  BY EntryStart DEF Directory, Referred
<1> HIDE DEF F
<1>6. F[n] # ZERO
  BY <1>3
<1>7. Sound(F, D)
  <2>1. \A i, j \in Slot : IsEntry(D[i]) /\ IsEntry(D[j]) /\ i # j =>
          D[i].start # D[j].start /\ D[i].name # D[j].name
    BY DEF Sound
  <2>2. \A c, l \in Cluster : c # l => Link(F[c]) # Link(F[l]) \/ Link(F[c]) \in {LAST, 0}
    BY <1>3, <1>4 DEF Sound
  <2>3. \A i \in Slot, c \in Cluster : IsEntry(D[i]) => Link(F[c]) # D[i].start
    BY <1>3, <1>4, <1>5, ClusterIs DEF Sound
  <2>4. \A i \in Slot : IsEntry(D[i]) => F[D[i].start] # ZERO
    BY <1>3, <1>5 DEF Sound
  <2>5. \A c \in Cluster : Link(F[c]) \in {LAST, 0} \/ F[Link(F[c])] # ZERO
    BY <1>3, <1>4, <1>6 DEF Sound
  <2>6. QED
    BY <2>1, <2>2, <2>3, <2>4, <2>5 DEF Sound
<1>8. QED
  BY <1>7 DEF F

\* Entering a file on a used cluster that nobody refers to.
LEMMA EnterSound ==
  ASSUME NEW E \in Table, NEW D \in Directory, Sound(E, D), NEW i \in Slot, NEW e \in Entry,
         ~ Referred(E, D, e.start), E[e.start] # ZERO,
         \A j \in Slot : IsEntry(D[j]) => D[j].name # e.name
  PROVE  Sound(E, [D EXCEPT ![i] = e])
<1> DEFINE F == [D EXCEPT ![i] = e]
<1>1. \A j \in Slot : F[j] = IF j = i THEN e ELSE D[j]
  BY DEF Directory
<1>2. \A j \in Slot : IsEntry(D[j]) => D[j].start # e.start
  BY DEF Referred
<1>3. \A k \in Cluster : Link(E[k]) # e.start
  BY DEF Referred
<1> HIDE DEF F
<1>4. Sound(E, F)
  BY <1>1, <1>2, <1>3 DEF Sound
<1>5. QED
  BY <1>4 DEF F

\* An entry goes, or keeps its name and its first cluster.
LEMMA ChangeSound ==
  ASSUME NEW E \in Table, NEW D \in Directory, Sound(E, D), NEW i \in Slot, NEW e,
         IsEntry(e) => IsEntry(D[i]) /\ e.start = D[i].start /\ e.name = D[i].name
  PROVE  Sound(E, [D EXCEPT ![i] = e])
<1> DEFINE F == [D EXCEPT ![i] = e]
<1>1. \A j \in Slot : F[j] = IF j = i THEN e ELSE D[j]
  BY DEF Directory
<1>2. \A j \in Slot : IsEntry(F[j]) => IsEntry(D[j]) /\ F[j].start = D[j].start /\ F[j].name = D[j].name
  BY <1>1
<1> HIDE DEF F
<1>3. Sound(E, F)
  BY <1>2 DEF Sound
<1>4. QED
  BY <1>3 DEF F

\* Cells that a failure has erased refer to nothing.
LEMMA EraseSound ==
  ASSUME NEW E \in Table, NEW D \in Directory, Sound(E, D), NEW F, NEW G,
         \A c \in Cluster : F[c] = E[c] \/ F[c] = FF,
         \A i \in Slot : G[i] = D[i] \/ G[i] = FF
  PROVE  Sound(F, G)
<1>1. FF \in FatCell /\ FF # ZERO /\ Link(FF) = LAST /\ ~ IsEntry(FF)
  BY LinkIs, CellsAre, MarkAssumption DEF IsEntry
<1>2. \A c \in Cluster : /\ Link(F[c]) = LAST \/ Link(F[c]) = Link(E[c])
                         /\ E[c] # ZERO => F[c] # ZERO
                         /\ Link(E[c]) \in {LAST, 0} \cup (Cluster \ {0, 1})
  BY <1>1, LinkIs DEF Table
<1>3. \A i \in Slot : IsEntry(G[i]) => G[i] = D[i] /\ D[i].start \in Cluster \ {0, 1}
  BY <1>1, EntryStart DEF Directory
<1>4. QED
  BY <1>2, <1>3, ClusterIs DEF Sound

\* Nobody refers to a free cluster.
LEMMA FreeUnreferred ==
  ASSUME NEW E \in Table, NEW D \in Directory, Sound(E, D), NEW c \in Cluster \ {0, 1}, E[c] = ZERO
  PROVE  ~ Referred(E, D, c)
  BY ClusterIs DEF Sound, Referred

-----------------------------------------------------------------------------
(* No cluster is lost by such a change.                                    *)

\* A cluster is no mark.
LEMMA NoMark == \A c \in Cluster \ {0, 1} : Link(c) = c /\ c # MEDIA /\ c # FF
  BY MarkAssumption, EndAssumption, ClusterIs DEF Link

\* What is entered of a file is seen as an entry.
LEMMA EntryCell == \A e \in Entry : IsEntry(e)
  BY EntryAssumption DEF IsEntry

\* Marking a free cluster, which is then nobody's.
LEMMA MarkOwned ==
  ASSUME NEW E \in Table, NEW D, Owned(E, D, {}), NEW c \in Cluster \ {0, 1}, E[c] = ZERO
  PROVE  Owned([E EXCEPT ![c] = FF], D, {c})
<1>1. PICK F : F = [E EXCEPT ![c] = FF]
  OBVIOUS
<1>2. \A d \in Cluster : F[d] = IF d = c THEN FF ELSE E[d]
  BY <1>1 DEF Table
<1>3. SUFFICES ASSUME F[0] = MEDIA, NEW B \in SUBSET ({d \in Cluster \ {0, 1} : F[d] # ZERO} \ {c}), B # {}
               PROVE  Led(F, D, B)
  BY <1>1 DEF Owned
<1>4. E[0] = MEDIA
  BY <1>2, <1>3, Sizes
<1>5. B \in SUBSET ({d \in Cluster \ {0, 1} : E[d] # ZERO} \ {})
  BY <1>2, <1>3
<1>6. Led(E, D, B)
  BY <1>3, <1>4, <1>5 DEF Owned
<1>7. ASSUME NEW k \in Cluster \ {0, 1}, k \notin B, Link(E[k]) \in B PROVE Led(F, D, B)
  <2>1. Link(ZERO) \in {LAST, 0} /\ \A b \in B : b \notin {LAST, 0}
    BY <1>3, LinkIs, CellsAre, ClusterIs
  <2>2. k # c
    BY <1>7, <2>1
  <2>3. F[k] = E[k]
    BY <1>2, <2>2
  <2>4. QED
    BY <1>7, <2>3 DEF Led
<1>8. QED
  BY <1>6, <1>7 DEF Led

\* Entering a file on it, in a slot that held none.
LEMMA EnterOwned ==
  ASSUME NEW E, NEW D \in Directory, NEW i \in Slot, NEW e, IsEntry(e), ~ IsEntry(D[i]),
         Owned(E, D, {e.start})
  PROVE  Owned(E, [D EXCEPT ![i] = e], {})
<1>1. PICK F : F = [D EXCEPT ![i] = e]
  OBVIOUS
<1>2. \A j \in Slot : F[j] = IF j = i THEN e ELSE D[j]
  BY <1>1 DEF Directory
<1>3. SUFFICES ASSUME E[0] = MEDIA, NEW B \in SUBSET {d \in Cluster \ {0, 1} : E[d] # ZERO}, B # {}
               PROVE  Led(E, F, B)
  BY <1>1 DEF Owned
<1>4. CASE e.start \in B
  BY <1>2, <1>4 DEF Led
<1>5. CASE e.start \notin B
  <2>1. Led(E, D, B)
    BY <1>3, <1>5 DEF Owned
  <2>2. \A j \in Slot : IsEntry(D[j]) => F[j] = D[j]
    BY <1>2
  <2>3. QED
    BY <2>1, <2>2 DEF Led
<1>6. QED
  BY <1>4, <1>5

\* An entry keeps its first cluster.
LEMMA ChangeOwned ==
  ASSUME NEW E, NEW D \in Directory, NEW X, Owned(E, D, X), NEW i \in Slot, NEW e,
         IsEntry(D[i]) => IsEntry(e) /\ e.start = D[i].start
  PROVE  Owned(E, [D EXCEPT ![i] = e], X)
<1>1. PICK F : F = [D EXCEPT ![i] = e]
  OBVIOUS
<1>2. \A j \in Slot : F[j] = IF j = i THEN e ELSE D[j]
  BY <1>1 DEF Directory
<1>3. \A j \in Slot : IsEntry(D[j]) => IsEntry(F[j]) /\ F[j].start = D[j].start
  BY <1>2
<1>4. \A B : Led(E, D, B) => Led(E, F, B)
  BY <1>3 DEF Led
<1>5. QED
  BY <1>1, <1>4 DEF Owned

\* Freeing the cluster again, which ends a chain.
LEMMA FreeOwned ==
  ASSUME NEW E \in Table, NEW D, NEW c \in Cluster \ {0, 1}, Owned(E, D, {c}), E[c] = FF
  PROVE  Owned([E EXCEPT ![c] = ZERO], D, {})
<1>1. PICK F : F = [E EXCEPT ![c] = ZERO]
  OBVIOUS
<1>2. \A d \in Cluster : F[d] = IF d = c THEN ZERO ELSE E[d]
  BY <1>1 DEF Table
<1>3. SUFFICES ASSUME F[0] = MEDIA, NEW B \in SUBSET {d \in Cluster \ {0, 1} : F[d] # ZERO}, B # {}
               PROVE  Led(F, D, B)
  BY <1>1 DEF Owned
<1>4. E[0] = MEDIA
  BY <1>2, <1>3, Sizes
<1>5. B \in SUBSET ({d \in Cluster \ {0, 1} : E[d] # ZERO} \ {c})
  BY <1>2, <1>3
<1>6. Led(E, D, B)
  BY <1>3, <1>4, <1>5 DEF Owned
<1>7. ASSUME NEW k \in Cluster \ {0, 1}, k \notin B, Link(E[k]) \in B PROVE Led(F, D, B)
  <2>1. Link(FF) = LAST /\ \A b \in B : b \notin {LAST, 0}
    BY <1>3, LinkIs, CellsAre, ClusterIs
  <2>2. k # c
    BY <1>7, <2>1
  <2>3. F[k] = E[k]
    BY <1>2, <2>2
  <2>4. QED
    BY <1>7, <2>3 DEF Led
<1>8. QED
  BY <1>6, <1>7 DEF Led

\* The directory grows by a cluster: behind entry 0, or behind the last cluster of a file.
LEMMA GrowOwned ==
  ASSUME NEW E \in Table, NEW D \in Directory, Sound(E, D), NEW n \in Cluster \ {0, 1}, E[n] = ZERO,
         NEW X, Owned(E, D, X), NEW k \in Cluster,
         k = 0 \/ (Link(E[k]) = LAST /\ \E d \in Cluster : Link(E[d]) = k),
         NEW F, F = [[E EXCEPT ![k] = n] EXCEPT ![n] = FF]
  PROVE  Owned(F, D, X)
<1>1. ~ Referred(E, D, n)
  BY FreeUnreferred
<1>2. k # n
  BY <1>1, ClusterIs DEF Referred
<1>3. \A c \in Cluster : F[c] = IF c = n THEN FF ELSE IF c = k THEN n ELSE E[c]
  <2>1. PICK G : G = [E EXCEPT ![k] = n] /\ F = [G EXCEPT ![n] = FF]
    OBVIOUS
  <2>2. G = [c \in Cluster |-> IF c = k THEN n ELSE E[c]]
    BY <2>1 DEF Table
  <2>3. QED
    BY <2>1, <2>2
<1>4. SUFFICES ASSUME F[0] = MEDIA, NEW B \in SUBSET ({d \in Cluster \ {0, 1} : F[d] # ZERO} \ X), B # {}
               PROVE  Led(F, D, B)
  BY DEF Owned
<1>5. k # 0 /\ k \in Cluster \ {0, 1} /\ Link(E[k]) = LAST /\ E[0] = MEDIA /\ E[k] # ZERO
  <2>1. 0 \in Cluster /\ n # 0 /\ n # MEDIA
    BY Sizes, NoMark
  <2>2. k # 0
    BY <1>3, <1>4, <2>1
  <2>3. PICK d \in Cluster : Link(E[d]) = k
    BY <2>2
  <2>4. k \notin {LAST, 0} /\ k \in Cluster \ {0, 1}
    BY <2>2, <2>3, LinkIs, Sizes DEF Table, LAST
  <2>5. E[k] # ZERO
    BY <2>3, <2>4 DEF Sound
  <2>6. QED
    BY <1>3, <1>4, <2>1, <2>2, <2>4, <2>5
<1>6. ASSUME NEW C \in SUBSET B, C # {}, B \subseteq C \cup {n}, n \notin C PROVE Led(F, D, B)
  <2>1. C \in SUBSET ({d \in Cluster \ {0, 1} : E[d] # ZERO} \ X)
    BY <1>3, <1>4, <1>5, <1>6
  <2>2. Led(E, D, C)
    BY <1>5, <1>6, <2>1 DEF Owned
  <2>3. ASSUME NEW j \in Cluster \ {0, 1}, j \notin C, Link(E[j]) \in C PROVE Led(F, D, B)
    <3>1. Link(ZERO) \in {LAST, 0} /\ \A b \in C : b \notin {LAST, 0}
      BY <2>1, LinkIs, CellsAre, ClusterIs
    <3>2. j # n /\ j # k
      BY <1>5, <2>3, <3>1
    <3>3. F[j] = E[j] /\ j \notin B
      BY <1>3, <1>6, <2>3, <3>2
    <3>4. QED
      BY <1>6, <2>3, <3>3 DEF Led
  <2>4. QED
    BY <1>6, <2>2, <2>3 DEF Led
<1>7. CASE n \notin B
  BY <1>4, <1>6, <1>7
<1>8. CASE n \in B /\ k \notin B
  <2>1. Link(F[k]) = n
    BY <1>2, <1>3, NoMark
  <2>2. QED
    BY <1>5, <1>8, <2>1 DEF Led
<1>9. CASE n \in B /\ k \in B
  <2>1. PICK C \in SUBSET B : C = B \ {n}
    OBVIOUS
  <2>2. k \in C /\ B \subseteq C \cup {n} /\ n \notin C
    BY <1>2, <1>9, <2>1
  <2>3. QED
    BY <1>6, <2>2
<1>10. QED
  BY <1>7, <1>8, <1>9

-----------------------------------------------------------------------------
(* What the calls read, and in which order they write.                     *)

\* Of a view that a later one follows: what is pending stays so, the order is kept, and
\* nothing is written unless something is pending.
Onward(v, w) ==
  /\ Pending(v) => Pending(w)
  /\ Ordered(v) => Ordered(w)
  /\ Pending(w) \/ w.todo = v.todo
\* The later one reads the same.
Keeps(v, w) == GoodView(w) /\ SectorsOf(w) = SectorsOf(v) /\ Onward(v, w)

\* Nothing is lost on the way.
LEMMA OnwardTwice ==
  ASSUME NEW u, NEW v, NEW w, Onward(u, v), Onward(v, w)
  PROVE  Onward(u, w)
  BY DEF Onward
\* Nor is anything read differently.
LEMMA KeepsTwice ==
  ASSUME NEW u, NEW v, NEW w, Keeps(u, v), Keeps(v, w)
  PROVE  Keeps(u, w)
  BY OnwardTwice DEF Keeps
\* A view follows itself.
LEMMA KeepsItself ==
  ASSUME NEW v, GoodView(v)
  PROVE  Keeps(v, v)
  BY DEF Keeps, Onward

\* One more write.
LEMMA OneMore ==
  ASSUME NEW td \in Seq(SectorWrite(Cells)), NEW w \in SectorWrite(Cells)
  PROVE  /\ Append(td, w) \in Seq(SectorWrite(Cells))
         /\ DOMAIN Append(td, w) = 1 .. Len(td) + 1 /\ DOMAIN td = 1 .. Len(td) /\ Len(td) \in Nat
         /\ Append(td, w)[Len(td) + 1] = w /\ Len(Append(td, w)) = Len(td) + 1
         /\ \A i \in DOMAIN td : i \in DOMAIN Append(td, w) /\ Append(td, w)[i] = td[i]
<1>1. /\ Append(td, w) \in Seq(SectorWrite(Cells)) /\ Len(td) \in Nat /\ DOMAIN td = 1 .. Len(td)
      /\ Len(Append(td, w)) = Len(td) + 1 /\ Append(td, w)[Len(td) + 1] = w
      /\ \A i \in 1 .. Len(td) : Append(td, w)[i] = td[i]
  BY AppendProperties, LenProperties
<1>2. DOMAIN Append(td, w) = 1 .. Len(td) + 1
  BY <1>1, LenProperties
<1>3. QED
  BY <1>1, <1>2

\* A write of the table behind the others.
LEMMA FatLast ==
  ASSUME NEW v, NEW td \in Seq(SectorWrite(Cells)), NEW w \in SectorWrite(Cells), FatWrite(w),
         v.todo = Append(td, w)
  PROVE  Pending(v) /\ Ordered(v)
<1>1. Len(td) + 1 \in DOMAIN v.todo /\ v.todo[Len(td) + 1] = w /\ Len(v.todo) = Len(td) + 1
  BY OneMore
<1>2. QED
  BY <1>1 DEF Pending, Ordered, Writes

\* What the buffer that is written back becomes.
LEMMA WritebackIs ==
  ASSUME NEW v, GoodView(v)
  PROVE  LET w == fatfs_fat_writeback(v)
         IN /\ w.buf.lba = v.buf.lba /\ w.buf.data = v.buf.data /\ w.buf.dirty = FALSE
            /\ \/ ~ v.buf.dirty /\ w = v
               \/ \E x \in SectorWrite(Cells) :
                    FatWrite(x) /\ x.lba = v.buf.lba /\ x.data = v.buf.data /\ w.todo = Append(v.todo, x)
<1>1. CASE v.buf.dirty
  <2>1. v.buf.lba \in FatSectors /\ v.buf.lba # -1 /\ GoodSector(v.buf.lba, v.buf.data)
    BY <1>1, ViewIs DEF GoodBuffer
  <2>2. PICK l \in Lba, d \in SectorData : l = v.buf.lba /\ d = v.buf.data
    BY <2>1, FatSectorIs DEF GoodSector
  <2>3. PICK x \in SectorWrite(Cells) : x = WriteOf(l, d) /\ x.lba = l /\ x.data = d
    BY <2>2, WriteOfIs
  <2>4. PICK t \in Seq(SectorWrite(Cells)), f \in BOOLEAN :
          t = v.todo /\ v = [buf |-> [lba |-> l, data |-> d, dirty |-> f], todo |-> t]
    BY <2>2, ViewIs
  <2>5. PICK u \in Seq(SectorWrite(Cells)) : u = Append(t, x)
    BY <2>4, AppendProperties
  <2>6. PICK y : y = [v EXCEPT !.todo = u]
    OBVIOUS
  <2>7. y = [buf |-> [lba |-> l, data |-> d, dirty |-> f], todo |-> u]
    BY <2>4, <2>6
  <2>8. fatfs_fat_writeback(v) = [y EXCEPT !.buf.dirty = FALSE]
    BY <1>1, <2>2, <2>3, <2>4, <2>5, <2>6 DEF fatfs_fat_writeback, Asking
  <2>9. fatfs_fat_writeback(v) = [buf |-> [lba |-> l, data |-> d, dirty |-> FALSE], todo |-> u]
    BY <2>7, <2>8, SetDirty
  <2>10. FatWrite(x)
    BY <2>1, <2>2, <2>3 DEF FatWrite
  <2>11. PICK w : w = fatfs_fat_writeback(v)
    OBVIOUS
  <2>12. w.buf.lba = l /\ w.buf.data = d /\ w.buf.dirty = FALSE /\ w.todo = u
    BY <2>9, <2>11
  <2>13. FatWrite(x) /\ x.lba = v.buf.lba /\ x.data = v.buf.data /\ w.todo = Append(v.todo, x)
    BY <2>2, <2>3, <2>4, <2>5, <2>10, <2>12
  <2>14. QED
    BY <2>2, <2>11, <2>12, <2>13
<1>2. CASE ~v.buf.dirty
  <2>1. fatfs_fat_writeback(v) = v /\ v.buf.dirty = FALSE
    BY <1>2, ViewIs DEF fatfs_fat_writeback
  <2>2. QED
    BY <1>2, <2>1
<1>3. QED
  BY <1>1, <1>2

\* Writing the buffer back changes nothing that is read.
LEMMA WritebackKeeps ==
  ASSUME NEW v, GoodView(v)
  PROVE  Keeps(v, fatfs_fat_writeback(v))
<1>1. PICK w : w = fatfs_fat_writeback(v) /\ GoodView(w)
  BY WritebackGood
<1>2. /\ w.buf.lba = v.buf.lba /\ w.buf.data = v.buf.data
      /\ \/ ~ v.buf.dirty /\ w = v
         \/ \E x \in SectorWrite(Cells) :
              FatWrite(x) /\ x.lba = v.buf.lba /\ x.data = v.buf.data /\ w.todo = Append(v.todo, x)
  BY <1>1, WritebackIs
<1>3. CASE w = v
  BY <1>1, <1>3, KeepsItself
<1>4. ASSUME NEW x \in SectorWrite(Cells), FatWrite(x), x.lba = v.buf.lba, x.data = v.buf.data,
             w.todo = Append(v.todo, x)
      PROVE  Keeps(v, w)
  <2>1. v.todo \in Seq(SectorWrite(Cells))
    BY ViewIs
  <2>2. Onward(v, w)
    BY <1>4, <2>1, FatLast DEF Onward
  <2>3. \A l \in Lba : SectorAfter(w.todo, l) = IF x.lba = l THEN x.data ELSE SectorAfter(v.todo, l)
    BY <1>4, <2>1, AfterAppend, SectorAfterIs
  <2>4. SectorsOf(w) = SectorsOf(v)
    BY <1>2, <1>4, <2>3 DEF SectorsOf
  <2>5. QED
    BY <1>1, <2>2, <2>4 DEF Keeps
<1>5. QED
  BY <1>1, <1>2, <1>3, <1>4

\* Nor does the purge.
LEMMA PurgeKeeps ==
  ASSUME NEW v, GoodView(v)
  PROVE  Keeps(v, fatfs_fat_purge(v)) /\ (v.buf.dirty => Ordered(fatfs_fat_purge(v)))
<1>1. PICK w : w = fatfs_fat_purge(v) /\ w = fatfs_fat_writeback(v)
  BY DEF fatfs_fat_purge
<1>2. Keeps(v, w)
  BY <1>1, WritebackKeeps
<1>3. v.buf.dirty => Ordered(w)
  BY <1>2 DEF Keeps, Onward, Ordered
<1>4. QED
  BY <1>1, <1>2, <1>3

\* Nor does bringing another sector into the buffer.
LEMMA ReadSectorKeeps ==
  ASSUME GoodChip, NEW v, GoodView(v), NEW l \in FatSectors
  PROVE  Keeps(v, fatfs_fat_read_sector(v, l))
<1>1. CASE v.buf.lba = l
  <2>1. fatfs_fat_read_sector(v, l) = v
    BY <1>1 DEF fatfs_fat_read_sector
  <2>2. QED
    BY <2>1, KeepsItself
<1>2. CASE v.buf.lba # l
  <2>1. PICK w : w = fatfs_fat_writeback(v) /\ GoodView(w) /\ Keeps(v, w) /\ w.buf.dirty = FALSE
    BY WritebackGood, WritebackKeeps, WritebackIs
  <2>2. PICK u : u = fatfs_fat_read_sector(v, l) /\ GoodView(u)
    BY ReadSectorGood
  <2>3. PICK d : d = SectorAfter(w.todo, l)
    OBVIOUS
  <2>4. u = [buf |-> [lba |-> l, data |-> d, dirty |-> FALSE], todo |-> w.todo]
    <3>1. w = [buf |-> w.buf, todo |-> w.todo]
      BY <2>1, ViewIs
    <3>2. u = [w EXCEPT !.buf = [lba |-> l, data |-> d, dirty |-> FALSE]]
      BY <1>2, <2>1, <2>2, <2>3 DEF fatfs_fat_read_sector
    <3>3. QED
      BY <3>1, <3>2
  <2>5. /\ u.todo = w.todo /\ u.buf.lba = l /\ u.buf.data = d /\ u.buf.dirty = FALSE
    BY <2>4
  <2>6. \A m \in Lba : w.buf.lba = m => w.buf.data = SectorAfter(w.todo, m)
    <3>1. \A m \in Lba : m # -1
      BY Sizes
    <3>2. QED
      BY <2>1, <3>1 DEF GoodView
  <2>7. SectorsOf(u) = SectorsOf(w)
    BY <2>3, <2>5, <2>6 DEF SectorsOf
  <2>8. Onward(w, u)
    BY <2>1, <2>5 DEF Onward, Pending, Ordered
  <2>9. Keeps(w, u)
    BY <2>2, <2>7, <2>8 DEF Keeps
  <2>10. QED
    BY <2>1, <2>2, <2>9, KeepsTwice
<1>3. QED
  BY <1>1, <1>2

\* So an entry of the table is brought in.
LEMMA LoadedKeeps ==
  ASSUME GoodChip, NEW v, GoodView(v), NEW c \in Cluster
  PROVE  Keeps(v, Loaded(v, c))
  BY FatLbaIs, ReadSectorKeeps DEF Loaded
\* EntryOf reads the table.
LEMMA EntryIs ==
  ASSUME GoodChip, NEW v, GoodView(v), NEW c \in Cluster
  PROVE  EntryOf(v, c) = TableAt(v)[c]
<1>1. PICK w : w = Loaded(v, c) /\ w.buf.lba = FatLba(c) /\ SectorsOf(w) = SectorsOf(v)
  BY LoadedGood, LoadedKeeps DEF Keeps
<1>2. FatLba(c) \in Lba
  BY FatLbaIs, FatSectorIs
<1>3. SectorsOf(w)[FatLba(c)] = w.buf.data
  BY <1>1, <1>2 DEF SectorsOf
<1>4. QED
  BY <1>1, <1>3 DEF EntryOf, TableAt, TableOf

\* An entry of the directory is never in the buffer.
LEMMA DirEntryIs ==
  ASSUME NEW v, GoodView(v), NEW i \in Slot
  PROVE  DirEntry(v.todo, i) = DirAt(v)[i]
<1>1. PICK l \in RootSectors : l = SlotLba(i)
  BY SlotLbaIs
<1>2. l \in Lba /\ l \notin FatSectors /\ l # -1
  BY RootSectorIs
<1>3. v.buf.lba # l
  BY <1>2, ViewIs
<1>4. SectorsOf(v)[l] = SectorAfter(v.todo, l)
  BY <1>2, <1>3 DEF SectorsOf
<1>5. QED
  BY <1>1, <1>4 DEF DirEntry, DirAt, DirOf

\* Both hold what they may.
LEMMA TablesAre ==
  ASSUME GoodChip, NEW v, GoodView(v)
  PROVE  TableAt(v) \in Table /\ DirAt(v) \in Directory
<1>1. \A c \in Cluster : TableAt(v)[c] \in FatCell
  BY EntryIs, EntryGood
<1>2. \A i \in Slot : DirAt(v)[i] \in DirCell
  BY DirEntryIs, DirEntryGood
<1>3. TableAt(v) = [c \in Cluster |-> TableAt(v)[c]] /\ DirAt(v) = [i \in Slot |-> DirAt(v)[i]]
  BY DEF TableAt, TableOf, DirAt, DirOf
<1>4. QED
  BY <1>1, <1>2, <1>3 DEF Table, Directory

\* No two entries have the same place.
LEMMA PlacesApart ==
  /\ \A c, d \in Cluster : FatLba(c) = FatLba(d) /\ (c % SectorSize) + 1 = (d % SectorSize) + 1 => c = d
  /\ \A i, j \in Slot : SlotLba(i) = SlotLba(j) /\ ((i - 1) % SectorSize) + 1 = ((j - 1) % SectorSize) + 1
                          => i = j
<1>1. ASSUME NEW a \in Nat, NEW b \in Nat, NEW k \in Nat, a < k * SectorSize, b < k * SectorSize,
             NEW s \in Nat, s + a \div SectorSize = s + b \div SectorSize,
             (a % SectorSize) + 1 = (b % SectorSize) + 1
      PROVE  a = b
  <2>1. /\ a \div SectorSize \in Nat /\ (a % SectorSize) + 1 \in 1 .. SectorSize
        /\ a = (a \div SectorSize) * SectorSize + (a % SectorSize)
    BY <1>1, Split
  <2>2. /\ b \div SectorSize \in Nat /\ (b % SectorSize) + 1 \in 1 .. SectorSize
        /\ b = (b \div SectorSize) * SectorSize + (b % SectorSize)
    BY <1>1, Split
  <2>3. PICK q \in Nat, r \in Nat : q = a \div SectorSize /\ r = b \div SectorSize /\ s + q = s + r
    BY <1>1, <2>1, <2>2
  <2>4. PICK x \in Int, y \in Int : x = a % SectorSize /\ y = b % SectorSize /\ x + 1 = y + 1
    <3>1. a % SectorSize \in Int /\ b % SectorSize \in Int
      BY <1>1, Sizes
    <3>2. QED
      BY <1>1, <3>1
  <2>5. q = r /\ x = y
    BY <2>3, <2>4
  <2>6. QED
    BY <2>1, <2>2, <2>3, <2>4, <2>5
<1>2. ASSUME NEW c \in Cluster, NEW d \in Cluster, FatLba(c) = FatLba(d),
             (c % SectorSize) + 1 = (d % SectorSize) + 1
      PROVE  c = d
  <2>1. /\ c \in Nat /\ d \in Nat /\ FAT_SECTORS \in Nat /\ fat_begin_lba \in Nat
        /\ c < FAT_SECTORS * SectorSize /\ d < FAT_SECTORS * SectorSize
    BY Sizes, Regions DEF Cluster
  <2>2. QED
    BY <1>1, <1>2, <2>1 DEF FatLba
<1>3. ASSUME NEW i \in Slot, NEW j \in Slot, SlotLba(i) = SlotLba(j),
             ((i - 1) % SectorSize) + 1 = ((j - 1) % SectorSize) + 1
      PROVE  i = j
  <2>1. PICK a \in Nat, b \in Nat : /\ a = i - 1 /\ b = j - 1
                                    /\ a < ROOT_SECTORS * SectorSize /\ b < ROOT_SECTORS * SectorSize
    BY SlotsAre
  <2>2. ROOT_SECTORS \in Nat /\ rootdir_first_sector \in Nat
    BY Sizes, Regions
  <2>3. a = b
    BY <1>1, <1>3, <2>1, <2>2 DEF SlotLba
  <2>4. QED
    BY <2>1, <2>3, SlotsAre
<1>4. QED
  BY <1>2, <1>3

\* The sectors R are S with cell k of sector m replaced by e.
OneCell(R, S, m, k, e) == \A l \in Lba : R[l] = IF l = m THEN [S[l] EXCEPT ![k] = e] ELSE S[l]

\* A change of one sector of the table, and of one of the directory.
LEMMA TableChange ==
  ASSUME NEW S, NEW R, NEW c \in Cluster, NEW n, S[FatLba(c)] \in SectorData,
         OneCell(R, S, FatLba(c), (c % SectorSize) + 1, n)
  PROVE  TableOf(R) = [TableOf(S) EXCEPT ![c] = n] /\ DirOf(R) = DirOf(S)
<1>0. \A l \in Lba : R[l] = IF l = FatLba(c) THEN [S[l] EXCEPT ![(c % SectorSize) + 1] = n] ELSE S[l]
  BY DEF OneCell
<1>1. \A d \in Cluster : FatLba(d) \in Lba /\ (d % SectorSize) + 1 \in 1 .. SectorSize
  BY FatLbaIs, FatSectorIs
<1>2. ASSUME NEW d \in Cluster
      PROVE  TableOf(R)[d] = IF d = c THEN n ELSE TableOf(S)[d]
  <2>1. CASE d = c
    BY <1>0, <1>1, <2>1 DEF TableOf, SectorData
  <2>2. CASE d # c /\ FatLba(d) = FatLba(c)
    <3>1. (d % SectorSize) + 1 # (c % SectorSize) + 1
      BY <2>2, PlacesApart
    <3>2. PICK x \in SectorData, k \in 1 .. SectorSize, m \in 1 .. SectorSize :
            x = S[FatLba(c)] /\ k = (c % SectorSize) + 1 /\ m = (d % SectorSize) + 1
      BY <1>1
    <3>3. R[FatLba(d)] = [x EXCEPT ![k] = n] /\ x \in SectorData
      BY <1>0, <1>1, <2>2, <3>2
    <3>4. [x EXCEPT ![k] = n][m] = x[m]
      BY <3>1, <3>2, <3>3 DEF SectorData
    <3>5. QED
      BY <2>2, <3>2, <3>3, <3>4 DEF TableOf
  <2>3. CASE d # c /\ FatLba(d) # FatLba(c)
    BY <1>0, <1>1, <2>3 DEF TableOf
  <2>4. QED
    BY <2>1, <2>2, <2>3
<1>3. TableOf(R) = [TableOf(S) EXCEPT ![c] = n]
  BY <1>2 DEF TableOf
<1>4. \A i \in Slot : SlotLba(i) \in Lba /\ SlotLba(i) # FatLba(c)
  <2>1. \A i \in Slot : SlotLba(i) \in Lba /\ SlotLba(i) \notin FatSectors
    BY SlotLbaIs, RootSectorIs
  <2>2. QED
    BY <2>1, FatLbaIs
<1>5. QED
  BY <1>0, <1>3, <1>4 DEF DirOf
\* The same of the directory.
LEMMA DirChange ==
  ASSUME NEW S, NEW R, NEW i \in Slot, NEW e, S[SlotLba(i)] \in SectorData,
         OneCell(R, S, SlotLba(i), ((i - 1) % SectorSize) + 1, e)
  PROVE  DirOf(R) = [DirOf(S) EXCEPT ![i] = e] /\ TableOf(R) = TableOf(S)
<1>0. \A l \in Lba : R[l] = IF l = SlotLba(i) THEN [S[l] EXCEPT ![((i - 1) % SectorSize) + 1] = e] ELSE S[l]
  BY DEF OneCell
<1>1. \A j \in Slot : SlotLba(j) \in Lba /\ SlotLba(j) \notin FatSectors /\ ((j - 1) % SectorSize) + 1 \in 1 .. SectorSize
  BY SlotLbaIs, RootSectorIs
<1>2. ASSUME NEW j \in Slot
      PROVE  DirOf(R)[j] = IF j = i THEN e ELSE DirOf(S)[j]
  <2>1. CASE j = i
    BY <1>0, <1>1, <2>1 DEF DirOf, SectorData
  <2>2. CASE j # i /\ SlotLba(j) = SlotLba(i)
    <3>1. ((j - 1) % SectorSize) + 1 # ((i - 1) % SectorSize) + 1
      BY <2>2, PlacesApart
    <3>2. PICK x \in SectorData, k \in 1 .. SectorSize, m \in 1 .. SectorSize :
            x = S[SlotLba(i)] /\ k = ((i - 1) % SectorSize) + 1 /\ m = ((j - 1) % SectorSize) + 1
      BY <1>1
    <3>3. R[SlotLba(j)] = [x EXCEPT ![k] = e] /\ x \in SectorData
      BY <1>0, <1>1, <2>2, <3>2
    <3>4. [x EXCEPT ![k] = e][m] = x[m]
      BY <3>1, <3>2, <3>3 DEF SectorData
    <3>5. QED
      BY <2>2, <3>2, <3>3, <3>4 DEF DirOf
  <2>3. CASE j # i /\ SlotLba(j) # SlotLba(i)
    BY <1>0, <1>1, <2>3 DEF DirOf
  <2>4. QED
    BY <2>1, <2>2, <2>3
<1>3. DirOf(R) = [DirOf(S) EXCEPT ![i] = e]
  BY <1>2 DEF DirOf
<1>4. \A c \in Cluster : FatLba(c) \in Lba /\ FatLba(c) # SlotLba(i)
  BY <1>1, FatLbaIs, FatSectorIs
<1>5. QED
  BY <1>0, <1>3, <1>4 DEF TableOf

\* Every sector a view reads is one.
LEMMA SectorsAre ==
  ASSUME GoodChip, NEW v, GoodView(v), NEW l \in Lba
  PROVE  SectorsOf(v)[l] \in SectorData
<1>1. l # -1
  BY Sizes
<1>2. SectorAfter(v.todo, l) \in SectorData
  BY SectorGood DEF GoodSector
<1>3. v.buf.lba = l => v.buf.data \in SectorData
  BY <1>1, ViewIs
<1>4. QED
  BY <1>2, <1>3 DEF SectorsOf

\* Setting an entry of the table changes that entry.
LEMMA SetClusterIs ==
  ASSUME GoodChip, NEW v, GoodView(v), NEW c \in Cluster, NEW n \in FatCell,
         c \in {0, 1} => n # ZERO
  PROVE  LET w == fatfs_fat_set_cluster(v, c, n)
         IN /\ GoodView(w) /\ w.buf.dirty /\ Onward(v, w)
            /\ TableAt(w) = [TableAt(v) EXCEPT ![c] = n] /\ DirAt(w) = DirAt(v)
<1>1. PICK u : /\ u = Loaded(v, c) /\ GoodView(u) /\ u.buf.lba = FatLba(c)
               /\ SectorsOf(u) = SectorsOf(v)
  BY LoadedGood, LoadedKeeps DEF Keeps
<1>2. PICK l \in FatSectors, k \in 1 .. SectorSize : l = FatLba(c) /\ k = (c % SectorSize) + 1 /\ l \in Lba /\ l # -1
  BY FatLbaIs, FatSectorIs
<1>3. PICK d \in SectorData : d = u.buf.data /\ d = SectorsOf(v)[l]
  <2>1. u.buf.data \in SectorData
    BY <1>1, <1>2, ViewIs
  <2>2. SectorsOf(u)[l] = u.buf.data
    BY <1>1, <1>2 DEF SectorsOf
  <2>3. QED
    BY <1>1, <2>1, <2>2
<1>4. PICK e : e = [d EXCEPT ![k] = n]
  OBVIOUS
<1>5. fatfs_fat_set_cluster(v, c, n) = [buf |-> [lba |-> l, data |-> e, dirty |-> TRUE], todo |-> u.todo]
  <2>1. PICK f : u = [buf |-> [lba |-> l, data |-> d, dirty |-> f], todo |-> u.todo]
    <3>1. /\ u = [buf |-> u.buf, todo |-> u.todo]
          /\ u.buf = [lba |-> u.buf.lba, data |-> u.buf.data, dirty |-> u.buf.dirty]
      BY <1>1, ViewIs
    <3>2. QED
      BY <1>1, <1>2, <1>3, <3>1
  <2>2. PICK x : x = [u EXCEPT !.buf.data[k] = n]
    OBVIOUS
  <2>3. x = [buf |-> [lba |-> l, data |-> e, dirty |-> f], todo |-> u.todo]
    BY <1>4, <2>1, <2>2, SetData
  <2>4. fatfs_fat_set_cluster(v, c, n) = [x EXCEPT !.buf.dirty = TRUE]
    BY <1>1, <1>2, <2>2 DEF fatfs_fat_set_cluster
  <2>5. QED
    BY <2>3, <2>4, SetDirty
<1>6. PICK w : /\ w = fatfs_fat_set_cluster(v, c, n) /\ GoodView(w) /\ w.buf.lba = l /\ w.buf.data = e
               /\ w.buf.dirty = TRUE /\ w.todo = u.todo
  BY <1>5, SetClusterGood
<1>7. Onward(v, w)
  BY <1>6 DEF Onward, Pending, Ordered
<1>8. \A m \in Lba : SectorsOf(w)[m] = IF m = FatLba(c) THEN [SectorsOf(v)[m] EXCEPT ![(c % SectorSize) + 1] = n]
                                       ELSE SectorsOf(v)[m]
  <2>1. \A m \in Lba : SectorsOf(w)[m] = IF m = l THEN e ELSE SectorsOf(u)[m]
    BY <1>1, <1>2, <1>6 DEF SectorsOf
  <2>2. QED
    BY <1>1, <1>2, <1>3, <1>4, <2>1
<1>9. SectorsOf(v)[FatLba(c)] \in SectorData
  BY <1>2, <1>3
<1>10. TableOf(SectorsOf(w)) = [TableOf(SectorsOf(v)) EXCEPT ![c] = n] /\ DirOf(SectorsOf(w)) = DirOf(SectorsOf(v))
  <2>1. PICK S, R : S = SectorsOf(v) /\ R = SectorsOf(w)
    OBVIOUS
  <2>2. OneCell(R, S, FatLba(c), (c % SectorSize) + 1, n)
    BY <1>8, <2>1 DEF OneCell
  <2>3. S[FatLba(c)] \in SectorData
    BY <1>9, <2>1
  <2>4. TableOf(R) = [TableOf(S) EXCEPT ![c] = n] /\ DirOf(R) = DirOf(S)
    BY <2>2, <2>3, TableChange
  <2>5. QED
    BY <2>1, <2>4
<1>11. QED
  BY <1>6, <1>7, <1>10 DEF TableAt, DirAt

\* A write behind the table.
LEMMA AskingIs ==
  ASSUME NEW v, GoodView(v), NEW l \in Lba, NEW d, l >= RESERVED, l \notin FatSectors,
         GoodSector(l, d)
  PROVE  LET w == Asking(v, l, d)
         IN /\ GoodView(w) /\ w.buf = v.buf /\ (Writes(w.todo) <=> Writes(v.todo))
            /\ Len(w.todo) = Len(v.todo) + 1 /\ w.todo[Len(v.todo) + 1].lba = l
            /\ \A i \in DOMAIN v.todo : w.todo[i] = v.todo[i]
            /\ \A m \in Lba : SectorsOf(w)[m] = IF m = l THEN d ELSE SectorsOf(v)[m]
<1>1. PICK w : w = Asking(v, l, d) /\ GoodView(w) /\ w.buf = v.buf /\ w.todo = Append(v.todo, WriteOf(l, d))
  BY AskingGood
<1>2. PICK x \in SectorWrite(Cells) : x = WriteOf(l, d) /\ x.lba = l /\ x.data = d
  BY WriteOfIs DEF GoodSector
<1>3. v.todo \in Seq(SectorWrite(Cells)) /\ w.todo = Append(v.todo, x)
  BY <1>1, <1>2, ViewIs
<1>4. /\ DOMAIN w.todo = 1 .. Len(v.todo) + 1 /\ DOMAIN v.todo = 1 .. Len(v.todo)
      /\ Len(v.todo) \in Nat /\ Len(w.todo) = Len(v.todo) + 1
      /\ w.todo[Len(v.todo) + 1] = x /\ \A i \in DOMAIN v.todo : i \in DOMAIN w.todo /\ w.todo[i] = v.todo[i]
  BY <1>3, OneMore
<1>5. Writes(w.todo) <=> Writes(v.todo)
  <2>1. ~ FatWrite(x)
    BY <1>2 DEF FatWrite
  <2>2. \A i \in DOMAIN w.todo : i = Len(v.todo) + 1 \/ i \in DOMAIN v.todo
    BY <1>4
  <2>3. QED
    BY <1>4, <2>1, <2>2 DEF Writes
<1>6. \A m \in Lba : SectorsOf(w)[m] = IF m = l THEN d ELSE SectorsOf(v)[m]
  <2>1. \A m \in Lba : SectorAfter(w.todo, m) = IF x.lba = m THEN x.data ELSE SectorAfter(v.todo, m)
    BY <1>3, AfterAppend, SectorAfterIs
  <2>2. v.buf.lba # l
    <3>1. l # -1
      BY Sizes
    <3>2. QED
      BY <3>1, ViewIs
  <2>3. QED
    BY <1>1, <1>2, <2>1, <2>2 DEF SectorsOf
<1>7. QED
  BY <1>1, <1>2, <1>4, <1>5, <1>6

\* Nothing of the root directory is written.
Rootless(td) == \A i \in DOMAIN td : ~ RootWrite(td[i])
\* A view with one more write that is of neither.
Beside(v, w) ==
  /\ GoodView(w) /\ w.buf = v.buf /\ (Writes(w.todo) <=> Writes(v.todo))
  /\ TableAt(w) = TableAt(v) /\ DirAt(w) = DirAt(v)
  /\ Rootless(v.todo) => Rootless(w.todo)

\* So is one with two of them.
LEMMA BesideTwice ==
  ASSUME NEW u, NEW v, NEW w, Beside(u, v), Beside(v, w)
  PROVE  Beside(u, w)
  BY DEF Beside
\* And one with none.
LEMMA BesideItself ==
  ASSUME NEW v, GoodView(v)
  PROVE  Beside(v, v)
  BY DEF Beside

\* Writing a sector behind the root directory.
LEMMA AskingBeside ==
  ASSUME NEW v, GoodView(v), NEW l \in Lba, NEW d, l >= RESERVED, l \notin FatSectors,
         l \notin RootSectors, GoodSector(l, d)
  PROVE  Beside(v, Asking(v, l, d))
<1>1. PICK w : /\ w = Asking(v, l, d) /\ GoodView(w) /\ w.buf = v.buf
               /\ (Writes(w.todo) <=> Writes(v.todo))
               /\ Len(w.todo) = Len(v.todo) + 1 /\ w.todo[Len(v.todo) + 1].lba = l
               /\ \A i \in DOMAIN v.todo : w.todo[i] = v.todo[i]
               /\ \A m \in Lba : SectorsOf(w)[m] = IF m = l THEN d ELSE SectorsOf(v)[m]
  BY AskingIs
<1>2. TableAt(w) = TableAt(v)
  <2>1. \A c \in Cluster : FatLba(c) \in Lba /\ FatLba(c) # l
    BY FatLbaIs, FatSectorIs
  <2>2. \A c \in Cluster : SectorsOf(w)[FatLba(c)] = SectorsOf(v)[FatLba(c)]
    BY <1>1, <2>1
  <2>3. QED
    BY <2>2 DEF TableAt, TableOf
<1>3. DirAt(w) = DirAt(v)
  <2>1. \A i \in Slot : SlotLba(i) \in Lba /\ SlotLba(i) # l
    BY SlotLbaIs, RootSectorIs
  <2>2. \A i \in Slot : SectorsOf(w)[SlotLba(i)] = SectorsOf(v)[SlotLba(i)]
    BY <1>1, <2>1
  <2>3. QED
    BY <2>2 DEF DirAt, DirOf
<1>4. Rootless(v.todo) => Rootless(w.todo)
  <2>1. w.todo \in Seq(SectorWrite(Cells)) /\ v.todo \in Seq(SectorWrite(Cells))
    BY <1>1, ViewIs
  <2>2. /\ DOMAIN w.todo = 1 .. Len(w.todo) /\ DOMAIN v.todo = 1 .. Len(v.todo)
        /\ Len(v.todo) \in Nat
    BY <2>1, LenProperties
  <2>3. \A i \in DOMAIN w.todo : i = Len(v.todo) + 1 \/ i \in DOMAIN v.todo
    BY <1>1, <2>2
  <2>4. QED
    BY <1>1, <2>3 DEF Rootless, RootWrite
<1>5. QED
  BY <1>1, <1>2, <1>3, <1>4 DEF Beside

\* Writing an entry of the root directory.
LEMMA SetEntryIs ==
  ASSUME GoodChip, NEW v, GoodView(v), NEW i \in Slot, NEW cell \in DirCell
  PROVE  LET w == SetEntry(v, i, cell)
         IN /\ GoodView(w) /\ w.buf = v.buf /\ (Writes(w.todo) <=> Writes(v.todo))
            /\ TableAt(w) = TableAt(v) /\ DirAt(w) = [DirAt(v) EXCEPT ![i] = cell]
            /\ Rootless(v.todo) => \A j, m \in DOMAIN w.todo :
                                     RootWrite(w.todo[j]) /\ RootWrite(w.todo[m]) => j = m
<1>1. PICK l \in RootSectors, k \in 1 .. SectorSize :
        l = SlotLba(i) /\ k = ((i - 1) % SectorSize) + 1 /\ l \in Lba /\ l >= RESERVED /\ l \notin FatSectors
  BY SlotLbaIs, RootSectorIs
<1>2. PICK d : d = SectorAfter(v.todo, l) /\ GoodSector(l, d) /\ d = SectorsOf(v)[l] /\ d \in SectorData
  <2>1. GoodSector(l, SectorAfter(v.todo, l))
    BY <1>1, SectorGood
  <2>2. l # -1 /\ v.buf.lba # l
    <3>1. l # -1
      BY <1>1, RootSectorIs, Sizes
    <3>2. QED
      BY <1>1, <3>1, ViewIs
  <2>3. SectorsOf(v)[l] = SectorAfter(v.todo, l)
    BY <1>1, <2>2 DEF SectorsOf
  <2>4. QED
    BY <2>1, <2>3 DEF GoodSector
<1>3. PICK e : e = [d EXCEPT ![k] = cell]
  OBVIOUS
<1>4. GoodSector(l, e)
  <2>1. cell \in Cells
    BY CellsAre
  <2>2. d \in [1 .. SectorSize -> Cells] /\ \A j \in 1 .. SectorSize : d[j] \in DirCell
    BY <1>2 DEF GoodSector, SectorData
  <2>3. e \in [1 .. SectorSize -> Cells] /\ \A j \in 1 .. SectorSize : e[j] \in DirCell
    BY <1>3, <2>1, <2>2
  <2>4. QED
    BY <2>3, RootSectorIs DEF GoodSector, SectorData
<1>5. SetEntry(v, i, cell) = Asking(v, l, e)
  BY <1>1, <1>2, <1>3 DEF SetEntry
<1>6. PICK w : /\ w = SetEntry(v, i, cell) /\ GoodView(w) /\ w.buf = v.buf
               /\ (Writes(w.todo) <=> Writes(v.todo))
               /\ Len(w.todo) = Len(v.todo) + 1 /\ w.todo[Len(v.todo) + 1].lba = l
               /\ \A j \in DOMAIN v.todo : w.todo[j] = v.todo[j]
               /\ \A m \in Lba : SectorsOf(w)[m] = IF m = l THEN e ELSE SectorsOf(v)[m]
  BY <1>1, <1>4, <1>5, AskingIs
<1>7. TableAt(w) = TableAt(v) /\ DirAt(w) = [DirAt(v) EXCEPT ![i] = cell]
  <2>1. PICK S, R : S = SectorsOf(v) /\ R = SectorsOf(w)
    OBVIOUS
  <2>2. OneCell(R, S, SlotLba(i), ((i - 1) % SectorSize) + 1, cell)
    BY <1>1, <1>2, <1>3, <1>6, <2>1 DEF OneCell
  <2>3. S[SlotLba(i)] \in SectorData
    BY <1>1, <1>2, <2>1
  <2>4. DirOf(R) = [DirOf(S) EXCEPT ![i] = cell] /\ TableOf(R) = TableOf(S)
    BY <2>2, <2>3, DirChange
  <2>5. QED
    BY <2>1, <2>4 DEF TableAt, DirAt
<1>8. ASSUME Rootless(v.todo), NEW j \in DOMAIN w.todo, NEW m \in DOMAIN w.todo,
             RootWrite(w.todo[j]), RootWrite(w.todo[m])
      PROVE  j = m
  <2>1. w.todo \in Seq(SectorWrite(Cells)) /\ v.todo \in Seq(SectorWrite(Cells))
    BY <1>6, ViewIs
  <2>2. /\ DOMAIN w.todo = 1 .. Len(w.todo) /\ DOMAIN v.todo = 1 .. Len(v.todo)
        /\ Len(v.todo) \in Nat
    BY <2>1, LenProperties
  <2>3. \A n \in DOMAIN w.todo : n = Len(v.todo) + 1 \/ n \in DOMAIN v.todo
    BY <1>6, <2>2
  <2>4. QED
    BY <1>6, <1>8, <2>3 DEF Rootless, RootWrite
<1>9. QED
  BY <1>6, <1>7, <1>8

\* Clearing a cluster changes neither the table nor the directory.
LEMMA ClearedBeside ==
  ASSUME GoodChip, NEW v, GoodView(v), NEW c \in Cluster \ {0, 1}
  PROVE  Beside(v, Cleared(v, c))
<1> DEFINE V == {x \in Views : Beside(v, x)}
<1>1. v \in V
  BY ViewsAre, BesideItself
<1>2. ASSUME NEW i \in 1 .. SECTORS_PER_CLUSTER, NEW x, GoodView(x), Beside(v, x)
      PROVE  Beside(v, Asking(x, fatfs_lba_of_cluster(c) + i - 1, Zeros))
  <2>1. i - 1 \in 0 .. SECTORS_PER_CLUSTER - 1
    BY <1>2, Sizes
  <2>2. fatfs_lba_of_cluster(c) + (i - 1) = fatfs_lba_of_cluster(c) + i - 1
    <3>1. c - 2 \in Nat /\ rootdir_first_sector \in Nat
      BY Sizes, Regions
    <3>2. (c - 2) * SECTORS_PER_CLUSTER \in Nat
      BY <3>1, Sizes
    <3>3. fatfs_lba_of_cluster(c) \in Nat
      BY <3>1, <3>2, Sizes DEF fatfs_lba_of_cluster
    <3>4. QED
      BY <3>3
  <2>3. PICK l : l = fatfs_lba_of_cluster(c) + (i - 1) /\ l = fatfs_lba_of_cluster(c) + i - 1
    BY <2>2
  <2>4. /\ l \in Lba /\ l >= RESERVED /\ l \notin FatSectors /\ l \notin RootSectors
        /\ l # fat_begin_lba
    BY <2>1, <2>3, ClusterSectorIs
  <2>5. GoodSector(l, Zeros)
    <3>1. Zeros \in SectorData
      BY CellsAre DEF Zeros, SectorData
    <3>2. QED
      BY <2>4, <3>1 DEF GoodSector
  <2>6. Beside(x, Asking(x, l, Zeros))
    BY <1>2, <2>4, <2>5, AskingBeside
  <2>7. QED
    BY <1>2, <2>3, <2>6, BesideTwice
<1>3. \A i \in 1 .. SECTORS_PER_CLUSTER, x \in V : Asking(x, fatfs_lba_of_cluster(c) + i - 1, Zeros) \in V
  BY <1>2, ViewsAre DEF Beside
<1> HIDE DEF V
<1>4. Cleared(v, c) \in V
  BY <1>1, <1>3, ClearedIn
<1>5. QED
  BY <1>4 DEF V

-----------------------------------------------------------------------------
(* The clusters of a new file.                                             *)

\* The search for a blank cluster reads, and finds one that nobody refers to.
LEMMA BlankKeeps ==
  ASSUME GoodChip, NEW v, GoodView(v)
  PROVE  LET b == fatfs_find_blank_cluster(v)
         IN /\ Keeps(v, b.v)
            /\ b.c # LAST => b.c \in Cluster \ {0, 1} /\ TableAt(v)[b.c] = ZERO
<1>1. PICK w : w = Loaded(v, 0) /\ GoodView(w) /\ Keeps(v, w)
  BY Sizes, LoadedGood, LoadedKeeps
<1>2. CASE Blank(v) = {}
  <2>1. fat_begin_lba + FAT_SECTORS - 1 \in FatSectors
    BY Sizes, Regions DEF FatSectors
  <2>2. Keeps(w, fatfs_fat_read_sector(w, fat_begin_lba + FAT_SECTORS - 1))
    BY <1>1, <2>1, ReadSectorKeeps
  <2>3. PICK u : u = fatfs_fat_read_sector(w, fat_begin_lba + FAT_SECTORS - 1) /\ Keeps(v, u)
    BY <1>1, <2>2, KeepsTwice
  <2>4. fatfs_find_blank_cluster(v) = [v |-> u, c |-> LAST]
    BY <1>1, <1>2, <2>3 DEF fatfs_find_blank_cluster
  <2>5. QED
    BY <2>3, <2>4
<1>3. CASE Blank(v) # {}
  <2>1. Blank(v) \subseteq Nat
    BY Sizes DEF Blank
  <2>2. LowestBlank(v) \in Blank(v)
    BY <1>3, <2>1, LeastElement DEF LowestBlank
  <2>3. PICK c \in Cluster \ {0, 1} : c = LowestBlank(v) /\ EntryOf(v, c) = ZERO
    BY <2>2, EntryGood DEF Blank
  <2>4. TableAt(v)[c] = ZERO
    BY <2>3, EntryIs
  <2>5. PICK u : u = Loaded(w, c) /\ Keeps(v, u)
    BY <1>1, LoadedKeeps, KeepsTwice
  <2>6. fatfs_find_blank_cluster(v) = [v |-> u, c |-> c]
    BY <1>1, <1>3, <2>3, <2>5 DEF fatfs_find_blank_cluster
  <2>7. QED
    BY <2>4, <2>5, <2>6
<1>4. QED
  BY <1>2, <1>3

\* Following a link reads the table.
LEMMA NextIs ==
  ASSUME GoodChip, NEW v, GoodView(v), NEW c \in Reached \ {LAST}
  PROVE  \E d \in Cluster : d = (IF c = 0 THEN 2 ELSE c) /\ fatfs_find_next_cluster(v, c) = Link(TableAt(v)[d])
<1>1. PICK d \in Cluster : d = IF c = 0 THEN 2 ELSE c
  BY Sizes DEF Reached, LAST
<1>2. QED
  BY <1>1, EntryIs DEF fatfs_find_next_cluster

\* The chain of a cluster that is marked as the last one is freed.
LEMMA FreeChainIs ==
  ASSUME GoodChip, NEW v, GoodView(v), NEW c \in Cluster \ {0, 1}, TableAt(v)[c] = FF
  PROVE  LET w == fatfs_free_cluster_chain(v, c)
         IN /\ GoodView(w) /\ w.buf.dirty
            /\ TableAt(w) = [TableAt(v) EXCEPT ![c] = ZERO] /\ DirAt(w) = DirAt(v)
<1>1. PICK chain : /\ chain = Walk(v, c) /\ chain[0] = c
                   /\ \A i \in 1 .. Entries : chain[i] = IF chain[i - 1] = LAST THEN LAST
                                              ELSE fatfs_find_next_cluster(v, chain[i - 1])
  BY WalkIs DEF Reached
<1>2. c \in Reached \ {LAST} /\ c # 0 /\ c \notin {LAST, 0}
  BY ClusterIs DEF Reached
<1>3. 1 \in 1 .. Entries /\ 0 \in 0 .. Entries /\ chain[1] = LAST
  <2>1. 1 \in 1 .. Entries /\ 0 \in 0 .. Entries /\ 1 - 1 = 0
    BY Sizes
  <2>2. fatfs_find_next_cluster(v, c) = Link(FF)
    BY <1>2, NextIs
  <2>3. Link(FF) = LAST
    BY LinkIs, CellsAre
  <2>4. chain[1] = fatfs_find_next_cluster(v, c)
    BY <1>1, <1>2, <2>1
  <2>5. QED
    BY <2>1, <2>2, <2>3, <2>4
<1>4. PICK u : u = fatfs_fat_set_cluster(Loaded(v, c), c, ZERO)
  OBVIOUS
<1> DEFINE ended(i) == \E j \in 0 .. i - 1 : chain[j] \in {LAST, 0}
           step(i, x) == IF ended(i) THEN x
                         ELSE fatfs_fat_set_cluster(Loaded(x, chain[i - 1]), chain[i - 1], ZERO)
           body(f) == [i \in 0 .. Entries |-> IF i = 0 THEN v ELSE step(i, f[i - 1])]
<1>5. fatfs_free_cluster_chain(v, c) = (CHOOSE f : f = body(f))[Entries]
  BY <1>1 DEF fatfs_free_cluster_chain, Entries
<1>6. step(1, v) = u
  <2>1. ~ ended(1)
    BY <1>1, <1>2
  <2>2. QED
    BY <1>1, <1>4, <2>1
<1>7. \A i \in 0 .. Entries : \A x : i > 1 => step(i, x) = x
  <2>1. \A i \in 0 .. Entries : i > 1 => ended(i)
    BY <1>3
  <2>2. QED
    BY <2>1
<1> HIDE DEF step
<1>8. \E f : f = body(f)
  <2> DEFINE g == [i \in 0 .. Entries |-> IF i = 0 THEN v ELSE u]
  <2>1. ASSUME NEW i \in 0 .. Entries PROVE g[i] = IF i = 0 THEN v ELSE step(i, g[i - 1])
    <3>1. CASE i = 0
      BY <3>1
    <3>2. CASE i = 1
      BY <1>3, <1>6, <3>2
    <3>3. CASE i # 0 /\ i # 1
      <4>1. i > 1 /\ i - 1 \in 0 .. Entries /\ i - 1 # 0
        BY <3>3, EntriesIs
      <4>2. g[i - 1] = u /\ g[i] = u
        BY <3>3, <4>1
      <4>3. QED
        BY <1>7, <3>3, <4>1, <4>2
    <3>4. QED
      BY <3>1, <3>2, <3>3
  <2>2. g = [i \in 0 .. Entries |-> g[i]]
    OBVIOUS
  <2> HIDE DEF g
  <2>3. g = body(g)
    BY <2>1, <2>2
  <2>4. QED
    BY <2>3
<1>9. PICK f : fatfs_free_cluster_chain(v, c) = f[Entries] /\ f = body(f)
  <2> HIDE DEF body
  <2>1. QED
    BY <1>5, <1>8
<1>10. \A i \in 0 .. Entries : f[i] = IF i = 0 THEN v ELSE step(i, f[i - 1])
  BY <1>9
<1> HIDE DEF body
<1>11. f[Entries] = u
  <2> DEFINE A == {i \in 0 .. Entries : i = 0 \/ f[i] = u}
  <2>1. 0 \in A
    BY <1>3
  <2>2. ASSUME NEW n \in 0 .. Entries, n \in A, n < Entries PROVE n + 1 \in A
    <3>1. n + 1 \in 0 .. Entries /\ (n + 1) - 1 = n /\ n + 1 # 0
      BY <2>2, EntriesIs
    <3>2. f[n + 1] = step(n + 1, f[n])
      BY <1>10, <3>1
    <3>3. CASE n = 0
      <4>1. f[n] = v /\ n + 1 = 1
        BY <1>3, <1>10, <3>3
      <4>2. QED
        BY <1>6, <3>1, <3>2, <4>1
    <3>4. CASE n # 0
      <4>1. f[n] = u /\ n + 1 > 1
        BY <2>2, <3>4, EntriesIs
      <4>2. QED
        BY <1>7, <3>1, <3>2, <4>1
    <3>5. QED
      BY <3>3, <3>4
  <2> HIDE DEF A
  <2>3. 0 .. Entries \subseteq A
    BY <2>1, <2>2, EntriesIs, IntervalInduction
  <2>4. Entries \in 0 .. Entries /\ Entries # 0
    BY Sizes
  <2>5. QED
    BY <2>3, <2>4 DEF A
<1>12. PICK x : x = Loaded(v, c) /\ GoodView(x) /\ TableAt(x) = TableAt(v) /\ DirAt(x) = DirAt(v)
  BY LoadedKeeps DEF Keeps, TableAt, DirAt
<1>13. GoodView(u) /\ u.buf.dirty /\ TableAt(u) = [TableAt(x) EXCEPT ![c] = ZERO] /\ DirAt(u) = DirAt(x)
  BY <1>4, <1>12, CellsAre, SetClusterIs
<1>14. QED
  BY <1>9, <1>11, <1>12, <1>13

\* So does reading the entries of the chain of entry 0.
LEMMA VisitedKeeps ==
  ASSUME GoodChip, NEW v, GoodView(v)
  PROVE  Keeps(v, Visited(v, 0))
<1> DEFINE V == {x \in Views : Keeps(v, x)}
<1>1. v \in V
  BY ViewsAre, KeepsItself
<1>2. ASSUME NEW x \in V, NEW d \in Cluster PROVE Loaded(x, d) \in V
  <2>1. GoodView(x) /\ Keeps(v, x)
    BY <1>2, ViewsAre
  <2>2. Keeps(x, Loaded(x, d)) /\ GoodView(Loaded(x, d))
    BY <2>1, LoadedKeeps, LoadedGood
  <2>3. QED
    BY <2>1, <2>2, KeepsTwice, ViewsAre
<1> HIDE DEF V
<1>3. Visited(v, 0) \in V
  BY <1>1, <1>2, VisitedIn
<1>4. QED
  BY <1>3 DEF V

\* The table F is E with the cluster n behind entry 0 or at the end of a chain.
Grown(E, F, n) ==
  \E k \in Cluster : /\ k = 0 \/ (Link(E[k]) = LAST /\ \E d \in Cluster : Link(E[d]) = k)
                     /\ F = [[E EXCEPT ![k] = n] EXCEPT ![n] = FF]

\* That is where a cluster is added.
LEMMA AddChainIs ==
  ASSUME GoodChip, NEW v, GoodView(v), NEW n \in Cluster \ {0, 1},
         NEW r, r = fatfs_fat_add_cluster_to_chain(v, 0, n)
  PROVE  \/ r = [v |-> r.v, ok |-> FALSE] /\ Keeps(v, r.v)
         \/ /\ r.ok = TRUE /\ GoodView(r.v) /\ r.v.buf.dirty /\ DirAt(r.v) = DirAt(v)
            /\ Grown(TableAt(v), TableAt(r.v), n)
<1>0. PICK E : E = TableAt(v)
  OBVIOUS
<1>1. PICK chain : /\ chain = Walk(v, 0) /\ chain \in [0 .. Entries -> Reached] /\ chain[0] = 0
                   /\ \A i \in 1 .. Entries : chain[i] = IF chain[i - 1] = LAST THEN LAST
                                              ELSE fatfs_find_next_cluster(v, chain[i - 1])
  BY WalkIs DEF Reached
<1> DEFINE ends == {i \in DOMAIN chain \ {0} : chain[i] = LAST /\ \A j \in 1 .. i : chain[j] # 0}
           e == CHOOSE i \in ends : \A j \in ends : i <= j
<1>5. PICK u : /\ u = Visited(v, 0) /\ GoodView(u) /\ Keeps(v, u)
               /\ TableAt(u) = E /\ DirAt(u) = DirAt(v)
  BY <1>0, VisitedKeeps, VisitedGood DEF Keeps, TableAt, DirAt
<1>2. CASE ends = {}
  <2>1. fatfs_fat_add_cluster_to_chain(v, 0, n) = [v |-> u, ok |-> FALSE]
    BY <1>1, <1>2, <1>5 DEF fatfs_fat_add_cluster_to_chain
  <2>2. r = [v |-> u, ok |-> FALSE] /\ r.v = u
    BY <2>1
  <2>3. QED
    BY <1>5, <2>2
<1>3. CASE ends # {}
  <2>1. ends \subseteq Nat
    BY <1>1, Sizes
  <2>2. e \in ends /\ \A j \in ends : e <= j
    <3> HIDE DEF ends
    <3>1. QED
      BY <1>3, <2>1, LeastElement
  <2>3. DOMAIN chain = 0 .. Entries
    BY <1>1
  <2>4. PICK k \in 1 .. Entries :
          /\ k = e /\ chain[k] = LAST /\ (\A j \in 1 .. k : chain[j] # 0)
          /\ \A j \in 1 .. Entries : chain[j] = LAST /\ (\A m \in 1 .. j : chain[m] # 0) => k <= j
    <3> HIDE DEF e
    <3>1. e \in 1 .. Entries /\ chain[e] = LAST /\ \A j \in 1 .. e : chain[j] # 0
      BY <2>2, <2>3, EntriesIs
    <3>2. ASSUME NEW j \in 1 .. Entries, chain[j] = LAST, \A m \in 1 .. j : chain[m] # 0 PROVE j \in ends
      BY <2>3, <3>2, EntriesIs
    <3>3. QED
      BY <2>2, <3>1, <3>2
  <2>5. PICK last \in Cluster :
          last = chain[e - 1] /\ (last = 0 \/ (Link(E[last]) = LAST /\ \E d \in Cluster : Link(E[d]) = last))
    <3>1. PICK m \in 0 .. Entries : m = k - 1 /\ m < k /\ m = e - 1
      <4> HIDE DEF e
      <4>1. k - 1 \in 0 .. Entries /\ k - 1 < k /\ k - 1 = e - 1
        BY <2>4, EntriesIs
      <4>2. QED
        BY <4>1
    <3>2. CASE m = 0
      <4>1. chain[m] \in Cluster /\ chain[m] = 0
        BY <1>1, <3>2, Sizes
      <4>2. QED
        BY <3>1, <4>1
    <3>3. CASE m # 0
      <4>1. m \in 1 .. Entries /\ 1 .. m \subseteq 1 .. k /\ m - 1 \in 0 .. Entries
        BY <3>1, <3>3, EntriesIs
      <4>2. chain[m] # LAST /\ chain[m] # 0
        <5>1. \A j \in 1 .. m : chain[j] # 0
          BY <2>4, <4>1
        <5>2. ~(k <= m)
          BY <3>1
        <5>3. chain[m] # LAST
          BY <2>4, <4>1, <5>1, <5>2
        <5>4. QED
          BY <4>1, <5>1, <5>3
      <4>3. chain[m] \in Cluster
        BY <1>1, <3>1, <4>2 DEF Reached
      <4>4. chain[m - 1] \in Reached \ {LAST} /\ chain[m] = fatfs_find_next_cluster(v, chain[m - 1])
        BY <1>1, <4>1, <4>2
      <4>5. \E d \in Cluster : Link(E[d]) = chain[m]
        BY <1>0, <4>4, NextIs
      <4>6. Link(E[chain[m]]) = LAST
        <5>1. chain[k] = fatfs_find_next_cluster(v, chain[m])
          BY <1>1, <2>4, <3>1, <4>2
        <5>2. chain[m] \in Reached \ {LAST}
          BY <1>1, <3>1, <4>2
        <5>3. QED
          BY <1>0, <2>4, <4>2, <5>1, <5>2, NextIs
      <4>7. QED
        BY <3>1, <4>3, <4>5, <4>6
    <3>4. QED
      BY <3>2, <3>3
  <2>6. PICK w : /\ w = fatfs_fat_set_cluster(u, last, n) /\ GoodView(w)
                 /\ TableAt(w) = [E EXCEPT ![last] = n] /\ DirAt(w) = DirAt(v)
    <3>1. n \in FatCell /\ n # ZERO
      BY MarkAssumption DEF FatCell
    <3>2. QED
      BY <1>5, <3>1, SetClusterIs
  <2>7. PICK x : /\ x = fatfs_fat_set_cluster(w, n, FF) /\ GoodView(x) /\ x.buf.dirty
                 /\ TableAt(x) = [TableAt(w) EXCEPT ![n] = FF] /\ DirAt(x) = DirAt(w)
    <3>1. FF \in FatCell /\ FF # ZERO /\ n \in Cluster /\ GoodView(w)
      BY <2>6, CellsAre, MarkAssumption, SMTT(30)
    <3>2. QED
      BY <3>1, SetClusterIs
  <2>8. fatfs_fat_add_cluster_to_chain(v, 0, n) = [v |-> x, ok |-> TRUE]
    BY <1>1, <1>3, <1>5, <2>5, <2>6, <2>7 DEF fatfs_fat_add_cluster_to_chain
  <2>10. TableAt(x) = [[E EXCEPT ![last] = n] EXCEPT ![n] = FF]
    BY <2>6, <2>7
  <2>11. last = 0 \/ (Link(E[last]) = LAST /\ \E d \in Cluster : Link(E[d]) = last)
    BY <2>5
  <2>12. DirAt(x) = DirAt(v)
    BY <2>6, <2>7
  <2>13. Grown(E, TableAt(x), n)
    BY <2>10, <2>11 DEF Grown
  <2> HIDE DEF ends, e
  <2>14. r.v = x /\ r.ok = TRUE
    BY <2>8
  <2>15. QED
    BY <1>0, <2>7, <2>12, <2>13, <2>14
<1>4. QED
  BY <1>2, <1>3

\* So the table stays sound, and leaves the others that are marked and not referred to.
LEMMA AddSound ==
  ASSUME NEW E \in Table, NEW D \in Directory, Sound(E, D), NEW n \in Cluster \ {0, 1}, E[n] = ZERO,
         NEW F, Grown(E, F, n)
  PROVE  /\ F \in Table /\ Sound(F, D)
         /\ \A c \in Cluster \ {0, 1} : E[c] = FF /\ ~ Referred(E, D, c) => F[c] = FF /\ ~ Referred(F, D, c)
         /\ \A X : Owned(E, D, X) => Owned(F, D, X)
<1>1. ~ Referred(E, D, n)
  BY FreeUnreferred
<1>2. PICK k \in Cluster : k # n /\ (k = 0 \/ (Link(E[k]) = LAST /\ \E d \in Cluster : Link(E[d]) = k))
                           /\ F = [[E EXCEPT ![k] = n] EXCEPT ![n] = FF]
  BY <1>1 DEF Grown, Referred
<1>3. PICK G : G = [E EXCEPT ![n] = FF]
  OBVIOUS
<1>4. FF \in FatCell /\ FF # ZERO /\ Link(FF) = LAST /\ n \in FatCell
  BY LinkIs, CellsAre, MarkAssumption DEF FatCell
<1>5. G \in Table /\ \A c \in Cluster : G[c] = IF c = n THEN FF ELSE E[c]
  BY <1>3, <1>4 DEF Table
<1>6. Sound(G, D)
  BY <1>3, EndSound
<1>7. G[n] # ZERO /\ ~ Referred(G, D, n)
  BY <1>1, <1>4, <1>5, ClusterIs DEF Referred
<1>8. F \in Table /\ \A c \in Cluster : F[c] = IF c = n THEN FF ELSE IF c = k THEN n ELSE E[c]
  BY <1>2, <1>4 DEF Table
<1>9. F = [G EXCEPT ![k] = n]
  <2>1. PICK H : H = [G EXCEPT ![k] = n]
    OBVIOUS
  <2>2. H \in Table /\ \A c \in Cluster : H[c] = IF c = k THEN n ELSE G[c]
    BY <1>4, <1>5, <2>1 DEF Table
  <2>3. \A c \in Cluster : H[c] = F[c]
    BY <1>2, <1>5, <1>8, <2>2
  <2>4. H = F
    BY <1>8, <2>2, <2>3 DEF Table
  <2>5. QED
    BY <2>1, <2>4
<1>10. Sound(F, D)
  BY <1>5, <1>6, <1>7, <1>9, LinkSound
<1>11. ASSUME NEW c \in Cluster \ {0, 1}, E[c] = FF, ~ Referred(E, D, c)
       PROVE  F[c] = FF /\ ~ Referred(F, D, c)
  <2>1. c # n /\ c # k
    BY <1>2, <1>4, <1>11 DEF Referred
  <2>2. F[c] = FF
    BY <1>8, <1>11, <2>1
  <2>3. Link(n) \in {LAST, 0} \/ Link(n) = n
    BY <1>4, LinkIs
  <2>4. \A d \in Cluster : Link(F[d]) # c
    BY <1>4, <1>8, <1>11, <2>1, <2>3, ClusterIs DEF Referred
  <2>5. QED
    BY <1>11, <2>2, <2>4 DEF Referred
<1>12. \A X : Owned(E, D, X) => Owned(F, D, X)
  BY <1>2, GrowOwned
<1>13. QED
  BY <1>8, <1>10, <1>11, <1>12

\* No file has the name f.
Fresh(v, f) == \A i \in Slot : IsEntry(DirAt(v)[i]) => DirAt(v)[i].name # f

\* The search for a name that is not entered finds none.
LEMMA FreshIs ==
  ASSUME GoodChip, NEW v, GoodView(v), NEW f, fatfs_get_file_entry(v.todo, f) = 0
  PROVE  Fresh(v, f)
<1>1. SlotsOf(v.todo, f) = {}
  <2>1. SUFFICES ASSUME SlotsOf(v.todo, f) # {} PROVE FALSE
    OBVIOUS
  <2>2. SlotsOf(v.todo, f) \subseteq Nat \ {0}
    BY SlotsAre DEF SlotsOf
  <2>3. PICK i \in SlotsOf(v.todo, f) :
          i = CHOOSE k \in SlotsOf(v.todo, f) : \A j \in SlotsOf(v.todo, f) : k <= j
    BY <2>1, <2>2, LeastElement
  <2>4. fatfs_get_file_entry(v.todo, f) = i
    BY <2>1, <2>3 DEF fatfs_get_file_entry
  <2>5. QED
    BY <2>2, <2>4
<1>2. QED
  BY <1>1, DirEntryIs DEF SlotsOf, Fresh

\* A cluster that is marked as the last one of a chain and that nobody refers to.
Taken(v, c) == TableAt(v)[c] = FF /\ ~ Referred(TableAt(v), DirAt(v), c)
\* A sound view with a change of the table pending.
Busy(v) == GoodView(v) /\ SoundView(v) /\ Pending(v) /\ Ordered(v)

\* What reads the same keeps all that.
LEMMA KeepsSound ==
  ASSUME NEW v, NEW w, Keeps(v, w)
  PROVE  /\ GoodView(w) /\ TableAt(w) = TableAt(v) /\ DirAt(w) = DirAt(v)
         /\ SoundView(v) => SoundView(w)
         /\ Busy(v) => Busy(w)
         /\ \A c : Taken(v, c) => Taken(w, c)
         /\ \A f : Fresh(v, f) => Fresh(w, f)
         /\ \A X : OwnedView(v, X) => OwnedView(w, X)
<1>1. TableAt(w) = TableAt(v) /\ DirAt(w) = DirAt(v) /\ GoodView(w)
  BY DEF Keeps, TableAt, DirAt
<1>2. QED
  BY <1>1 DEF Keeps, Onward, SoundView, Busy, Taken, Fresh, OwnedView

\* Entering the name behind a table that is in the buffer.
LEMMA EnterBusy ==
  ASSUME GoodChip, NEW v, GoodView(v), SoundView(v), v.buf.dirty, NEW c \in Cluster \ {0, 1},
         Taken(v, c), NEW f \in Names, Fresh(v, f), NEW i \in Slot, ~ IsEntry(DirAt(v)[i]),
         NEW cell, cell = [name |-> f, start |-> c, len |-> 0]
  PROVE  /\ Busy(SetEntry(v, i, cell))
         /\ OwnedView(v, {c}) => OwnedView(SetEntry(v, i, cell), {})
<1>1. cell \in Entry
  BY MaxLengthIs DEF Entry, MaxLength
<1>2. cell \in DirCell /\ cell.start = c /\ cell.name = f
  BY <1>1, CellsAre
<1>3. PICK w : /\ w = SetEntry(v, i, cell) /\ GoodView(w) /\ w.buf = v.buf
               /\ TableAt(w) = TableAt(v) /\ DirAt(w) = [DirAt(v) EXCEPT ![i] = cell]
  BY <1>2, SetEntryIs
<1>4. TableAt(v) \in Table /\ DirAt(v) \in Directory
  BY TablesAre
<1>5. TableAt(v)[c] # ZERO
  BY MarkAssumption DEF Taken
<1>6. Sound(TableAt(v), [DirAt(v) EXCEPT ![i] = cell])
  BY <1>1, <1>2, <1>4, <1>5, EnterSound DEF Taken, Fresh, SoundView
<1>7. Busy(w)
  BY <1>3, <1>6 DEF Busy, SoundView, Pending, Ordered
<1>8. ASSUME OwnedView(v, {c}) PROVE OwnedView(w, {})
  <2>1. IsEntry(cell)
    BY <1>1, EntryCell
  <2>2. Owned(TableAt(v), [DirAt(v) EXCEPT ![i] = cell], {})
    BY <1>2, <1>4, <1>8, <2>1, EnterOwned DEF OwnedView
  <2>3. QED
    BY <1>3, <2>2 DEF OwnedView
<1>9. QED
  BY <1>3, <1>7, <1>8

\* What entering a name gives: a sound view, and if there was no room the cluster is still
\* to be freed; otherwise the file has it.
Entered(v, r, c) ==
  /\ Busy(r.v) /\ r.ok \in BOOLEAN
  /\ ~ r.ok => Taken(r.v, c)
  /\ OwnedView(v, {c}) => OwnedView(r.v, IF r.ok THEN {} ELSE {c})

\* The result with its parts.
LEMMA EnteredIs ==
  ASSUME NEW v, NEW u, NEW c, NEW k \in BOOLEAN, Busy(u), ~ k => Taken(u, c),
         OwnedView(v, {c}) => OwnedView(u, IF k THEN {} ELSE {c}),
         NEW r, r = [v |-> u, ok |-> k]
  PROVE  Entered(v, r, c)
  BY DEF Entered

\* Entering a name.
LEMMA AddEntryBusy ==
  ASSUME GoodChip, NEW v, GoodView(v), SoundView(v), v.buf.dirty, NEW c \in Cluster \ {0, 1},
         Taken(v, c), NEW f \in Names, Fresh(v, f)
  PROVE  Entered(v, fatfs_add_file_entry(v, f, c), c)
<1>1. PICK cell : cell = [name |-> f, start |-> c, len |-> 0]
  OBVIOUS
<1>2. CASE Vacant(v.todo) # {}
  <2>1. Vacant(v.todo) \subseteq Nat
    BY SlotsAre DEF Vacant
  <2>2. PICK i \in Vacant(v.todo) : i = CHOOSE k \in Vacant(v.todo) : \A j \in Vacant(v.todo) : k <= j
    BY <1>2, <2>1, LeastElement
  <2>3. i \in Slot /\ i \in Nat \ {0}
    BY SlotsAre DEF Vacant
  <2>4. PICK j \in Slot : j = RunBefore(v.todo, i)
    BY <2>3, SlotsAre, RunBeforeIn
  <2>5. PICK x : /\ x = SetEntry(v, j, cell) /\ Busy(x)
                 /\ OwnedView(v, {c}) => OwnedView(x, {})
    <3>1. DirEntry(v.todo, i) \in {ZERO, DEL}
      BY DEF Vacant
    <3>2. j = i \/ DirEntry(v.todo, j) = FF
      BY <2>3, <2>4, RunBeforeIn
    <3>3. ~ IsEntry(DirAt(v)[j])
      BY <3>1, <3>2, DirEntryIs DEF IsEntry
    <3>4. QED
      BY <1>1, <3>3, EnterBusy
  <2>6. fatfs_add_file_entry(v, f, c) = [v |-> x, ok |-> TRUE]
    BY <1>1, <1>2, <2>2, <2>4, <2>5 DEF fatfs_add_file_entry
  <2>7. QED
    BY <2>5, <2>6, EnteredIs
<1>3. CASE Vacant(v.todo) = {}
  <2>1. PICK blank : /\ blank = fatfs_find_blank_cluster(v) /\ Keeps(v, blank.v)
                     /\ blank.c # LAST => blank.c \in Cluster \ {0, 1} /\ TableAt(v)[blank.c] = ZERO
    BY BlankKeeps
  <2>2. PICK u : /\ u = blank.v /\ GoodView(u) /\ TableAt(u) = TableAt(v) /\ DirAt(u) = DirAt(v)
                 /\ SoundView(u) /\ Taken(u, c) /\ Fresh(u, f) /\ (Busy(v) => Busy(u))
                 /\ OwnedView(v, {c}) => OwnedView(u, {c})
    BY <2>1, KeepsSound
  <2>3. Busy(u)
    BY <2>2 DEF Busy, Pending, Ordered
  <2>4. fatfs_add_file_entry(v, f, c) = Extended(blank, cell)
    BY <1>1, <1>3, <2>1 DEF fatfs_add_file_entry
  <2>5. CASE blank.c = LAST
    <3>1. Extended(blank, cell) = [v |-> u, ok |-> FALSE]
      BY <2>2, <2>5 DEF Extended
    <3>2. QED
      BY <2>2, <2>3, <2>4, <3>1, EnteredIs
  <2>6. CASE blank.c # LAST
    <3>1. PICK n \in Cluster \ {0, 1} : n = blank.c /\ TableAt(u)[n] = ZERO
      BY <2>1, <2>2, <2>6
    <3>2. PICK i, added : /\ added = fatfs_fat_add_cluster_to_chain(u, 0, n)
                          /\ Extended(blank, cell) = EnteredBehind(added, cell, n, i)
                          /\ i = RunBefore(u.todo, 1 + ROOT_SECTORS * SectorSize)
      BY <2>2, <2>6, <3>1 DEF Extended
    <3>3. CASE added = [v |-> added.v, ok |-> FALSE] /\ Keeps(u, added.v)
      <4>1. PICK y : /\ y = added.v /\ GoodView(y) /\ SoundView(y) /\ Taken(y, c) /\ Fresh(y, f)
                     /\ (Busy(u) => Busy(y)) /\ (OwnedView(u, {c}) => OwnedView(y, {c}))
        BY <2>2, <3>3, KeepsSound
      <4>2. EnteredBehind(added, cell, n, i) = [v |-> y, ok |-> FALSE]
        <5>1. ~ added.ok /\ added = [v |-> y, ok |-> FALSE]
          BY <3>3, <4>1
        <5>2. QED
          BY <5>1 DEF EnteredBehind
      <4>3. fatfs_add_file_entry(v, f, c) = [v |-> y, ok |-> FALSE]
        BY <2>4, <3>2, <4>2
      <4>4. QED
        BY <2>2, <2>3, <4>1, <4>3, EnteredIs
    <3>4. CASE ~ (added = [v |-> added.v, ok |-> FALSE] /\ Keeps(u, added.v))
      <4>1. PICK E \in Table, D \in Directory : E = TableAt(u) /\ D = DirAt(u)
        BY <2>2, TablesAre
      <4>2. /\ added.ok = TRUE /\ GoodView(added.v) /\ added.v.buf.dirty /\ DirAt(added.v) = D
            /\ Grown(E, TableAt(added.v), n)
        BY <2>2, <3>2, <3>4, <4>1, AddChainIs
      <4>4. PICK F : F = TableAt(added.v)
        OBVIOUS
      <4>5. /\ Sound(F, D)
            /\ \A d \in Cluster \ {0, 1} : E[d] = FF /\ ~ Referred(E, D, d) => F[d] = FF /\ ~ Referred(F, D, d)
            /\ \A X : Owned(E, D, X) => Owned(F, D, X)
        <5>1. Sound(E, D) /\ E[n] = ZERO
          BY <2>2, <3>1, <4>1 DEF SoundView
        <5>2. QED
          BY <4>2, <4>4, <5>1, AddSound
      <4>6. E[c] = FF /\ ~ Referred(E, D, c)
        BY <2>2, <4>1 DEF Taken
      <4>7. PICK x : x = Cleared(added.v, n) /\ Beside(added.v, x)
        BY <4>2, ClearedBeside
      <4>8. GoodView(x) /\ x.buf.dirty /\ TableAt(x) = F /\ DirAt(x) = D
        BY <4>2, <4>4, <4>7 DEF Beside
      <4>9. SoundView(x) /\ Taken(x, c) /\ Fresh(x, f)
        BY <2>2, <4>1, <4>5, <4>6, <4>8 DEF SoundView, Taken, Fresh
      <4>10. OwnedView(v, {c}) => OwnedView(x, {c})
        BY <2>2, <4>1, <4>5, <4>8 DEF OwnedView
      <4>11. CASE i \in Slot
        <5>1. PICK y : /\ y = SetEntry(x, i, cell) /\ Busy(y)
                       /\ OwnedView(x, {c}) => OwnedView(y, {})
          <6>1. DirEntry(u.todo, i) = FF
            <7>1. i \in RunBefore(u.todo, 1 + ROOT_SECTORS * SectorSize) .. (1 + ROOT_SECTORS * SectorSize) - 1
              BY <3>2, <4>11, SlotsAre
            <7>2. QED
              BY <3>2, <7>1, SlotsAre, RunBeforeIn
          <6>2. ~ IsEntry(DirAt(x)[i])
            BY <2>2, <4>1, <4>8, <4>11, <6>1, DirEntryIs DEF IsEntry
          <6>3. QED
            BY <1>1, <4>8, <4>9, <4>11, <6>2, EnterBusy
        <5>2. EnteredBehind(added, cell, n, i) = [v |-> y, ok |-> TRUE]
          BY <4>2, <4>7, <4>11, <5>1 DEF EnteredBehind
        <5>3. fatfs_add_file_entry(v, f, c) = [v |-> y, ok |-> TRUE]
          BY <2>4, <3>2, <5>2
        <5>4. QED
          BY <4>10, <5>1, <5>3, EnteredIs
      <4>12. CASE i \notin Slot
        <5>1. EnteredBehind(added, cell, n, i) = [v |-> x, ok |-> FALSE]
          BY <4>2, <4>7, <4>12 DEF EnteredBehind
        <5>2. Busy(x)
          BY <4>8, <4>9 DEF Busy, Pending, Ordered
        <5>3. fatfs_add_file_entry(v, f, c) = [v |-> x, ok |-> FALSE]
          BY <2>4, <3>2, <5>1
        <5>4. QED
          BY <4>9, <4>10, <5>2, <5>3, EnteredIs
      <4>13. QED
        BY <4>11, <4>12
    <3>5. QED
      BY <3>3, <3>4
  <2>7. QED
    BY <2>5, <2>6
<1>4. QED
  BY <1>2, <1>3

-----------------------------------------------------------------------------
(* The calls of the library.                                               *)

\* What a call leaves that began with the view v and nothing asked for.
Lasting(v, w) ==
  /\ GoodView(w) /\ SoundView(w)
  /\ Pending(v) => Pending(w)
  /\ Ordered(w) /\ Single(w)
  /\ OwnedView(v, {}) => OwnedView(w, {})

\* A change of the table that is pending will be written last.
LEMMA BusyLasting ==
  ASSUME NEW v, NEW w, Busy(w), OwnedView(v, {}) => OwnedView(w, {})
  PROVE  Lasting(v, w)
  BY DEF Busy, Lasting, Single
\* Reading before a call ends leaves what it left.
LEMMA KeepsLasting ==
  ASSUME NEW v, NEW w, NEW x, Lasting(v, w), Keeps(w, x)
  PROVE  Lasting(v, x)
<1>1. GoodView(x) /\ SoundView(x) /\ (OwnedView(w, {}) => OwnedView(x, {}))
  BY KeepsSound DEF Lasting
<1>2. QED
  BY <1>1 DEF Lasting, Keeps, Onward, Single
\* Nothing has been asked for.
LEMMA NoWrites ==
  ASSUME NEW v, v.todo = <<>>
  PROVE  ~ Writes(v.todo) /\ Ordered(v) /\ Single(v) /\ Rootless(v.todo)
<1>1. DOMAIN v.todo = {}
  BY EmptySeq
<1>2. QED
  BY <1>1 DEF Writes, Ordered, Single, Rootless
\* A call that asks for nothing.
LEMMA LastingItself ==
  ASSUME NEW v, GoodView(v), SoundView(v), v.todo = <<>>
  PROVE  Lasting(v, v)
  BY NoWrites DEF Lasting

\* Opening a file reads.
LEMMA OpenKeeps ==
  ASSUME GoodChip, NEW v, GoodView(v), NEW f
  PROVE  Keeps(v, open_file(v, f).v)
<1>1. PICK i, x, h : /\ i = fatfs_get_file_entry(v.todo, f) /\ x = fatfs_fat_purge(v)
                     /\ h = Handle(f, DirEntry(v.todo, i).start, DirEntry(v.todo, i).len)
  OBVIOUS
<1>2. open_file(v, f) = [v |-> v, file |-> <<>>] \/ open_file(v, f) = [v |-> x, file |-> <<h>>]
  BY <1>1 DEF open_file
<1>3. open_file(v, f).v \in {v, x}
  BY <1>2
<1>4. QED
  BY <1>1, <1>3, KeepsItself, PurgeKeeps

\* Creating one marks a free cluster, enters the name, and writes the table in the end.
LEMMA CreateLasting ==
  ASSUME GoodChip, NEW v, GoodView(v), SoundView(v), v.todo = <<>>, NEW f \in Names
  PROVE  Lasting(v, create_file(v, f).v)
<1>1. CASE NoHandle(f) \/ fatfs_get_file_entry(v.todo, f) # 0
  <2>1. create_file(v, f) = [v |-> v, file |-> <<>>]
    BY <1>1 DEF create_file
  <2>2. QED
    BY <2>1, LastingItself
<1>2. CASE ~NoHandle(f) /\ fatfs_get_file_entry(v.todo, f) = 0
  <2>1. PICK blank : /\ blank = fatfs_find_blank_cluster(v) /\ Keeps(v, blank.v)
                     /\ blank.c # LAST => blank.c \in Cluster \ {0, 1} /\ TableAt(v)[blank.c] = ZERO
    BY BlankKeeps
  <2>2. PICK u : /\ u = blank.v /\ GoodView(u) /\ TableAt(u) = TableAt(v) /\ DirAt(u) = DirAt(v)
                 /\ SoundView(u) /\ Fresh(u, f) /\ Keeps(v, u)
                 /\ OwnedView(v, {}) => OwnedView(u, {})
    <3>1. Fresh(v, f)
      BY <1>2, FreshIs
    <3>2. QED
      BY <2>1, <3>1, KeepsSound
  <2>3. create_file(v, f) = CreatedAt(blank, f)
    BY <1>2, <2>1 DEF create_file
  <2>4. CASE blank.c = LAST
    <3>1. CreatedAt(blank, f) = [v |-> u, file |-> <<>>]
      BY <2>2, <2>4 DEF CreatedAt
    <3>2. Lasting(v, u)
      BY <2>2, LastingItself, KeepsLasting
    <3>3. create_file(v, f).v = u
      BY <2>3, <3>1
    <3>4. QED
      BY <3>2, <3>3
  <2>5. CASE blank.c # LAST
    <3>1. PICK c \in Cluster \ {0, 1} : c = blank.c /\ TableAt(u)[c] = ZERO
      BY <2>1, <2>2, <2>5
    <3>2. PICK E \in Table, D \in Directory : E = TableAt(u) /\ D = DirAt(u) /\ Sound(E, D)
      BY <2>2, TablesAre DEF SoundView
    <3>3. PICK x : /\ x = fatfs_fat_set_cluster(u, c, FF) /\ GoodView(x) /\ x.buf.dirty
                   /\ TableAt(x) = [E EXCEPT ![c] = FF] /\ DirAt(x) = D
      <4>1. FF \in FatCell /\ c \in Cluster /\ (c \in {0, 1} => FF # ZERO)
        BY CellsAre
      <4>2. QED
        BY <2>2, <3>2, <4>1, SetClusterIs
    <3>4. Sound([E EXCEPT ![c] = FF], D)
      BY <3>2, EndSound
    <3>5. SoundView(x) /\ Fresh(x, f)
      BY <2>2, <3>2, <3>3, <3>4 DEF SoundView, Fresh
    <3>6. Taken(x, c)
      <4>1. ~ Referred(E, D, c)
        BY <3>1, <3>2, FreeUnreferred
      <4>2. PICK F : F = [E EXCEPT ![c] = FF] /\ \A d \in Cluster : F[d] = IF d = c THEN FF ELSE E[d]
        <5>1. PICK F : F = [E EXCEPT ![c] = FF]
          OBVIOUS
        <5>2. \A d \in Cluster : F[d] = IF d = c THEN FF ELSE E[d]
          BY <5>1 DEF Table
        <5>3. QED
          BY <5>1, <5>2
      <4>3. Link(FF) = LAST
        BY LinkIs, CellsAre
      <4>4. F[c] = FF /\ ~ Referred(F, D, c)
        BY <4>1, <4>2, <4>3, ClusterIs DEF Referred
      <4>5. QED
        BY <3>3, <4>2, <4>4 DEF Taken
    <3>7. OwnedView(v, {}) => OwnedView(x, {c})
      <4>1. Owned(E, D, {}) => Owned([E EXCEPT ![c] = FF], D, {c})
        BY <3>1, <3>2, MarkOwned
      <4>2. QED
        BY <2>2, <3>2, <3>3, <4>1 DEF OwnedView
    <3>8. PICK added : added = fatfs_add_file_entry(x, f, c) /\ Entered(x, added, c)
      BY <3>3, <3>5, <3>6, AddEntryBusy
    <3>9. create_file(v, f) = Created(added, f, c)
      BY <2>2, <2>3, <2>5, <3>1, <3>3, <3>8 DEF CreatedAt
    <3>10. CASE added.ok
      <4>1. PICK y, h : y = fatfs_fat_purge(added.v) /\ h = Handle(f, c, 0)
        OBVIOUS
      <4>2. Busy(y) /\ (OwnedView(x, {c}) => OwnedView(y, {}))
        <5>1. Busy(added.v) /\ (OwnedView(x, {c}) => OwnedView(added.v, {}))
          BY <3>8, <3>10 DEF Entered
        <5>2. Keeps(added.v, y)
          BY <4>1, <5>1, PurgeKeeps DEF Busy
        <5>3. QED
          BY <5>1, <5>2, KeepsSound
      <4>3. create_file(v, f) = [v |-> y, file |-> <<h>>]
        BY <3>9, <3>10, <4>1 DEF Created
      <4>4. create_file(v, f).v = y
        BY <4>3
      <4>5. QED
        BY <3>7, <4>2, <4>4, BusyLasting
    <3>11. CASE ~added.ok
      <4>1. PICK a : /\ a = added.v /\ GoodView(a) /\ SoundView(a) /\ Taken(a, c)
                     /\ OwnedView(x, {c}) => OwnedView(a, {c})
        BY <3>8, <3>11 DEF Entered, Busy
      <4>2. PICK y : /\ y = fatfs_free_cluster_chain(a, c) /\ GoodView(y) /\ y.buf.dirty
                     /\ TableAt(y) = [TableAt(a) EXCEPT ![c] = ZERO] /\ DirAt(y) = DirAt(a)
        BY <4>1, FreeChainIs DEF Taken
      <4>3. Sound([TableAt(a) EXCEPT ![c] = ZERO], DirAt(a))
        BY <4>1, TablesAre, FreeSound DEF Taken, SoundView
      <4>4. Busy(y)
        BY <4>2, <4>3 DEF Busy, SoundView, Pending, Ordered
      <4>5. create_file(v, f) = [v |-> y, file |-> <<>>]
        BY <3>9, <3>11, <4>1, <4>2 DEF Created
      <4>6. create_file(v, f).v = y
        BY <4>5
      <4>7. OwnedView(a, {c}) => OwnedView(y, {})
        BY <4>1, <4>2, TablesAre, FreeOwned DEF Taken, OwnedView
      <4>8. QED
        BY <3>7, <4>1, <4>4, <4>6, <4>7, BusyLasting
    <3>12. QED
      BY <3>10, <3>11
  <2>6. QED
    BY <2>4, <2>5
<1>3. QED
  BY <1>1, <1>2

\* fl_fopen for writing.
LEMMA FopenWLasting ==
  ASSUME GoodChip, NEW v, GoodView(v), SoundView(v), v.todo = <<>>, NEW f \in Names
  PROVE  Lasting(v, fopen_w(v, f).v)
<1>1. PICK new : new = create_file(v, f) /\ Lasting(v, new.v)
  BY CreateLasting
<1>2. Keeps(new.v, open_file(new.v, f).v)
  BY <1>1, OpenKeeps DEF Lasting
<1>3. Lasting(v, open_file(new.v, f).v)
  BY <1>1, <1>2, KeepsLasting
<1>4. fopen_w(v, f) = new \/ fopen_w(v, f) = open_file(new.v, f)
  BY <1>1 DEF fopen_w, CreatedOrOpen
<1>5. QED
  BY <1>1, <1>3, <1>4

\* Reading a file reads.
LEMMA FreadKeeps ==
  ASSUME GoodChip, NEW v, GoodView(v), NEW h \in OpenFile, NEW n \in Nat, h.pos + n <= h.len
  PROVE  Keeps(v, fl_fread(v, h, n).v)
<1>1. PICK k : k = (h.pos + n - 1) \div SectorSize
  OBVIOUS
<1>2. fl_fread(v, h, n).v = IF n = 0 THEN v ELSE WalkedTo(v, h, k)
  BY <1>1 DEF fl_fread
<1>3. CASE n = 0
  BY <1>2, <1>3, KeepsItself
<1>4. CASE n # 0
  <2>1. n \in Nat \ {0}
    BY <1>4
  <2>2. WalkedTo(v, h, k) = v \/ \E c \in Cluster : WalkedTo(v, h, k) = Loaded(v, c)
    BY <1>1, <2>1, WalkedToIs
  <2>3. QED
    BY <1>2, <1>4, <2>2, KeepsItself, LoadedKeeps
<1>5. QED
  BY <1>3, <1>4

\* The entry found is that of a file.
LEMMA NamedIs ==
  ASSUME NEW v, NEW f, NEW i, i = fatfs_get_file_entry(v.todo, f), i # 0
  PROVE  IsEntry(DirEntry(v.todo, i))
<1>1. SlotsOf(v.todo, f) # {} /\ SlotsOf(v.todo, f) \subseteq Nat
  BY SlotsAre DEF SlotsOf, fatfs_get_file_entry
<1>2. \E k \in SlotsOf(v.todo, f) : \A j \in SlotsOf(v.todo, f) : k <= j
  BY <1>1, LeastElement
<1>3. i \in SlotsOf(v.todo, f)
  BY <1>1, <1>2 DEF fatfs_get_file_entry
<1>4. QED
  BY <1>3 DEF SlotsOf

\* Closing a file writes a sector of it and its length, and then the table.
LEMMA FcloseLasting ==
  ASSUME GoodChip, NEW v, GoodView(v), SoundView(v), v.todo = <<>>, NEW h \in OpenFile
  PROVE  Lasting(v, fl_fclose(v, h))
<1>1. PICK x : x = fl_fflush(v, h) /\ Beside(v, x)
  <2>1. CASE h.dirty
    <3>1. h.data \in SectorData
      BY <2>1 DEF OpenFile
    <3>2. PICK l : l = SectorOf(v, h, 0) /\ l \in Lba /\ l >= RESERVED /\ l \notin FatSectors
                   /\ l \notin RootSectors /\ GoodSector(l, h.data)
      BY <3>1, FirstSectorIs
    <3>3. Beside(v, Asking(v, l, h.data))
      BY <3>2, AskingBeside
    <3>4. QED
      BY <2>1, <3>2, <3>3 DEF fl_fflush
  <2>2. CASE ~h.dirty
    BY <2>2, BesideItself DEF fl_fflush
  <2>3. QED
    BY <2>1, <2>2
<1>2. /\ GoodView(x) /\ x.buf = v.buf /\ ~ Writes(x.todo) /\ Rootless(x.todo)
      /\ TableAt(x) = TableAt(v) /\ DirAt(x) = DirAt(v) /\ SoundView(x)
      /\ OwnedView(v, {}) => OwnedView(x, {})
  BY <1>1, NoWrites DEF Beside, SoundView, OwnedView
<1>3. PICK y : y = NewLength(x, h)
  OBVIOUS
<1>4. Lasting(v, y)
  <2>1. CASE y = x
    BY <1>2, <2>1, NoWrites DEF Lasting, Pending, Ordered, Single, Rootless
  <2>2. CASE y # x
    <3>1. PICK i : /\ i = fatfs_get_file_entry(x.todo, h.name) /\ i # 0
                   /\ y = SetEntry(x, i, [DirEntry(x.todo, i) EXCEPT !.len = h.len])
      BY <1>3, <2>2 DEF NewLength, fatfs_update_file_length
    <3>2. PICK e \in Entry : i \in Slot /\ e = DirEntry(x.todo, i) /\ e = DirAt(x)[i]
      BY <1>2, <3>1, FileEntryIs, DirEntryIs
    <3>3. PICK g : g = [e EXCEPT !.len = h.len]
      OBVIOUS
    <3>4. g \in Entry /\ g.start = e.start /\ g.name = e.name
      BY <3>3 DEF Entry, OpenFile
    <3>5. /\ GoodView(y) /\ y.buf = x.buf /\ ~ Writes(y.todo)
          /\ TableAt(y) = TableAt(x) /\ DirAt(y) = [DirAt(x) EXCEPT ![i] = g]
          /\ \A j, m \in DOMAIN y.todo : RootWrite(y.todo[j]) /\ RootWrite(y.todo[m]) => j = m
      <4>1. g \in DirCell /\ y = SetEntry(x, i, g)
        BY <3>1, <3>2, <3>3, <3>4, CellsAre
      <4>2. QED
        BY <1>2, <3>2, <4>1, SetEntryIs
    <3>6. IsEntry(e)
      BY <3>1, <3>2, NamedIs
    <3>7. Sound(TableAt(x), [DirAt(x) EXCEPT ![i] = g])
      <4>1. TableAt(x) \in Table /\ DirAt(x) \in Directory /\ Sound(TableAt(x), DirAt(x))
        BY <1>2, TablesAre DEF SoundView
      <4>2. QED
        BY <3>2, <3>4, <3>6, <4>1, ChangeSound
    <3>8. OwnedView(x, {}) => OwnedView(y, {})
      <4>1. DirAt(x) \in Directory /\ i \in Slot /\ e = DirAt(x)[i] /\ IsEntry(g)
        BY <1>2, <3>2, <3>4, TablesAre, EntryCell
      <4>2. PICK E, D : E = TableAt(x) /\ D = DirAt(x) /\ D \in Directory
        BY <4>1
      <4>3. Owned(E, D, {}) => Owned(E, [D EXCEPT ![i] = g], {})
        BY <3>4, <4>1, <4>2, ChangeOwned
      <4>4. QED
        BY <3>5, <4>2, <4>3 DEF OwnedView
    <3>9. QED
      BY <1>2, <3>5, <3>7, <3>8, NoWrites DEF Lasting, SoundView, Pending, Ordered, Single
  <2>3. QED
    BY <2>1, <2>2
<1>5. fl_fclose(v, h) = fatfs_fat_purge(y) /\ Keeps(y, fatfs_fat_purge(y))
  BY <1>1, <1>3, <1>4, PurgeKeeps DEF fl_fclose, Lasting
<1>6. QED
  BY <1>4, <1>5, KeepsLasting

\* fl_remove of a file that is open leaves it.
LEMMA RemoveIs ==
  ASSUME NEW v, NEW f, NoHandle(f)
  PROVE  fl_remove(v, f) = v
<1>1. open_file(v, f) = [v |-> v, file |-> <<>>]
  BY DEF open_file
<1>2. QED
  BY <1>1 DEF fl_remove

-----------------------------------------------------------------------------
(* The table and the directory on the chip.                                *)

\* They are read from the sectors of the first FAT and of the root directory.
LEMMA SameTables ==
  ASSUME NEW S, NEW T, \A l \in FatSectors \cup RootSectors : S[l] = T[l]
  PROVE  TableOf(S) = TableOf(T) /\ DirOf(S) = DirOf(T) /\ (SoundSectors(S) <=> SoundSectors(T))
<1>1. \A c \in Cluster : S[FatLba(c)] = T[FatLba(c)]
  BY FatLbaIs
<1>2. \A i \in Slot : S[SlotLba(i)] = T[SlotLba(i)]
  BY SlotLbaIs
<1>3. TableOf(S) = TableOf(T) /\ DirOf(S) = DirOf(T)
  BY <1>1, <1>2 DEF TableOf, DirOf
<1>4. QED
  BY <1>3 DEF SoundSectors

\* Good sectors hold a table and a directory.
LEMMA SectorsTyped ==
  ASSUME NEW S, \A l \in Lba : GoodSector(l, S[l])
  PROVE  TableOf(S) \in Table /\ DirOf(S) \in Directory
<1>1. \A c \in Cluster : TableOf(S)[c] \in FatCell
  <2>1. TAKE c \in Cluster
  <2>2. /\ FatLba(c) \in FatSectors /\ FatLba(c) \in Lba /\ (c % SectorSize) + 1 \in 1 .. SectorSize
    BY FatLbaIs, FatSectorIs
  <2>3. S[FatLba(c)][(c % SectorSize) + 1] \in FatCell
    BY <2>2 DEF GoodSector
  <2>4. QED
    BY <2>3 DEF TableOf
<1>2. \A i \in Slot : DirOf(S)[i] \in DirCell
  <2>1. TAKE i \in Slot
  <2>2. /\ SlotLba(i) \in RootSectors /\ SlotLba(i) \in Lba
        /\ ((i - 1) % SectorSize) + 1 \in 1 .. SectorSize
    BY SlotLbaIs, RootSectorIs
  <2>3. S[SlotLba(i)][((i - 1) % SectorSize) + 1] \in DirCell
    BY <2>2 DEF GoodSector
  <2>4. QED
    BY <2>3 DEF DirOf
<1>3. TableOf(S) = [c \in Cluster |-> TableOf(S)[c]] /\ DirOf(S) = [i \in Slot |-> DirOf(S)[i]]
  BY DEF TableOf, DirOf
<1>4. QED
  BY <1>1, <1>2, <1>3 DEF Table, Directory

\* The disk d read by sectors, and by the definition of the format.
LEMMA TablesIn ==
  ASSUME NEW d
  PROVE  TableIn(d) = TableOf(Holds(d)) /\ DirIn(d) = DirOf(Holds(d))
<1>1. ASSUME NEW f \in Nat, NEW a \in Nat, NEW k \in Nat, a < k * SectorSize,
             NEW l \in Lba, l = f + a \div SectorSize
      PROVE  Holds(d)[l][(a % SectorSize) + 1] = d[SectorStart(f) + a]
  <2>1. PICK q \in Nat, r \in 0 .. SectorSize - 1 :
          q = a \div SectorSize /\ r = a % SectorSize /\ a = q * SectorSize + r
    BY <1>1, Split, Sizes, SMTT(30)
  <2>2. l = f + q /\ SectorStart(l) = (f + q) * SectorSize
    BY <1>1, <2>1 DEF SectorStart
  <2>3. r + 1 \in 1 .. SectorSize
    BY <2>1, Sizes
  <2>4. PICK x \in Nat, y \in Nat : x = f * SectorSize /\ y = q * SectorSize /\ (f + q) * SectorSize = x + y
    BY Sizes
  <2>5. SectorStart(l) + (r + 1) - 1 = SectorStart(f) + a
    BY <2>1, <2>2, <2>4, Sizes DEF SectorStart
  <2>6. Holds(d)[l][r + 1] = d[SectorStart(l) + (r + 1) - 1]
    BY <1>1, <2>3 DEF Holds, SectorIn
  <2>7. QED
    BY <2>1, <2>5, <2>6
<1>2. ASSUME NEW c \in Cluster PROVE Holds(d)[FatLba(c)][(c % SectorSize) + 1] = d[LinkCell(c)]
  <2>1. c \in Nat /\ FAT_SECTORS \in Nat /\ fat_begin_lba \in Nat /\ c < FAT_SECTORS * SectorSize
    BY Sizes, Regions DEF Cluster
  <2>2. FatLba(c) \in Lba /\ FatLba(c) = fat_begin_lba + c \div SectorSize
    BY FatLbaIs, FatSectorIs DEF FatLba
  <2>3. QED
    BY <1>1, <2>1, <2>2 DEF LinkCell
<1>3. ASSUME NEW i \in Slot PROVE Holds(d)[SlotLba(i)][((i - 1) % SectorSize) + 1] = EntryIn(d, i)
  <2>1. PICK a \in Nat : a = i - 1 /\ a < ROOT_SECTORS * SectorSize
    BY SlotsAre
  <2>2. SlotLba(i) \in Lba /\ SlotLba(i) = rootdir_first_sector + a \div SectorSize
    BY <2>1, SlotLbaIs, RootSectorIs DEF SlotLba
  <2>3. Holds(d)[SlotLba(i)][(a % SectorSize) + 1] = d[SectorStart(rootdir_first_sector) + a]
    <3>1. ROOT_SECTORS \in Nat /\ rootdir_first_sector \in Nat
      BY Sizes, Regions
    <3>2. QED
      BY <1>1, <2>1, <2>2, <3>1
  <2>4. PICK x \in Nat : x = SectorStart(rootdir_first_sector)
    BY Sizes, Regions DEF SectorStart
  <2>5. x + a = x + i - 1
    BY <2>1, SlotsAre
  <2>6. QED
    BY <2>1, <2>3, <2>4, <2>5 DEF EntryIn
<1>4. QED
  BY <1>2, <1>3 DEF TableIn, DirIn, TableOf, DirOf

\* Writes that leave the table and the directory alone.
Calm(td) == \A i \in DOMAIN td : ~ FatWrite(td[i]) /\ ~ RootWrite(td[i])

\* Once the changes of both are made, the chip holds what it will hold in the end.
LEMMA AtChip ==
  FilesInv /\ ~ buf.dirty /\ Calm(Asked) /\ SoundSectors(Ending) => SoundSectors(Holds(Stored))
<1> SUFFICES ASSUME FilesInv, ~ buf.dirty, Calm(Asked), SoundSectors(Ending)
             PROVE  SoundSectors(Holds(Stored))
  OBVIOUS
<1>1. ASSUME NEW l \in FatSectors \cup RootSectors PROVE Ending[l] = Holds(Stored)[l]
  <2>1. l \in Lba /\ l # -1
    BY FatSectorIs, RootSectorIs
  <2>2. \A i \in DOMAIN Asked : Asked[i].lba # l
    BY DEF Calm, FatWrite, RootWrite
  <2>3. Final(l) = SectorIn(Stored, l)
    BY <2>2, AfterNone DEF Final
  <2>4. buf.lba = l => buf.data = Final(l)
    BY <2>1 DEF FilesInv, BufferOK
  <2>5. QED
    BY <2>1, <2>3, <2>4 DEF Ending, Holds
<1>2. QED
  BY <1>1, SameTables

-----------------------------------------------------------------------------
(* The table and the directory in the steps of the system.                 *)

\* What the disk will hold is what a call reads between two calls.
LEMMA RestIs ==
  ASSUME FilesInv, Idle
  PROVE  /\ Ending = SectorsOf(Now) /\ (SoundSectors(Ending) <=> SoundView(Now))
         /\ OwnedSectors(Ending) <=> OwnedView(Now, {})
<1>1. Stored = chip /\ Asked = <<>> /\ Now.todo = <<>> /\ Now.buf = buf
  BY Quiet
<1>2. Ending = SectorsOf(Now)
  BY <1>1, SectorAfterIs DEF Ending, SectorsOf, Final
<1>3. QED
  BY <1>2 DEF SoundSectors, SoundView, OwnedSectors, OwnedView, TableAt, DirAt

\* After a call nothing is under way.
LEMMA TakenIs ==
  ASSUME FilesInv, Idle, NEW w, GoodView(w), Take(w)
  PROVE  /\ Stored' = chip /\ Stored' = Stored /\ Now' = w
         /\ Ending' = SectorsOf(w) /\ (SoundSectors(Ending') <=> SoundView(w))
         /\ OwnedSectors(Ending') <=> OwnedView(w, {})
<1>1. PICK b, td : b = w.buf /\ td = w.todo /\ w = [buf |-> b, todo |-> td]
  <2>1. w = [buf |-> w.buf, todo |-> w.todo]
    BY ViewIs
  <2>2. QED
    BY <2>1
<1>2. buf' = b /\ todo' = td /\ chip' = chip /\ phase' = phase /\ at' = at /\ src' = src
  BY <1>1 DEF Take
<1>3. FlashInv(Cells) /\ phase = "idle" /\ Stored = chip
  BY Quiet
<1>4. Stored' = Stored /\ Asked' = td
  BY <1>2, <1>3 DEF Stored, InFlight, Asked
<1>5. Now' = w
  BY <1>1, <1>2 DEF Now
<1>6. Ending' = SectorsOf(w)
  <2>1. \A l \in Lba : Final(l)' = SectorAfter(td, l)
    BY <1>3, <1>4, SectorAfterIs DEF Final
  <2>2. Ending' = [l \in Lba |-> IF b.lba = l THEN b.data ELSE SectorAfter(td, l)]
    BY <1>2, <2>1 DEF Ending
  <2>3. QED
    BY <1>1, <2>2 DEF SectorsOf
<1>7. QED
  BY <1>3, <1>4, <1>5, <1>6 DEF SoundSectors, SoundView, OwnedSectors, OwnedView, TableAt, DirAt

\* A call of the library keeps the invariant.
LEMMA CallLinks ==
  ASSUME FilesInv, LinkInv, Idle, cmd.op # "format", lostIn' = lostIn, losses' = losses,
         ~ (cmd'.op = "format" /\ cmd'.pc = "end"), NEW w, GoodView(w), Take(w),
         lostIn = {} => Lasting(Now, w)
  PROVE  LinkInv'
<1>1. Stored' = Stored /\ Now' = w /\ (SoundSectors(Ending') <=> SoundView(w))
  BY TakenIs
<1>2. lostIn' = {} => SoundSectors(Ending')
  BY <1>1 DEF Lasting
<1>3. ASSUME lostIn' = {} PROVE Ordered(Now') /\ Single(Now')
  BY <1>1, <1>3 DEF Lasting
<1>4. ASSUME lostIn' = {}, ~ Pending(Now') PROVE SoundSectors(Holds(Stored'))
  <2>1. ~ Pending(Now)
    BY <1>1, <1>4 DEF Lasting
  <2>2. SoundSectors(Holds(Stored))
    BY <1>4, <2>1 DEF LinkInv
  <2>3. QED
    BY <1>1, <2>2
<1>5. losses' = 0 => lostIn' = {} /\ OwnedSectors(Ending')
  BY RestIs, TakenIs DEF LinkInv, Lasting
<1>6. QED
  BY <1>2, <1>3, <1>4, <1>5 DEF LinkInv

\* Between two calls the view is sound, and a call that makes none leaves it.
LEMMA NowIs ==
  ASSUME FilesInv, LinkInv, Idle
  PROVE  /\ GoodChip /\ GoodView(Now) /\ Now.todo = <<>>
         /\ lostIn = {} => SoundView(Now) /\ Lasting(Now, Now)
<1>1. GoodChip /\ GoodView(Now) /\ Now.todo = <<>>
  BY Quiet
<1>2. lostIn = {} => SoundView(Now)
  BY RestIs DEF LinkInv
<1>3. QED
  BY <1>1, <1>2, LastingItself

\* So does a step that makes none.
LEMMA UntouchedLinks ==
  ASSUME FilesInv, LinkInv, Idle, cmd.op # "format", lostIn' = lostIn, losses' = losses,
         ~ (cmd'.op = "format" /\ cmd'.pc = "end"), Untouched
  PROVE  LinkInv'
<1>1. GoodView(Now) /\ Now.todo = <<>> /\ Now.buf = buf /\ todo = <<>>
  BY Quiet DEF Idle
<1>2. Take(Now)
  BY <1>1 DEF Untouched, flashVars, Take
<1>3. QED
  BY <1>1, <1>2, NowIs, CallLinks

\* A command that is not a format goes on as none.
LEMMA GotoIs ==
  ASSUME CmdOK, NEW p, NEW k, cmd.op # "format",
         cmd' = [cmd EXCEPT !.pc = p] \/ cmd' = [cmd EXCEPT !.ok = k, !.pc = p]
  PROVE  cmd'.op # "format"
<1>1. PICK o, n, t, q, b : cmd = [op |-> o, name |-> n, text |-> t, pc |-> q, ok |-> b]
  BY DEF CmdOK
<1>2. QED
  BY <1>1

\* A line read changes nothing on the disk.
LEMMA ReadLineLinks ==
  ASSUME FilesInv, LinkInv, ReadLine
  PROVE  LinkInv'
<1>1. Idle /\ cmd.op = "none" /\ Untouched /\ lostIn' = lostIn /\ losses' = losses
  BY DEF ReadLine, At
<1>2. cmd'.pc # "end"
  BY DEF ReadLine
<1>3. QED
  BY <1>1, <1>2, UntouchedLinks

\* Opening a file reads.
LEMMA OpenReadLinks ==
  ASSUME FilesInv, LinkInv, OpenRead
  PROVE  LinkInv'
<1>1. Idle /\ cmd.op # "format" /\ lostIn' = lostIn /\ losses' = losses /\ CmdOK
  BY DEF OpenRead, At, history, FilesInv
<1>2. PICK w, p : w = open_file(Now, cmd.name).v /\ Take(w) /\ cmd' = [cmd EXCEPT !.pc = p]
  BY DEF OpenRead, Goto
<1>3. cmd'.op # "format"
  BY <1>1, <1>2, GotoIs
<1>4. Keeps(Now, w) /\ GoodView(w)
  BY <1>1, <1>2, NowIs, OpenKeeps DEF Keeps
<1>5. lostIn = {} => Lasting(Now, w)
  BY <1>1, <1>4, NowIs, KeepsLasting
<1>6. QED
  BY <1>1, <1>2, <1>3, <1>4, <1>5, CallLinks

\* Creating a file enters it on a cluster that no file has.
LEMMA OpenWriteLinks ==
  ASSUME FilesInv, LinkInv, OpenWrite
  PROVE  LinkInv'
<1>1. Idle /\ cmd.op # "format" /\ lostIn' = lostIn /\ losses' = losses /\ CmdOK /\ cmd.name \in Names
  BY DEF OpenWrite, At, history, FilesInv, CmdOK, Readers
<1>2. PICK w, p, k : w = fopen_w(Now, cmd.name).v /\ Take(w) /\ cmd' = [cmd EXCEPT !.ok = k, !.pc = p]
  BY DEF OpenWrite
<1>3. cmd'.op # "format"
  BY <1>1, <1>2, GotoIs
<1>4. GoodView(w)
  BY <1>1, <1>2, Quiet, FopenWGood DEF Opened
<1>5. lostIn = {} => Lasting(Now, w)
  BY <1>1, <1>2, NowIs, FopenWLasting
<1>6. QED
  BY <1>1, <1>2, <1>3, <1>4, <1>5, CallLinks

\* Reading a character reads.
LEMMA FgetcLinks ==
  ASSUME FilesInv, LinkInv, Fgetc
  PROVE  LinkInv'
<1>1. /\ Idle /\ cmd.op # "format" /\ lostIn' = lostIn /\ losses' = losses /\ CmdOK /\ HandlesOK /\ Holding
      /\ \E p : cmd' = [cmd EXCEPT !.pc = p]
  BY DEF Fgetc, At, history, FilesInv, Holding, Goto
<1>2. cmd'.op # "format"
  BY <1>1, GotoIs
<1>3. CASE fl_feof(file)
  <2>1. Untouched
    BY <1>3 DEF Fgetc
  <2>2. QED
    BY <1>1, <1>2, <2>1, UntouchedLinks
<1>4. CASE ~ fl_feof(file)
  <2>1. PICK h \in OpenFile : h = file /\ h.pos + 1 <= h.len
    <3>1. file \in OpenFile /\ file.pos \in Nat /\ file.len \in Nat /\ file.pos <= file.len
      BY <1>1, FileIs
    <3>2. QED
      BY <1>4, <3>1 DEF fl_feof
  <2>2. PICK w : w = fl_fread(Now, h, 1).v /\ Take(w)
    BY <1>4, <2>1 DEF Fgetc
  <2>3. Keeps(Now, w) /\ GoodView(w)
    BY <1>1, <2>1, <2>2, NowIs, FreadKeeps DEF Keeps
  <2>4. lostIn = {} => Lasting(Now, w)
    BY <1>1, <2>3, NowIs, KeepsLasting
  <2>5. QED
    BY <1>1, <1>2, <2>2, <2>3, <2>4, CallLinks
<1>5. QED
  BY <1>3, <1>4

\* So does the loader.
LEMMA LoadLinks ==
  ASSUME FilesInv, LinkInv, Load
  PROVE  LinkInv'
<1>1. /\ Idle /\ cmd.op # "format" /\ lostIn' = lostIn /\ losses' = losses /\ CmdOK /\ HandlesOK /\ Holding
      /\ cmd.pc = "load"
  BY DEF Load, At, history, FilesInv, Holding
<1>2. cmd'.op # "format"
  <2>1. \E p : cmd' = [cmd EXCEPT !.pc = p]
    BY DEF Load, LoadRead, LoadFails, Goto
  <2>2. QED
    BY <1>1, <2>1, GotoIs
<1>3. CASE LoadFails
  BY <1>1, <1>2, <1>3, UntouchedLinks DEF LoadFails
<1>4. CASE LoadRead
  <2>1. PICK h \in OpenFile : h = file /\ h.len \in Nat /\ h.pos + h.len <= h.len
    <3>1. file \in OpenFile /\ file.pos = 0 /\ file.len \in Nat
      BY <1>1, FileIs DEF HandlesOK
    <3>2. QED
      BY <3>1
  <2>2. PICK w : w = fl_fread(Now, h, h.len).v /\ Take(w)
    BY <1>4, <2>1 DEF LoadRead
  <2>3. Keeps(Now, w) /\ GoodView(w)
    BY <1>1, <2>1, <2>2, NowIs, FreadKeeps DEF Keeps
  <2>4. lostIn = {} => Lasting(Now, w)
    BY <1>1, <2>3, NowIs, KeepsLasting
  <2>5. QED
    BY <1>1, <1>2, <2>2, <2>3, <2>4, CallLinks
<1>5. QED
  BY <1>3, <1>4 DEF Load

\* Putting a text changes the handle.
LEMMA FputsLinks ==
  ASSUME FilesInv, LinkInv, Fputs
  PROVE  LinkInv'
<1>1. /\ Idle /\ cmd.op # "format" /\ lostIn' = lostIn /\ losses' = losses /\ CmdOK /\ Untouched
      /\ cmd' = [cmd EXCEPT !.pc = "close"]
  BY DEF Fputs, At, history, FilesInv, Goto
<1>2. cmd'.op # "format"
  BY <1>1, GotoIs
<1>3. QED
  BY <1>1, <1>2, UntouchedLinks

\* rm has opened the file it gives to fl_remove, which therefore does nothing.
LEMMA FRemoveLinks ==
  ASSUME FilesInv, LinkInv, FRemove
  PROVE  LinkInv'
<1>1. /\ Idle /\ cmd.op # "format" /\ lostIn' = lostIn /\ losses' = losses /\ CmdOK /\ HandlesOK /\ Holding
      /\ cmd' = [cmd EXCEPT !.ok = TRUE, !.pc = "end"] /\ Take(fl_remove(Now, cmd.name))
  BY DEF FRemove, At, FilesInv, Holding
<1>2. cmd'.op # "format"
  BY <1>1, GotoIs
<1>3. NoHandle(cmd.name)
  <2>1. files \in Seq(OpenFile) /\ files # <<>> /\ files[Len(files)].name = cmd.name
    BY <1>1 DEF HandlesOK, Holding, Held, file
  <2>2. Len(files) \in DOMAIN files
    BY <2>1, EmptySeq, LenProperties
  <2>3. QED
    BY <2>1, <2>2 DEF NoHandle, check_file_open
<1>4. Take(Now)
  BY <1>1, <1>3, RemoveIs
<1>5. QED
  BY <1>1, <1>2, <1>4, NowIs, CallLinks

\* Closing a file writes its sector and its length, and the table last.
LEMMA FcloseLinks ==
  ASSUME FilesInv, LinkInv, Fclose
  PROVE  LinkInv'
<1>1. /\ Idle /\ cmd.op # "format" /\ lostIn' = lostIn /\ losses' = losses /\ CmdOK /\ HandlesOK /\ Holding
      /\ Take(fl_fclose(Now, file))
  BY DEF Fclose, At, history, FilesInv, Holding
<1>2. cmd'.op # "format"
  <2>1. \E p : cmd' = [cmd EXCEPT !.pc = p]
    BY DEF Fclose, Goto
  <2>2. QED
    BY <1>1, <2>1, GotoIs
<1>3. PICK h \in OpenFile : h = file
  BY <1>1, FileIs
<1>4. PICK w : w = fl_fclose(Now, h) /\ Take(w) /\ GoodView(w)
  BY <1>1, <1>3, Quiet, FcloseGood
<1>5. lostIn = {} => Lasting(Now, w)
  BY <1>1, <1>3, <1>4, NowIs, FcloseLasting
<1>6. QED
  BY <1>1, <1>2, <1>4, <1>5, CallLinks

\* What a format leaves of a sector of the table or of the directory.
LEMMA FormattedIs ==
  ASSUME NEW l \in FatSectors \cup RootSectors, NEW d
  PROVE  After(FormatWrites, d, l) = IF l = fat_begin_lba THEN FirstFat ELSE Zeros
<1>1. PICK n \in Nat \ {0} :
        /\ fat_begin_lba \in Nat \ {0} /\ fat_begin_lba + n - 1 = rootdir_first_sector + ROOT_SECTORS
        /\ DOMAIN FormatWrites = 1 .. n /\ FormatWrites = [i \in 1 .. n |-> FormatWrites[i]]
        /\ \A i \in 1 .. n : FormatWrites[i] = CASE i = 1 -> WriteOf(0, BootSector)
                                               [] i = 2 -> WriteOf(fat_begin_lba, FirstFat)
                                               [] OTHER -> WriteOf(fat_begin_lba + i - 2, Zeros)
  BY FormatList
<1>2. PICK td, b : /\ td = FormatWrites /\ DOMAIN td = 1 .. n /\ b = fat_begin_lba /\ b \in Nat \ {0}
                   /\ b + n - 1 = rootdir_first_sector + ROOT_SECTORS
                   /\ n \in Nat \ {0} /\ td \in Seq(SectorWrite(Cells))
  BY <1>1, FormatIs
<1>3. td[1].lba = 0
  <2>1. td[1] = WriteOf(0, BootSector)
    BY <1>1, <1>2
  <2>2. QED
    BY <2>1 DEF WriteOf
<1>4. ASSUME NEW i \in 2 .. n
      PROVE  td[i].lba = b + i - 2 /\ td[i].data = IF i = 2 THEN FirstFat ELSE Zeros
  <2>1. i \in 1 .. n /\ i # 1
    BY <1>2
  <2>2. CASE i = 2
    <3>1. td[i] = WriteOf(b, FirstFat)
      BY <1>1, <1>2, <2>1, <2>2
    <3>2. td[i].lba = b /\ td[i].data = FirstFat
      BY <3>1 DEF WriteOf
    <3>3. QED
      BY <1>2, <2>2, <3>2
  <2>3. CASE i # 2
    <3>1. td[i] = WriteOf(b + i - 2, Zeros)
      BY <1>1, <1>2, <2>1, <2>3
    <3>2. td[i].lba = b + i - 2 /\ td[i].data = Zeros
      BY <3>1 DEF WriteOf
    <3>3. QED
      BY <2>3, <3>2
  <2>4. QED
    BY <2>2, <2>3
<1>5. l \in Nat /\ l >= b /\ l < b + n - 1
  <2>1. rootdir_first_sector \in Nat /\ ROOT_SECTORS \in Nat /\ FAT_SECTORS \in Nat
        /\ b + FAT_SECTORS <= rootdir_first_sector
    BY <1>2, Sizes, Regions
  <2>2. QED
    BY <1>2, <2>1 DEF FatSectors, RootSectors
<1>6. PICK k \in 2 .. n : k = l - b + 2
  BY <1>2, <1>5
<1>7. IsLast(td, l, k) /\ k \in DOMAIN td
  <2>1. td[k].lba = l
    BY <1>2, <1>4, <1>5, <1>6
  <2>2. ASSUME NEW j \in DOMAIN td, td[j].lba = l PROVE j <= k
    <3>1. j \in 1 .. n
      BY <1>2
    <3>2. CASE j = 1
      BY <1>6, <3>2
    <3>3. CASE j # 1
      <4>1. j \in 2 .. n
        BY <3>1, <3>3
      <4>2. b + j - 2 = l
        BY <1>4, <2>2, <4>1
      <4>3. QED
        BY <1>2, <1>5, <1>6, <4>1, <4>2
    <3>4. QED
      BY <3>2, <3>3
  <2>3. k \in DOMAIN td
    BY <1>2, <1>6
  <2>4. QED
    BY <2>1, <2>2, <2>3 DEF IsLast
<1>8. After(td, d, l) = td[k].data
  BY <1>2, <1>7, AfterIs
<1>9. k = 2 <=> l = b
  BY <1>2, <1>5, <1>6
<1>10. QED
  BY <1>2, <1>4, <1>6, <1>8, <1>9

\* After a format no cluster is linked and no file entered.
LEMMA FormatLinks ==
  ASSUME FilesInv, LinkInv, Format
  PROVE  LinkInv'
<1>1. /\ Idle /\ buf' = Invalid /\ todo' = FormatWrites /\ chip' = chip /\ phase' = phase
      /\ at' = at /\ src' = src /\ cmd' = [cmd EXCEPT !.pc = "end"]
      /\ cmd.op = "format" /\ CmdOK /\ lostIn' = lostIn /\ losses' = losses
  BY DEF Format, At, FatAfterFormat, Goto, FilesInv, history
<1>2. Asked' = FormatWrites
  <2>1. phase' = "idle"
    BY <1>1, Quiet
  <2>2. QED
    BY <1>1, <2>1 DEF Asked
<1>3. cmd'.op = "format"
  BY <1>1 DEF CmdOK
<1>4. PICK S : S = Ending'
  OBVIOUS
<1>5. ASSUME NEW l \in FatSectors \cup RootSectors
      PROVE  S[l] = IF l = fat_begin_lba THEN FirstFat ELSE Zeros
  <2>1. l \in Lba /\ buf'.lba # l
    BY <1>1, FatSectorIs, RootSectorIs DEF Invalid
  <2>2. Final(l)' = IF l = fat_begin_lba THEN FirstFat ELSE Zeros
    BY <1>2, FormattedIs DEF Final
  <2>3. QED
    BY <1>4, <2>1, <2>2 DEF Ending
<1>6. PICK E, D : E = TableOf(S) /\ D = DirOf(S)
  OBVIOUS
<1>7. \A c \in Cluster : E[c] \in {MEDIA, FF, ZERO}
  <2>1. TAKE c \in Cluster
  <2>2. FatLba(c) \in FatSectors /\ (c % SectorSize) + 1 \in 1 .. SectorSize
    BY FatLbaIs
  <2>3. S[FatLba(c)][(c % SectorSize) + 1] \in {MEDIA, FF, ZERO}
    <3>1. \A k \in 1 .. SectorSize : FirstFat[k] \in {MEDIA, FF, ZERO} /\ Zeros[k] = ZERO
      BY DEF FirstFat, Zeros
    <3>2. S[FatLba(c)] = FirstFat \/ S[FatLba(c)] = Zeros
      BY <1>5, <2>2
    <3>3. QED
      BY <2>2, <3>1, <3>2
  <2>4. QED
    BY <1>6, <2>3 DEF TableOf
<1>8. \A i \in Slot : ~ IsEntry(D[i])
  <2>1. TAKE i \in Slot
  <2>2. SlotLba(i) \in RootSectors /\ ((i - 1) % SectorSize) + 1 \in 1 .. SectorSize
    BY SlotLbaIs
  <2>3. SlotLba(i) # fat_begin_lba
    BY <2>2, RootSectorIs
  <2>4. S[SlotLba(i)][((i - 1) % SectorSize) + 1] = ZERO
    BY <1>5, <2>2, <2>3 DEF Zeros
  <2>5. QED
    BY <1>6, <2>4 DEF DirOf, IsEntry
<1>9. \A c \in Cluster : Link(E[c]) \in {LAST, 0}
  <2>1. Link(MEDIA) \in {LAST, 0} /\ Link(FF) \in {LAST, 0} /\ Link(ZERO) \in {LAST, 0}
    <3>1. Link(MEDIA) = LAST
      BY MarkAssumption DEF Link
    <3>2. QED
      BY <3>1, LinkIs, CellsAre
  <2>2. QED
    BY <1>7, <2>1
<1>10. SoundSectors(S)
  BY <1>6, <1>8, <1>9 DEF SoundSectors, Sound
<1>11. \A c \in Cluster \ {0, 1} : E[c] = ZERO
  <2>1. TAKE c \in Cluster \ {0, 1}
  <2>2. PICK k \in 1 .. SectorSize :
          k = (c % SectorSize) + 1 /\ FatLba(c) \in FatSectors /\ (FatLba(c) = fat_begin_lba => k \notin {1, 2})
    BY FatLbaIs
  <2>3. Zeros[k] = ZERO /\ (k \notin {1, 2} => FirstFat[k] = ZERO)
    BY DEF FirstFat, Zeros
  <2>4. S[FatLba(c)][k] = ZERO
    BY <1>5, <2>2, <2>3
  <2>5. QED
    BY <1>6, <2>2, <2>4 DEF TableOf
<1>12. OwnedSectors(S)
  BY <1>6, <1>11 DEF OwnedSectors, Owned
<1>13. losses' = 0 => lostIn' = {}
  BY <1>1 DEF LinkInv
<1>14. QED
  BY <1>3, <1>4, <1>10, <1>12, <1>13 DEF LinkInv

\* When a command ends, nothing is under way; after a format the failures before it are settled.
LEMMA ReturnLinks ==
  ASSUME FilesInv, LinkInv, Return
  PROVE  LinkInv'
<1>1. /\ Idle /\ cmd.pc = "end" /\ cmd' = AtPrompt /\ Untouched
      /\ lostIn' = IF cmd.op = "format" THEN {} ELSE lostIn
      /\ losses' = losses
  BY DEF Return
<1>2. /\ GoodView(Now) /\ Now.todo = <<>> /\ Now.buf = buf /\ todo = <<>> /\ Asked = <<>>
      /\ Stored = chip
  BY <1>1, Quiet DEF Idle
<1>3. Take(Now)
  BY <1>1, <1>2 DEF Untouched, flashVars, Take
<1>4. /\ Stored' = Stored /\ Now' = Now /\ (SoundSectors(Ending') <=> SoundSectors(Ending))
      /\ OwnedSectors(Ending') <=> OwnedSectors(Ending)
  BY <1>1, <1>2, <1>3, TakenIs, RestIs
<1>5. losses' = 0 => lostIn' = {} /\ OwnedSectors(Ending')
  BY <1>1, <1>4 DEF LinkInv
<1>6. SUFFICES ASSUME lostIn' = {} PROVE LinkInv'
  BY <1>1, <1>5 DEF LinkInv, AtPrompt
<1>7. SoundSectors(Ending)
  BY <1>1, <1>6 DEF LinkInv
<1>8. Ordered(Now) /\ Single(Now)
  BY <1>2, NoWrites
<1>9. ASSUME ~ Pending(Now) PROVE SoundSectors(Holds(Stored))
  <2>1. ~ buf.dirty
    BY <1>2, <1>9 DEF Pending
  <2>2. Calm(Asked)
    BY <1>2, EmptySeq DEF Calm
  <2>3. QED
    BY <1>7, <2>1, <2>2, AtChip
<1>10. QED
  BY <1>4, <1>7, <1>8, <1>9, <1>5 DEF LinkInv

\* A command of the driver that drops a write from the list ends that write.
LEMMA EndsWrite ==
  ASSUME FlashStep
  PROVE  todo' = todo \/ (phase = "program" /\ phase' = "idle" /\ todo' = Tail(todo))
  BY DEF FlashStep, WriteBegin, SPI_Flash_Erase_Sector, SPI_Flash_Write_Page

\* The rest of a list of writes, and its last one.
LEMMA RestOf ==
  ASSUME NEW td \in Seq(SectorWrite(Cells)), td # <<>>, NEW r, r = Tail(td)
  PROVE  /\ \A i \in DOMAIN r : i + 1 \in DOMAIN td /\ r[i] = td[i + 1] /\ i \in Nat
         /\ r # <<>> => Len(r) \in DOMAIN r /\ r[Len(r)] = td[Len(td)]
<1>1. /\ Len(td) \in Nat \ {0} /\ DOMAIN td = 1 .. Len(td) /\ r \in Seq(SectorWrite(Cells))
      /\ Len(r) = Len(td) - 1 /\ \A i \in 1 .. Len(r) : r[i] = td[i + 1]
  <2>1. Len(td) \in Nat /\ DOMAIN td = 1 .. Len(td)
    BY LenProperties
  <2>2. Len(td) # 0
    BY EmptySeq
  <2>3. /\ r \in Seq(SectorWrite(Cells)) /\ Len(r) = Len(td) - 1
        /\ \A i \in 1 .. Len(r) : r[i] = td[i + 1]
    BY HeadTailProperties
  <2>4. QED
    BY <2>1, <2>2, <2>3
<1>2. PICK n \in Nat : Len(td) = n + 1 /\ Len(r) = n /\ DOMAIN r = 1 .. n /\ DOMAIN td = 1 .. n + 1
  <2>1. Len(td) - 1 \in Nat /\ Len(td) = (Len(td) - 1) + 1
    BY <1>1
  <2>2. DOMAIN r = 1 .. Len(r)
    BY <1>1, LenProperties
  <2>3. QED
    BY <1>1, <2>1, <2>2
<1>3. ASSUME r # <<>> PROVE n \in DOMAIN r /\ r[n] = td[n + 1]
  <2>1. n # 0
    BY <1>1, <1>2, <1>3, EmptySeq
  <2>2. QED
    BY <1>1, <1>2, <2>1
<1>4. QED
  BY <1>1, <1>2, <1>3

\* Dropping a write that is made keeps the order, and may settle what was pending.
LEMMA TailLinks ==
  ASSUME NEW b, NEW td \in Seq(SectorWrite(Cells)), td # <<>>, NEW v, v = [buf |-> b, todo |-> td],
         NEW w, w = [buf |-> b, todo |-> Tail(td)], Ordered(v), Single(v)
  PROVE  /\ Ordered(w) /\ Single(w)
         /\ Pending(v) /\ ~ Pending(w) => w.todo = <<>>
<1>1. PICK r : /\ r = Tail(td) /\ w.todo = r /\ v.todo = td /\ w.buf = b /\ v.buf = b
               /\ \A i \in DOMAIN r : i + 1 \in DOMAIN td /\ r[i] = td[i + 1] /\ i \in Nat
               /\ r # <<>> => Len(r) \in DOMAIN r /\ r[Len(r)] = td[Len(td)]
  BY RestOf
<1>2. Writes(r) => Writes(td)
  BY <1>1 DEF Writes
<1>3. Writes(r) => r # <<>>
  BY EmptySeq DEF Writes
<1>4. Ordered(w)
  BY <1>1, <1>2, <1>3 DEF Ordered
<1>5. ASSUME Pending(v), ~ Pending(w) PROVE r = <<>>
  <2>1. ~ Writes(r) /\ Writes(td) /\ FatWrite(td[Len(td)])
    BY <1>1, <1>5 DEF Pending, Ordered
  <2>2. QED
    BY <1>1, <2>1 DEF Writes
<1>6. Single(w)
  <2>1. CASE Pending(w)
    BY <2>1 DEF Single
  <2>2. CASE ~ Pending(w) /\ Pending(v)
    <3>1. w.todo = <<>>
      BY <1>1, <1>5, <2>2
    <3>2. QED
      BY <3>1, NoWrites
  <2>3. CASE ~ Pending(v)
    <3>1. \A i, j \in DOMAIN td : RootWrite(td[i]) /\ RootWrite(td[j]) => i = j
      BY <1>1, <2>3 DEF Single
    <3>2. ASSUME NEW i \in DOMAIN r, NEW j \in DOMAIN r, RootWrite(r[i]), RootWrite(r[j]) PROVE i = j
      <4>1. i + 1 = j + 1 /\ i \in Nat /\ j \in Nat
        BY <1>1, <3>1, <3>2
      <4>2. QED
        BY <4>1
    <3>3. QED
      BY <1>1, <3>2 DEF Single
  <2>4. QED
    BY <2>1, <2>2, <2>3
<1>7. QED
  BY <1>1, <1>4, <1>5, <1>6

\* A list of writes is not its rest.
LEMMA TailDiffers ==
  ASSUME NEW td \in Seq(SectorWrite(Cells)), td # <<>>
  PROVE  Tail(td) # td
<1>1. PICK r : r = Tail(td)
  OBVIOUS
<1>2. Len(td) \in Nat /\ Len(r) = Len(td) - 1
  BY <1>1, LenProperties, HeadTailProperties
<1>3. Len(r) # Len(td)
  BY <1>2
<1>4. r # td
  BY <1>3
<1>5. QED
  BY <1>1, <1>4

\* Making the oldest write when none of the table is asked for: it is the only one of the
\* directory, or one of a file.
LEMMA MadeLinks ==
  ASSUME FilesInv, FilesInv', SoundSectors(Ending'), SoundSectors(Holds(Stored)), ~ Pending(Now),
         Single(Now), buf' = buf, NEW w \in SectorWrite(Cells), Asked # <<>>, w = Head(Asked),
         Asked' = Tail(Asked), Made(w, Stored, Stored')
  PROVE  SoundSectors(Holds(Stored'))
<1>1. FlashInv(Cells) /\ AllGood(todo)
  BY DEF FilesInv, DiskOK, AllGood
<1>2. PICK k \in {0, 1} : \A i \in DOMAIN Asked : i + k \in DOMAIN todo /\ Asked[i] = todo[i + k]
  BY <1>1, AskedGood
<1>3. PICK td \in Seq(SectorWrite(Cells)) : td = Asked /\ td # <<>>
  BY <1>1, AskedGood
<1>4. td[1] = w /\ 1 \in DOMAIN td /\ \A i \in DOMAIN Tail(td) : i + 1 \in DOMAIN td /\ Tail(td)[i] = td[i + 1]
  BY <1>3, TailOf
<1>5. ~ buf.dirty /\ \A i \in DOMAIN todo : ~ FatWrite(todo[i])
  BY DEF Pending, Now, Writes
<1>6. \A i, j \in DOMAIN todo : RootWrite(todo[i]) /\ RootWrite(todo[j]) => i = j
  BY DEF Single, Now
<1>7. ~ FatWrite(w)
  BY <1>2, <1>3, <1>4, <1>5
<1>8. CASE RootWrite(w)
  <2>1. ASSUME NEW i \in DOMAIN Tail(td) PROVE ~ FatWrite(Tail(td)[i]) /\ ~ RootWrite(Tail(td)[i])
    <3>1. i + 1 \in DOMAIN td /\ Tail(td)[i] = td[i + 1]
      BY <1>4
    <3>2. td[i + 1] = todo[i + 1 + k] /\ i + 1 + k \in DOMAIN todo
      BY <1>2, <1>3, <3>1
    <3>3. w = todo[1 + k] /\ 1 + k \in DOMAIN todo
      BY <1>2, <1>3, <1>4
    <3>4. i \in Nat \ {0}
      <4>1. Tail(td) \in Seq(SectorWrite(Cells))
        BY <1>3, HeadTailProperties
      <4>2. Len(Tail(td)) \in Nat /\ DOMAIN Tail(td) = 1 .. Len(Tail(td))
        BY <4>1, LenProperties
      <4>3. QED
        BY <4>2
    <3>5. i + 1 + k # 1 + k
      BY <3>4
    <3>6. QED
      BY <1>5, <1>6, <1>8, <3>1, <3>2, <3>3, <3>5
  <2>2. Calm(Asked') /\ ~ buf'.dirty
    BY <1>3, <1>5, <2>1 DEF Calm
  <2>3. (FilesInv /\ ~ buf.dirty /\ Calm(Asked) /\ SoundSectors(Ending) => SoundSectors(Holds(Stored)))'
    BY AtChip, PTL
  <2>4. QED
    BY <2>2, <2>3
<1>9. CASE ~ RootWrite(w)
  <2>1. ASSUME NEW l \in FatSectors \cup RootSectors PROVE Holds(Stored')[l] = Holds(Stored)[l]
    <3>1. l \in Lba /\ l # w.lba
      BY <1>7, <1>9, FatSectorIs, RootSectorIs DEF FatWrite, RootWrite
    <3>2. SectorIn(Stored', l) = SectorIn(Stored, l)
      BY <3>1, SectorWritten
    <3>3. QED
      BY <3>1, <3>2 DEF Holds
  <2>2. QED
    BY <2>1, SameTables
<1>10. QED
  BY <1>8, <1>9

\* A command of the driver keeps the invariant.
LEMMA FlashLinks ==
  ASSUME FilesInv, LinkInv, FlashWrites
  PROVE  LinkInv'
<1>1. /\ FlashStep /\ buf' = buf /\ cmd' = cmd /\ lostIn' = lostIn /\ losses' = losses /\ FilesInv'
      /\ FlashInv(Cells) /\ todo \in Seq(SectorWrite(Cells)) /\ (phase = "program" => todo # <<>>)
      /\ AllGood(todo)
  BY FlashWritesKeeps DEF FlashWrites, history, FilesInv, DiskOK, FlashInv, FlashTypeOK, AllGood
<1>2. Ending' = Ending
  <2>1. \A l \in Lba : Final(l)' = Final(l)
    BY FlashIs
  <2>2. QED
    BY <1>1, <2>1 DEF Ending
<1>3. SUFFICES ASSUME lostIn = {}, cmd.op # "format"
               PROVE  /\ Ordered(Now)' /\ Single(Now)'
                      /\ ~ Pending(Now)' => SoundSectors(Holds(Stored'))
  BY <1>1, <1>2 DEF LinkInv
<1>4. /\ Ordered(Now) /\ Single(Now) /\ SoundSectors(Ending') /\ SoundSectors(Ending)
      /\ ~ Pending(Now) => SoundSectors(Holds(Stored))
  BY <1>2, <1>3 DEF LinkInv
<1>5. CASE todo' = todo
  <2>1. Now' = Now
    BY <1>1, <1>5 DEF Now
  <2>2. ASSUME ~ Pending(Now) PROVE SoundSectors(Holds(Stored'))
    <3>1. CASE UNCHANGED <<Stored, Asked>>
      BY <1>4, <2>2, <3>1
    <3>2. ASSUME NEW w \in SectorWrite(Cells), Asked # <<>>, w = Head(Asked), Asked' = Tail(Asked),
                 Made(w, Stored, Stored')
          PROVE  SoundSectors(Holds(Stored'))
      BY <1>1, <1>4, <2>2, <3>2, MadeLinks
    <3>3. QED
      BY <3>1, <3>2, FlashIs
  <2>3. QED
    BY <1>4, <2>1, <2>2
<1>6. CASE phase = "program" /\ phase' = "idle" /\ todo' = Tail(todo)
  <2>1. todo # <<>> /\ Asked = Tail(todo) /\ Asked' = Tail(todo)
    BY <1>1, <1>6 DEF Asked
  <2>2. Stored' = Stored
    <3>1. Asked \in Seq(SectorWrite(Cells))
      BY <1>1, AskedGood
    <3>2. CASE Asked = <<>>
      BY <3>2, FlashIs
    <3>3. CASE Asked # <<>>
      <4>1. Tail(Asked) # Asked'
        BY <2>1, <3>1, <3>3, TailDiffers
      <4>2. QED
        BY <4>1, FlashIs
    <3>4. QED
      BY <3>2, <3>3
  <2>3. PICK b, td, v, w :
          /\ b = buf /\ td = todo /\ v = Now /\ w = Now'
          /\ v = [buf |-> b, todo |-> td] /\ w = [buf |-> b, todo |-> Tail(td)]
    BY <1>1, <1>6 DEF Now
  <2>4. Ordered(w) /\ Single(w) /\ (Pending(v) /\ ~ Pending(w) => w.todo = <<>>)
    BY <1>1, <1>4, <2>1, <2>3, TailLinks
  <2>5. ASSUME ~ Pending(w) PROVE SoundSectors(Holds(Stored'))
    <3>1. CASE ~ Pending(v)
      BY <1>4, <2>2, <2>3, <3>1
    <3>2. CASE Pending(v)
      <4>1. Tail(todo) = <<>>
        BY <2>3, <2>4, <2>5, <3>2
      <4>2. Calm(Asked') /\ ~ buf'.dirty
        BY <1>1, <2>1, <2>3, <2>5, <4>1, EmptySeq DEF Calm, Pending
      <4>3. (FilesInv /\ ~ buf.dirty /\ Calm(Asked) /\ SoundSectors(Ending) => SoundSectors(Holds(Stored)))'
        BY AtChip, PTL
      <4>4. QED
        BY <1>1, <1>4, <4>2, <4>3
    <3>3. QED
      BY <3>1, <3>2
  <2>6. QED
    BY <2>3, <2>4, <2>5
<1>7. QED
  BY <1>1, <1>5, <1>6, EndsWrite

\* A failure erases cells at most; what it leaves of the change of the table that is under way
\* is not told of.
LEMMA LossLinks ==
  ASSUME FilesInv, LinkInv, PowerLoss
  PROVE  LinkInv'
<1>1. /\ FlashInv(Cells) /\ FlashInv(Cells)' /\ FlashLoss /\ buf' = Invalid /\ cmd' = AtPrompt
      /\ lostIn' = lostIn \cup Interrupted /\ losses' # 0
  <2>1. losses \in Nat /\ losses' = losses + 1
    BY DEF FilesInv, CountsOK, PowerLoss
  <2>2. losses' # 0
    BY <2>1
  <2>3. QED
    BY <2>2, LossStep DEF FilesInv, DiskOK, BootOK, PowerLoss
<1>2. todo' = <<>> /\ Stored' = chip /\ Asked' = <<>> /\ ~ buf'.dirty /\ buf'.lba = -1
  <2>1. todo' = <<>> /\ chip' = chip /\ phase' = "idle"
    BY <1>1 DEF FlashLoss
  <2>2. Stored' = chip'
    <3>1. FlashTypeOK(Cells)' /\ phase' # "program"
      BY <1>1, <2>1 DEF FlashInv
    <3>2. QED
      BY <3>1 DEF Stored, InFlight, FlashTypeOK
  <2>3. QED
    BY <1>1, <2>1, <2>2 DEF Asked, Invalid
<1>3. \A a \in Addr : chip[a] = Stored[a] \/ chip[a] = FF
  <2>1. \A a \in InFlight : chip[a] = FF
    BY <1>1 DEF FlashInv, Erased, InFlight
  <2>2. QED
    BY <2>1 DEF Stored
<1>4. SUFFICES ASSUME lostIn' = {} PROVE LinkInv'
  BY <1>1 DEF LinkInv, AtPrompt
<1>5. lostIn = {} /\ cmd.op # "format" /\ ~ FatPending
  BY <1>1, <1>4 DEF Interrupted
<1>6. ~ Pending(Now)
  BY <1>5 DEF FatPending, Pending, Now, Writes, FatWrite, FatSectors
<1>7. PICK E \in Table, D \in Directory :
        E = TableOf(Holds(Stored)) /\ D = DirOf(Holds(Stored)) /\ Sound(E, D)
  <2>1. \A l \in Lba : GoodSector(l, Holds(Stored)[l])
    BY DEF FilesInv, DiskOK, Holds
  <2>2. SoundSectors(Holds(Stored))
    BY <1>5, <1>6 DEF LinkInv
  <2>3. QED
    BY <2>1, <2>2, SectorsTyped DEF SoundSectors
<1>8. ASSUME NEW l \in Lba, NEW k \in 1 .. SectorSize
      PROVE  Holds(chip)[l][k] = Holds(Stored)[l][k] \/ Holds(chip)[l][k] = FF
  <2>1. SectorStart(l) + k - 1 \in Addr
    BY SectorAddress
  <2>2. Holds(chip)[l][k] = chip[SectorStart(l) + k - 1] /\ Holds(Stored)[l][k] = Stored[SectorStart(l) + k - 1]
    BY DEF Holds, SectorIn
  <2>3. QED
    BY <1>3, <2>1, <2>2
<1>9. \A c \in Cluster : TableOf(Holds(chip))[c] = E[c] \/ TableOf(Holds(chip))[c] = FF
  <2>1. TAKE c \in Cluster
  <2>2. FatLba(c) \in Lba /\ (c % SectorSize) + 1 \in 1 .. SectorSize
    BY FatLbaIs, FatSectorIs
  <2>3. QED
    BY <1>7, <1>8, <2>2 DEF TableOf
<1>10. \A i \in Slot : DirOf(Holds(chip))[i] = D[i] \/ DirOf(Holds(chip))[i] = FF
  <2>1. TAKE i \in Slot
  <2>2. SlotLba(i) \in Lba /\ ((i - 1) % SectorSize) + 1 \in 1 .. SectorSize
    BY SlotLbaIs, RootSectorIs
  <2>3. QED
    BY <1>7, <1>8, <2>2 DEF DirOf
<1>11. SoundSectors(Holds(chip))
  BY <1>7, <1>9, <1>10, EraseSound DEF SoundSectors
<1>12. Ending' = Holds(chip)
  <2>1. \A l \in Lba : buf'.lba # l /\ Final(l)' = SectorIn(chip, l)
    <3>1. \A l \in Lba : l # -1
      BY Sizes
    <3>2. QED
      BY <1>2, <3>1, EmptySeq, AfterNone DEF Final
  <2>2. QED
    BY <2>1 DEF Ending, Holds
<1>13. Ordered(Now') /\ Single(Now')
  <2>1. PICK v : v = Now'
    OBVIOUS
  <2>2. v = [buf |-> buf', todo |-> <<>>]
    BY <1>2, <2>1 DEF Now
  <2>3. v.todo = <<>>
    BY <2>2
  <2>4. QED
    BY <2>1, <2>3, NoWrites
<1>14. QED
  BY <1>1, <1>2, <1>11, <1>12, <1>13 DEF LinkInv

\* Every step keeps the invariant.
LEMMA LinkStep == FilesInv /\ LinkInv /\ [Next]_vars => LinkInv'
<1> SUFFICES ASSUME FilesInv, LinkInv, [Next]_vars PROVE LinkInv'
  OBVIOUS
<1>1. CASE ReadLine
  BY <1>1, ReadLineLinks
<1>2. CASE ShellStep
  <2>1. CASE OpenRead
    BY <2>1, OpenReadLinks
  <2>2. CASE OpenWrite
    BY <2>2, OpenWriteLinks
  <2>3. CASE Fgetc
    BY <2>3, FgetcLinks
  <2>4. CASE Load
    BY <2>4, LoadLinks
  <2>5. CASE Fputs
    BY <2>5, FputsLinks
  <2>6. CASE FRemove
    BY <2>6, FRemoveLinks
  <2>7. CASE Fclose
    BY <2>7, FcloseLinks
  <2>8. CASE Format
    BY <2>8, FormatLinks
  <2>9. CASE Return
    BY <2>9, ReturnLinks
  <2>10. QED
    BY <1>2, <2>1, <2>2, <2>3, <2>4, <2>5, <2>6, <2>7, <2>8, <2>9 DEF ShellStep
<1>3. CASE FlashWrites
  BY <1>3, FlashLinks
<1>4. CASE PowerLoss
  BY <1>4, LossLinks
<1>5. CASE UNCHANGED vars
  <2>1. /\ lostIn' = lostIn /\ losses' = losses /\ cmd' = cmd /\ buf' = buf /\ todo' = todo /\ Stored' = Stored
        /\ Asked' = Asked
    BY <1>5 DEF vars, flashVars, history, Stored, InFlight, Asked
  <2>2. Now' = Now /\ Ending' = Ending
    BY <2>1 DEF Now, Ending, Final
  <2>3. QED
    BY <2>1, <2>2 DEF LinkInv
<1>6. QED
  BY <1>1, <1>2, <1>3, <1>4, <1>5 DEF Next

-----------------------------------------------------------------------------
(* The chains of the files.                                                *)

\* q goes from s through the table E.
Chained(E, q, s) ==
  /\ q \in Seq(Cluster) /\ q # <<>> /\ q[1] = s
  /\ \A m \in 1 .. Len(q) - 1 : q[m + 1] = Link(E[q[m]]) /\ q[m + 1] \notin {LAST, 0}

\* One cluster more.
LEMMA ChainGrows ==
  ASSUME NEW E \in Table, NEW s, NEW q, Chained(E, q, s), NEW c, c = Link(E[q[Len(q)]]),
         c \notin {LAST, 0}
  PROVE  Chained(E, Append(q, c), s)
<1>1. PICK n \in Nat \ {0} : n = Len(q) /\ DOMAIN q = 1 .. n /\ q \in Seq(Cluster)
  BY EmptySeq, LenProperties DEF Chained
<1>2. q[n] \in Cluster
  BY <1>1, ElementOfSeq
<1>3. c \in Cluster
  BY <1>1, <1>2, LinkIs DEF Table
<1>4. PICK r : /\ r = Append(q, c) /\ r \in Seq(Cluster) /\ Len(r) = n + 1 /\ r[n + 1] = c
               /\ \A i \in 1 .. n : r[i] = q[i]
  <2>1. PICK r : r = Append(q, c)
    OBVIOUS
  <2>2. /\ r \in Seq(Cluster) /\ Len(r) = Len(q) + 1 /\ r[Len(q) + 1] = c
        /\ \A i \in 1 .. Len(q) : r[i] = q[i]
    BY <1>1, <1>3, <2>1, AppendProperties
  <2>3. QED
    BY <1>1, <2>1, <2>2
<1>5. r # <<>> /\ r[1] = s
  <2>1. 1 \in 1 .. n /\ n + 1 # 0
    BY <1>1
  <2>2. QED
    BY <1>4, <2>1, EmptySeq DEF Chained
<1>6. ASSUME NEW m \in 1 .. n PROVE r[m + 1] = Link(E[r[m]]) /\ r[m + 1] \notin {LAST, 0}
  <2>1. CASE m = n
    BY <1>1, <1>4, <2>1
  <2>2. CASE m # n
    <3>1. m \in 1 .. n - 1 /\ m + 1 \in 1 .. n
      BY <1>1, <2>2
    <3>2. q[m + 1] = Link(E[q[m]]) /\ q[m + 1] \notin {LAST, 0}
      BY <1>1, <3>1 DEF Chained
    <3>3. QED
      BY <1>4, <3>1, <3>2
  <2>3. QED
    BY <2>1, <2>2
<1>7. (n + 1) - 1 = n
  BY <1>1
<1>8. QED
  BY <1>4, <1>5, <1>6, <1>7 DEF Chained

\* The clusters of a file are a chain, as long as its links lead on, or longer than the table.
LEMMA ChainIs ==
  ASSUME NEW d, NEW E \in Table, E = TableIn(d), NEW i \in Slot, EntryIn(d, i).start \in Cluster
  PROVE  \E q : /\ q = ChainIn(d, i) /\ Chained(E, q, EntryIn(d, i).start)
               /\ (Len(q) = Cardinality(Cluster) + 1 \/ Link(E[q[Len(q)]]) \in {LAST, 0})
<1>1. PICK N \in Nat : N = Cardinality(Cluster)
  <2>1. IsFiniteSet(Cluster)
    BY Sizes, FS_Interval
  <2>2. QED
    BY <2>1, FS_CardinalityType
<1> DEFINE s == EntryIn(d, i).start
           V == {q \in Seq(Cluster) : Chained(E, q, s)}
           next(q) == Link(d[LinkCell(q[Len(q)])])
           step(k, q) == IF Len(q) < k \/ next(q) \in {LAST, 0} THEN q ELSE Append(q, next(q))
           Ended(k, q) == Len(q) = k + 1 \/ (Len(q) <= k /\ next(q) \in {LAST, 0})
           body(f) == [k \in 0 .. N |-> IF k = 0 THEN <<s>> ELSE step(k, f[k - 1])]
<1>2. <<s>> \in V /\ Ended(0, <<s>>)
  <2>1. <<s>> \in Seq(Cluster) /\ Len(<<s>>) = 1 /\ <<s>>[1] = s /\ <<s>> # <<>>
    OBVIOUS
  <2>2. QED
    BY <2>1 DEF Chained
<1>3. ASSUME NEW q \in V
      PROVE  /\ Chained(E, q, s) /\ q \in Seq(Cluster) /\ q # <<>> /\ Len(q) \in Nat
             /\ next(q) = Link(E[q[Len(q)]]) /\ (next(q) \notin {LAST, 0} => next(q) \in Cluster)
  <2>1. Chained(E, q, s) /\ q \in Seq(Cluster) /\ q # <<>>
    BY DEF Chained
  <2>2. PICK c \in Cluster : c = q[Len(q)]
    <3>1. Len(q) \in 1 .. Len(q)
      BY <2>1, EmptySeq, LenProperties
    <3>2. QED
      BY <2>1, <3>1, ElementOfSeq
  <2>3. next(q) = Link(E[c])
    BY <2>2 DEF TableIn
  <2>4. Link(E[c]) \notin {LAST, 0} => Link(E[c]) \in Cluster
    BY LinkIs DEF Table
  <2>5. Len(q) \in Nat
    BY <2>1, LenProperties
  <2>6. QED
    BY <2>1, <2>2, <2>3, <2>4, <2>5
<1>4. ASSUME NEW k \in 0 .. N, NEW q \in V PROVE step(k, q) \in V
  <2>1. next(q) \notin {LAST, 0} => Chained(E, Append(q, next(q)), s)
    <3> HIDE DEF next, s
    <3>1. QED
      BY <1>3, ChainGrows
  <2>2. QED
    <3> HIDE DEF next, s
    <3>1. QED
      BY <2>1 DEF Chained
<1>5. ASSUME NEW k \in Nat \ {0}, NEW q \in V, Ended(k - 1, q) PROVE Ended(k, step(k, q))
  <2> HIDE DEF next, V
  <2>1. PICK n, c : n \in Nat /\ n = Len(q) /\ c = next(q)
    BY <1>3
  <2>2. n = k \/ (n <= k - 1 /\ c \in {LAST, 0})
    BY <1>5, <2>1
  <2>3. CASE c \in {LAST, 0}
    <3>1. step(k, q) = q
      BY <2>1, <2>3
    <3>2. n <= k
      BY <2>1, <2>2
    <3>3. QED
      BY <2>1, <2>3, <3>1, <3>2
  <2>4. CASE c \notin {LAST, 0}
    <3>1. n = k /\ ~ (n < k)
      BY <2>1, <2>2, <2>4
    <3>2. step(k, q) = Append(q, c) /\ c \in Cluster /\ q \in Seq(Cluster)
      BY <1>3, <2>1, <2>4, <3>1
    <3>3. Len(Append(q, c)) = n + 1
      BY <2>1, <3>2, AppendProperties
    <3>4. QED
      BY <3>1, <3>2, <3>3
  <2>5. QED
    BY <2>3, <2>4
<1>6. ChainIn(d, i) = (CHOOSE f : f = body(f))[N]
  BY <1>1 DEF ChainIn
<1> HIDE DEF step, Ended, V, s, next
<1>7. PICK G \in [0 .. N -> [V -> V]] : \A k \in 0 .. N, q \in V : G[k][q] = step(k, q)
  <2> DEFINE g == [k \in 0 .. N |-> [q \in V |-> step(k, q)]]
  <2>1. g \in [0 .. N -> [V -> V]]
    BY <1>4
  <2>2. \A k \in 0 .. N, q \in V : g[k][q] = step(k, q)
    OBVIOUS
  <2>3. QED
    BY <2>1, <2>2
<1>8. \E f : f = body(f)
  <2>1. PICK f \in [0 .. N -> V] :
          \A k \in 0 .. N : f[k] = IF k = 0 THEN <<s>> ELSE G[k][f[k - 1]]
    <3>1. \E f : Steps(f, N, V, <<s>>, G)
      BY <1>2, Recursion
    <3>2. QED
      BY <3>1 DEF Steps
  <2>2. ASSUME NEW k \in 0 .. N PROVE f[k] = IF k = 0 THEN <<s>> ELSE step(k, f[k - 1])
    <3>1. k # 0 => k - 1 \in 0 .. N
      OBVIOUS
    <3>2. k # 0 => G[k][f[k - 1]] = step(k, f[k - 1])
      BY <1>7, <2>1, <3>1
    <3>3. QED
      BY <2>1, <3>2
  <2>3. f = body(f)
    BY <2>2
  <2>4. QED
    BY <2>3
<1>9. PICK f : ChainIn(d, i) = f[N] /\ f = body(f)
  <2> HIDE DEF body
  <2>1. QED
    BY <1>6, <1>8
<1>10. f[N] \in V /\ Ended(N, f[N])
  <2> DEFINE A == {k \in 0 .. N : f[k] \in V /\ Ended(k, f[k])}
  <2>1. 0 \in A
    BY <1>2, <1>9
  <2>2. ASSUME NEW n \in 0 .. N, n \in A, n < N PROVE n + 1 \in A
    <3>1. n + 1 \in 0 .. N /\ (n + 1) - 1 = n /\ n + 1 \in Nat \ {0}
      BY <2>2
    <3>2. f[n + 1] = step(n + 1, f[n])
      BY <1>9, <3>1
    <3>3. f[n + 1] \in V
      BY <1>4, <2>2, <3>1, <3>2
    <3>4. Ended(n + 1, f[n + 1])
      BY <1>5, <2>2, <3>1, <3>2
    <3>5. QED
      BY <3>1, <3>3, <3>4
  <2> HIDE DEF A
  <2>3. 0 .. N \subseteq A
    BY <2>1, <2>2, IntervalInduction
  <2>4. QED
    BY <2>3 DEF A
<1>11. PICK q : q = ChainIn(d, i) /\ q \in V /\ Ended(N, q)
  BY <1>9, <1>10
<1>12. Chained(E, q, s) /\ next(q) = Link(E[q[Len(q)]])
  BY <1>3, <1>11
<1>13. QED
  BY <1>1, <1>11, <1>12 DEF Ended, s

\* Two chains of a sound table that begin apart, each with a cluster that nobody links, never meet.
LEMMA ChainsApart ==
  ASSUME NEW E \in Table, NEW s, NEW t, s # t,
         \A k \in Cluster : Link(E[k]) # s /\ Link(E[k]) # t,
         \A k, l \in Cluster : k # l => Link(E[k]) # Link(E[l]) \/ Link(E[k]) \in {LAST, 0},
         NEW p, NEW q, Chained(E, p, s), Chained(E, q, t),
         NEW a \in DOMAIN p, NEW b \in DOMAIN q
  PROVE  p[a] # q[b]
<1>1. PICK m \in Nat, n \in Nat : /\ DOMAIN p = 1 .. m + 1 /\ Len(p) = m + 1 /\ DOMAIN q = 1 .. n + 1 /\ Len(q) = n + 1
  <2>1. \A r \in Seq(Cluster) : r # <<>> => Len(r) - 1 \in Nat /\ DOMAIN r = 1 .. (Len(r) - 1) + 1 /\ Len(r) = (Len(r) - 1) + 1
    BY EmptySeq, LenProperties
  <2>2. QED
    BY <2>1 DEF Chained
<1>2. /\ \A i \in 1 .. m + 1 : p[i] \in Cluster
      /\ \A i \in 1 .. n + 1 : q[i] \in Cluster
  BY <1>1, ElementOfSeq DEF Chained
<1>3. /\ p[1] = s /\ \A i \in 1 .. m : p[i + 1] = Link(E[p[i]]) /\ p[i + 1] \notin {LAST, 0}
      /\ q[1] = t /\ \A i \in 1 .. n : q[i + 1] = Link(E[q[i]]) /\ q[i + 1] \notin {LAST, 0}
  <2>1. (m + 1) - 1 = m /\ (n + 1) - 1 = n
    BY <1>1
  <2>2. QED
    BY <1>1, <2>1 DEF Chained
<1> DEFINE A == {i \in 0 .. m : \A j \in 1 .. n + 1 : p[i + 1] # q[j]}
<1>4. 0 \in A
  <2>1. ASSUME NEW j \in 1 .. n + 1 PROVE p[1] # q[j]
    <3>1. CASE j = 1
      BY <1>3, <3>1
    <3>2. CASE j # 1
      <4>1. j - 1 \in 1 .. n /\ (j - 1) + 1 = j /\ j - 1 \in 1 .. n + 1
        BY <3>2
      <4>2. q[j] = Link(E[q[j - 1]]) /\ q[j - 1] \in Cluster
        BY <1>2, <1>3, <4>1
      <4>3. QED
        BY <1>3, <4>2
    <3>3. QED
      BY <3>1, <3>2
  <2>2. QED
    BY <2>1
<1>5. ASSUME NEW i \in 0 .. m, i \in A, i < m PROVE i + 1 \in A
  <2>1. ASSUME NEW j \in 1 .. n + 1 PROVE p[(i + 1) + 1] # q[j]
    <3>1. i + 1 \in 1 .. m /\ i + 1 \in 1 .. m + 1
      BY <1>5
    <3>2. p[(i + 1) + 1] = Link(E[p[i + 1]]) /\ p[(i + 1) + 1] \notin {LAST, 0} /\ p[i + 1] \in Cluster
      BY <1>2, <1>3, <3>1
    <3>3. CASE j = 1
      BY <1>3, <3>2, <3>3
    <3>4. CASE j # 1
      <4>1. j - 1 \in 1 .. n /\ (j - 1) + 1 = j /\ j - 1 \in 1 .. n + 1
        BY <3>4
      <4>2. q[j] = Link(E[q[j - 1]]) /\ q[j - 1] \in Cluster
        BY <1>2, <1>3, <4>1
      <4>3. p[i + 1] # q[j - 1]
        BY <1>5, <4>1
      <4>4. QED
        BY <3>2, <4>2, <4>3
    <3>5. QED
      BY <3>3, <3>4
  <2>2. i + 1 \in 0 .. m
    BY <1>5
  <2>3. QED
    BY <2>1, <2>2
<1>6. 0 .. m \subseteq A
  <2> HIDE DEF A
  <2>1. QED
    BY <1>1, <1>4, <1>5, IntervalInduction
<1>7. a - 1 \in 0 .. m /\ (a - 1) + 1 = a /\ b \in 1 .. n + 1
  BY <1>1
<1>8. QED
  BY <1>6, <1>7

\* A chain that begins with a cluster that nobody links does not come back to one it has had.
LEMMA ChainDistinct ==
  ASSUME NEW E \in Table, NEW s, \A k \in Cluster : Link(E[k]) # s,
         \A k, l \in Cluster : k # l => Link(E[k]) # Link(E[l]) \/ Link(E[k]) \in {LAST, 0},
         NEW p, Chained(E, p, s), NEW a \in DOMAIN p, NEW b \in DOMAIN p, a < b
  PROVE  p[a] # p[b]
<1>1. PICK m \in Nat : DOMAIN p = 1 .. m + 1 /\ Len(p) = m + 1
  <2>1. Len(p) - 1 \in Nat /\ DOMAIN p = 1 .. (Len(p) - 1) + 1 /\ Len(p) = (Len(p) - 1) + 1
    BY EmptySeq, LenProperties DEF Chained
  <2>2. QED
    BY <2>1
<1>2. \A i \in 1 .. m + 1 : p[i] \in Cluster
  BY <1>1, ElementOfSeq DEF Chained
<1>3. p[1] = s /\ \A i \in 1 .. m : p[i + 1] = Link(E[p[i]]) /\ p[i + 1] \notin {LAST, 0}
  <2>1. (m + 1) - 1 = m
    BY <1>1
  <2>2. QED
    BY <1>1, <2>1 DEF Chained
<1> DEFINE A == {i \in 0 .. m : \A j \in i + 2 .. m + 1 : p[i + 1] # p[j]}
<1>4. ASSUME NEW i \in 0 .. m, NEW j \in i + 2 .. m + 1
      PROVE  /\ j - 1 \in 1 .. m /\ j - 1 \in 1 .. m + 1 /\ (j - 1) + 1 = j
             /\ p[j] = Link(E[p[j - 1]]) /\ p[j - 1] \in Cluster
  <2>1. j - 1 \in 1 .. m /\ j - 1 \in 1 .. m + 1 /\ (j - 1) + 1 = j
    OBVIOUS
  <2>2. QED
    BY <1>2, <1>3, <2>1
<1>5. 0 \in A
  <2>1. ASSUME NEW j \in 0 + 2 .. m + 1 PROVE p[0 + 1] # p[j]
    <3>1. 0 \in 0 .. m /\ 0 + 1 = 1
      OBVIOUS
    <3>2. QED
      BY <1>3, <1>4, <3>1
  <2>2. QED
    BY <2>1
<1>6. ASSUME NEW i \in 0 .. m, i \in A, i < m PROVE i + 1 \in A
  <2>1. ASSUME NEW j \in (i + 1) + 2 .. m + 1 PROVE p[(i + 1) + 1] # p[j]
    <3>1. i + 1 \in 1 .. m /\ i + 1 \in 1 .. m + 1 /\ j - 1 \in i + 2 .. m + 1 /\ i + 1 \in 0 .. m
      BY <1>6
    <3>2. p[(i + 1) + 1] = Link(E[p[i + 1]]) /\ p[(i + 1) + 1] \notin {LAST, 0} /\ p[i + 1] \in Cluster
      BY <1>2, <1>3, <3>1
    <3>3. p[j] = Link(E[p[j - 1]]) /\ p[j - 1] \in Cluster
      BY <1>4, <3>1
    <3>4. p[i + 1] # p[j - 1]
      BY <1>6, <3>1
    <3>5. QED
      BY <3>2, <3>3, <3>4
  <2>2. i + 1 \in 0 .. m
    BY <1>6
  <2>3. QED
    BY <2>1, <2>2
<1>7. 0 .. m \subseteq A
  <2> HIDE DEF A
  <2>1. QED
    BY <1>1, <1>5, <1>6, IntervalInduction
<1>8. PICK i : i \in 0 .. m /\ i + 1 = a /\ b \in i + 2 .. m + 1
  <2>1. a - 1 \in 0 .. m /\ (a - 1) + 1 = a /\ b \in (a - 1) + 2 .. m + 1
    BY <1>1
  <2>2. QED
    BY <2>1
<1>9. i \in A
  <2> HIDE DEF A
  <2>1. QED
    BY <1>7, <1>8
<1>10. p[i + 1] # p[b]
  BY <1>8, <1>9
<1>11. QED
  BY <1>8, <1>10

\* So it is no longer than the table, and the links of a file's last cluster lead nowhere.
LEMMA ChainEnds ==
  ASSUME NEW d, NEW E \in Table, E = TableIn(d), NEW i \in Slot, EntryIn(d, i).start \in Cluster,
         \A k \in Cluster : Link(E[k]) # EntryIn(d, i).start,
         \A k, l \in Cluster : k # l => Link(E[k]) # Link(E[l]) \/ Link(E[k]) \in {LAST, 0}
  PROVE  \E q : /\ q = ChainIn(d, i) /\ Chained(E, q, EntryIn(d, i).start)
               /\ Link(E[q[Len(q)]]) \in {LAST, 0}
<1>1. PICK q, s : /\ q = ChainIn(d, i) /\ s = EntryIn(d, i).start /\ Chained(E, q, s)
                  /\ (Len(q) = Cardinality(Cluster) + 1 \/ Link(E[q[Len(q)]]) \in {LAST, 0})
  BY ChainIs
<1>2. SUFFICES ASSUME Len(q) = Cardinality(Cluster) + 1 PROVE FALSE
  BY <1>1
<1>3. PICK N \in Nat : N = Cardinality(Cluster) /\ IsFiniteSet(Cluster)
  <2>1. IsFiniteSet(Cluster)
    BY Sizes, FS_Interval
  <2>2. QED
    BY <2>1, FS_CardinalityType
<1>4. PICK S : S = 1 .. N + 1 /\ IsFiniteSet(S) /\ N < Cardinality(S)
  <2>1. N + 1 \in Int /\ 1 \in Int /\ ~ (1 > N + 1) /\ (N + 1) - 1 + 1 = N + 1 /\ N < N + 1
    OBVIOUS
  <2>2. IsFiniteSet(1 .. N + 1) /\ Cardinality(1 .. N + 1) = N + 1
    BY <2>1, FS_Interval
  <2>3. QED
    BY <2>1, <2>2
<1>5. q \in [S -> Cluster]
  <2>1. q \in Seq(Cluster) /\ Len(q) = N + 1
    BY <1>1, <1>2, <1>3 DEF Chained
  <2>2. QED
    BY <1>4, <2>1, LenProperties
<1>6. PICK a \in S, b \in S : a # b /\ q[a] = q[b]
  BY <1>3, <1>4, <1>5, FS_PigeonHole
<1>7. DOMAIN q = S /\ (a < b \/ b < a)
  BY <1>4, <1>5, <1>6
<1>8. QED
  BY <1>1, <1>6, <1>7, ChainDistinct

\* The clusters of a file are in use.
LEMMA ChainUsed ==
  ASSUME NEW E \in Table, NEW D \in Directory, Sound(E, D), NEW i \in Slot, IsEntry(D[i]),
         NEW q, Chained(E, q, D[i].start), NEW a \in DOMAIN q
  PROVE  q[a] \in Cluster \ {0, 1} /\ E[q[a]] # ZERO
<1>1. q \in Seq(Cluster) /\ DOMAIN q = 1 .. Len(q) /\ Len(q) \in Nat /\ q[1] = D[i].start
  BY LenProperties DEF Chained
<1>2. CASE a = 1
  BY <1>1, <1>2, EntryStart DEF Directory, Sound
<1>3. CASE a # 1
  <2>1. a - 1 \in 1 .. Len(q) - 1 /\ a - 1 \in 1 .. Len(q) /\ (a - 1) + 1 = a
    BY <1>1, <1>3
  <2>2. PICK k \in Cluster : k = q[a - 1]
    BY <1>1, <2>1, ElementOfSeq
  <2>3. q[a] = Link(E[k]) /\ q[a] \notin {LAST, 0}
    BY <2>1, <2>2 DEF Chained
  <2>4. QED
    BY <2>3, LinkIs DEF Table, Sound
<1>4. QED
  BY <1>2, <1>3

\* If no set of clusters is without somebody who leads into it, every cluster in use is a file's.
LEMMA OwnedDisk ==
  ASSUME NEW d, TableIn(d) \in Table, DirIn(d) \in Directory, Sound(TableIn(d), DirIn(d)),
         Owned(TableIn(d), DirIn(d), {}), d[LinkCell(0)] = MEDIA
  PROVE  NoneLost(d)
<1>1. PICK E \in Table, D \in Directory : E = TableIn(d) /\ D = DirIn(d) /\ Sound(E, D) /\ Owned(E, D, {})
  OBVIOUS
<1>2. /\ \A i \in Slot : D[i] = EntryIn(d, i)
      /\ \A c \in Cluster : E[c] = d[LinkCell(c)]
  BY <1>1 DEF DirIn, TableIn
<1>3. E[0] = MEDIA
  BY <1>2, Sizes
<1>4. PICK U, W : /\ U = {c \in Cluster \ {0, 1} : E[c] # ZERO}
                  /\ W = UNION {ClustersIn(d, i) : i \in EntriesIn(d)}
  OBVIOUS
<1>5. ASSUME NEW i \in EntriesIn(d)
      PROVE  /\ i \in Slot /\ IsEntry(D[i])
             /\ \E q : /\ q = ChainIn(d, i) /\ Chained(E, q, D[i].start)
                      /\ Link(E[q[Len(q)]]) \in {LAST, 0}
  <2>1. i \in Slot /\ IsEntry(D[i])
    BY <1>2 DEF EntriesIn
  <2>2. D[i].start \in Cluster \ {0, 1}
    BY <2>1, EntryStart DEF Directory
  <2>3. /\ \A k \in Cluster : Link(E[k]) # D[i].start
        /\ \A k, l \in Cluster : k # l => Link(E[k]) # Link(E[l]) \/ Link(E[k]) \in {LAST, 0}
    BY <1>1, <2>1 DEF Sound
  <2>4. QED
    BY <1>1, <1>2, <2>1, <2>2, <2>3, ChainEnds
<1>6. W \subseteq U
  <2>1. SUFFICES ASSUME NEW i \in EntriesIn(d), NEW c \in ClustersIn(d, i) PROVE c \in U
    BY <1>4
  <2>2. PICK q : q = ChainIn(d, i) /\ Chained(E, q, D[i].start)
    BY <1>5
  <2>3. PICK a \in DOMAIN q : c = q[a]
    BY <2>2 DEF ClustersIn
  <2>4. QED
    BY <1>1, <1>4, <1>5, <2>2, <2>3, ChainUsed
<1>7. ASSUME U \ W # {} PROVE FALSE
  <2>1. PICK B : B = U \ W /\ B # {}
    BY <1>7
  <2>2. Led(E, D, B)
    BY <1>1, <1>3, <1>4, <2>1 DEF Owned
  <2>3. ASSUME NEW i \in EntriesIn(d), NEW q, q = ChainIn(d, i), NEW a \in DOMAIN q PROVE q[a] \notin B
    BY <1>4, <2>1, <2>3 DEF ClustersIn
  <2>4. ASSUME NEW i \in Slot, IsEntry(D[i]), D[i].start \in B PROVE FALSE
    <3>1. i \in EntriesIn(d)
      BY <1>2, <2>4 DEF EntriesIn
    <3>2. PICK q : q = ChainIn(d, i) /\ Chained(E, q, D[i].start)
      BY <1>5, <3>1
    <3>3. 1 \in DOMAIN q /\ q[1] = D[i].start
      BY <3>2, EmptySeq, LenProperties DEF Chained
    <3>4. QED
      BY <2>3, <2>4, <3>1, <3>2, <3>3
  <2>5. ASSUME NEW k \in Cluster \ {0, 1}, k \notin B, Link(E[k]) \in B PROVE FALSE
    <3>1. Link(E[k]) \notin {LAST, 0}
      BY <1>4, <2>1, <2>5, ClusterIs
    <3>2. E[k] # ZERO
      BY <3>1, LinkIs DEF Table
    <3>3. k \in W
      BY <1>4, <2>1, <2>5, <3>2
    <3>4. PICK i \in EntriesIn(d) : k \in ClustersIn(d, i)
      BY <1>4, <3>3
    <3>5. PICK q : /\ q = ChainIn(d, i) /\ Chained(E, q, D[i].start)
                   /\ Link(E[q[Len(q)]]) \in {LAST, 0}
      BY <1>5
    <3>6. PICK a \in DOMAIN q : k = q[a]
      BY <3>4, <3>5 DEF ClustersIn
    <3>7. DOMAIN q = 1 .. Len(q) /\ Len(q) \in Nat
      BY <3>5, LenProperties DEF Chained
    <3>8. a # Len(q)
      BY <3>1, <3>5, <3>6
    <3>9. a \in 1 .. Len(q) - 1 /\ a + 1 \in DOMAIN q
      BY <3>7, <3>8
    <3>10. q[a + 1] = Link(E[k])
      BY <3>5, <3>6, <3>9 DEF Chained
    <3>11. QED
      BY <2>3, <2>5, <3>5, <3>9, <3>10
  <2>6. QED
    BY <2>2, <2>4, <2>5 DEF Led
<1>8. U = W
  BY <1>6, <1>7
<1>9. QED
  BY <1>2, <1>4, <1>8 DEF NoneLost

\* And if they all are a file's, somebody leads into every set of them: the files do, or the
\* clusters in front of it in their chains.
LEMMA DiskOwned ==
  ASSUME NEW d, TableIn(d) \in Table, DirIn(d) \in Directory, d[LinkCell(0)] = MEDIA => NoneLost(d)
  PROVE  Owned(TableIn(d), DirIn(d), {})
<1>1. PICK E \in Table, D \in Directory : E = TableIn(d) /\ D = DirIn(d)
  OBVIOUS
<1>2. /\ \A i \in Slot : D[i] = EntryIn(d, i)
      /\ \A c \in Cluster : E[c] = d[LinkCell(c)]
  BY <1>1 DEF DirIn, TableIn
<1>3. SUFFICES ASSUME E[0] = MEDIA, NEW B \in SUBSET {c \in Cluster \ {0, 1} : E[c] # ZERO}, B # {}
               PROVE  Led(E, D, B)
  BY <1>1 DEF Owned
<1>4. PICK U : /\ U = {c \in Cluster \ {0, 1} : E[c] # ZERO}
               /\ U = UNION {ClustersIn(d, i) : i \in EntriesIn(d)}
  <2>1. NoneLost(d)
    BY <1>2, <1>3, Sizes
  <2>2. PICK U : U = {c \in Cluster \ {0, 1} : E[c] # ZERO}
    OBVIOUS
  <2>3. U = {c \in Cluster \ {0, 1} : d[LinkCell(c)] # ZERO}
    BY <1>2, <2>2
  <2>4. QED
    BY <2>1, <2>2, <2>3 DEF NoneLost
<1>5. PICK i \in EntriesIn(d) : B \cap ClustersIn(d, i) # {}
  BY <1>3, <1>4
<1>6. i \in Slot /\ IsEntry(D[i])
  BY <1>2 DEF EntriesIn
<1>7. PICK q : /\ q = ChainIn(d, i) /\ Chained(E, q, D[i].start)
  <2>1. D[i].start \in Cluster
    BY <1>6, EntryStart DEF Directory
  <2>2. QED
    BY <1>1, <1>2, <1>6, <2>1, ChainIs
<1>8. q \in Seq(Cluster) /\ DOMAIN q = 1 .. Len(q) /\ Len(q) \in Nat /\ q[1] = D[i].start
  BY <1>7, LenProperties DEF Chained
<1>9. PICK a \in DOMAIN q : q[a] \in B /\ \A b \in DOMAIN q : q[b] \in B => a <= b
  <2>1. PICK P : P = {b \in DOMAIN q : q[b] \in B}
    OBVIOUS
  <2>2. P \subseteq Nat /\ P # {}
    BY <1>5, <1>7, <1>8, <2>1 DEF ClustersIn
  <2>3. QED
    BY <2>1, <2>2, LeastElement
<1>10. CASE a = 1
  BY <1>6, <1>8, <1>9, <1>10 DEF Led
<1>11. CASE a # 1
  <2>1. a - 1 \in 1 .. Len(q) - 1 /\ a - 1 \in DOMAIN q /\ (a - 1) + 1 = a /\ ~ (a <= a - 1)
    BY <1>8, <1>11
  <2>2. PICK k : k = q[a - 1] /\ k \notin B /\ Link(E[k]) \in B
    <3>1. q[(a - 1) + 1] = Link(E[q[a - 1]])
      BY <1>7, <2>1 DEF Chained
    <3>2. QED
      BY <1>9, <2>1, <3>1
  <2>3. k \in Cluster \ {0, 1}
    BY <1>4, <1>7, <2>1, <2>2 DEF ClustersIn
  <2>4. QED
    BY <2>2, <2>3 DEF Led
<1>12. QED
  BY <1>10, <1>11

\* At rest the disk with the FAT sector in RAM is what the disk will hold.
LEMMA LogicalIs ==
  ASSUME FilesInv, Idle
  PROVE  TableIn(Logical) = TableOf(Ending) /\ DirIn(Logical) = DirOf(Ending)
<1>1. Stored = chip /\ Asked = <<>> /\ GoodBuffer(buf)
  BY Quiet DEF FilesInv, BufferOK
<1>2. ASSUME NEW l \in FatSectors \cup RootSectors PROVE Holds(Logical)[l] = Ending[l]
  <2>1. l \in Lba /\ l # -1 /\ l \in Nat
    BY FatSectorIs, RootSectorIs
  <2>2. Final(l) = SectorIn(chip, l)
    BY <1>1, EmptySeq, AfterNone DEF Final
  <2>3. \A k \in 1 .. SectorSize : SectorStart(l) + k - 1 \in Addr /\ SectorStart(l) \in Nat
    BY <2>1, SectorAddress
  <2>4. CASE buf.lba = l /\ buf.dirty
    <3>1. buf.data \in [1 .. SectorSize -> Cells]
      BY <1>1, <2>1, <2>4 DEF GoodBuffer, GoodSector, SectorData
    <3>2. ASSUME NEW k \in 1 .. SectorSize PROVE Logical[SectorStart(l) + k - 1] = buf.data[k]
      <4>1. PICK x \in Nat : x = SectorStart(l) /\ x + k - 1 \in Addr
        BY <2>3
      <4>2. x + k - 1 \in x .. x + SectorSize - 1 /\ (x + k - 1) - x + 1 = k
        BY <4>1, Sizes
      <4>3. QED
        BY <2>4, <4>1, <4>2 DEF Logical, SectorRange
    <3>3. SectorIn(Logical, l) = buf.data
      BY <3>1, <3>2 DEF SectorIn
    <3>4. QED
      BY <2>1, <2>4, <3>3 DEF Holds, Ending
  <2>5. CASE ~ (buf.lba = l /\ buf.dirty)
    <3>1. ASSUME NEW k \in 1 .. SectorSize
          PROVE  Logical[SectorStart(l) + k - 1] = chip[SectorStart(l) + k - 1]
      <4>1. SectorStart(l) + k - 1 \in Addr
        BY <2>3
      <4>2. ASSUME buf.dirty PROVE SectorStart(l) + k - 1 \notin SectorRange(buf.lba)
        <5>1. buf.lba \in FatSectors /\ buf.lba \in Nat /\ buf.lba \in Lba /\ buf.lba # l
          BY <1>1, <2>5, <4>2, FatSectorIs DEF GoodBuffer, Buffer
        <5>2. SUFFICES ASSUME SectorStart(l) + k - 1 \in SectorRange(buf.lba) PROVE FALSE
          OBVIOUS
        <5>3. PICK x \in Nat, y \in Nat : x = SectorStart(l) /\ y = SectorStart(buf.lba)
          BY <2>3, <5>1, SectorAddress, Sizes
        <5>4. PICK j \in 1 .. SectorSize : j = x + k - y /\ y + j - 1 = x + k - 1
          BY <5>2, <5>3, Sizes, SMTT(30) DEF SectorRange
        <5>5. QED
          BY <2>1, <5>1, <5>3, <5>4, SectorsApart
      <4>3. QED
        BY <4>1, <4>2 DEF Logical
    <3>2. SectorIn(Logical, l) = SectorIn(chip, l)
      BY <3>1 DEF SectorIn
    <3>3. buf.lba = l => buf.data = Final(l)
      BY <2>1, <2>5 DEF FilesInv, BufferOK
    <3>4. QED
      BY <2>1, <2>2, <3>2, <3>3 DEF Holds, Ending
  <2>6. QED
    BY <2>4, <2>5
<1>3. QED
  BY <1>2, SameTables, TablesIn

\* A sound disk has no cluster in two files, and no name twice.
LEMMA SoundDisk ==
  ASSUME NEW d, TableIn(d) \in Table, DirIn(d) \in Directory, Sound(TableIn(d), DirIn(d)),
         NEW i \in EntriesIn(d), NEW j \in EntriesIn(d), i # j
  PROVE  /\ ClustersIn(d, i) \cap ClustersIn(d, j) = {}
         /\ EntryIn(d, i).name # EntryIn(d, j).name
<1>1. PICK E \in Table, D \in Directory : E = TableIn(d) /\ D = DirIn(d) /\ Sound(E, D)
  OBVIOUS
<1>2. /\ i \in Slot /\ j \in Slot /\ D[i] = EntryIn(d, i) /\ D[j] = EntryIn(d, j)
      /\ IsEntry(D[i]) /\ IsEntry(D[j])
  BY <1>1 DEF EntriesIn, DirIn
<1>3. D[i].start \in Cluster \ {0, 1} /\ D[j].start \in Cluster \ {0, 1}
  BY <1>2, EntryStart DEF Directory
<1>4. PICK p, q, s, t : /\ p = ChainIn(d, i) /\ q = ChainIn(d, j) /\ s = D[i].start /\ t = D[j].start
                        /\ Chained(E, p, s) /\ Chained(E, q, t)
  <2>1. Chained(E, ChainIn(d, i), D[i].start)
    BY <1>1, <1>2, <1>3, ChainIs
  <2>2. Chained(E, ChainIn(d, j), D[j].start)
    BY <1>1, <1>2, <1>3, ChainIs
  <2>3. QED
    BY <2>1, <2>2
<1>5. /\ s # t /\ D[i].name # D[j].name
      /\ \A k \in Cluster : Link(E[k]) # s /\ Link(E[k]) # t
      /\ \A k, l \in Cluster : k # l => Link(E[k]) # Link(E[l]) \/ Link(E[k]) \in {LAST, 0}
  BY <1>1, <1>2, <1>4 DEF Sound
<1>6. \A a \in DOMAIN p, b \in DOMAIN q : p[a] # q[b]
  BY <1>4, <1>5, ChainsApart
<1>7. ClustersIn(d, i) \cap ClustersIn(d, j) = {}
  BY <1>4, <1>6 DEF ClustersIn
<1>8. QED
  BY <1>2, <1>5, <1>7

\* The chips the system starts with are sound, and no cluster is lost on them.
LEMMA LinksInit ==
  ASSUME Init
  PROVE  LinkInv
<1>1. PICK s \in Starts : FlashInit(s.chip)
  BY DEF Init
<1>2. buf = Invalid /\ cmd = AtPrompt /\ chip = s.chip /\ todo = <<>> /\ FilesInv /\ Idle
  BY <1>1, FilesInvInit DEF Init, FlashInit, Idle
<1>3. Stored = chip /\ Asked = <<>> /\ Now.todo = <<>>
  BY <1>2, Quiet
<1>4. SoundSectors(Holds(Stored))
  BY <1>2, <1>3, TablesIn, SoundStartAssumption DEF SoundSectors
<1>5. Ending = Holds(Stored)
  <2>1. \A l \in Lba : l # -1 /\ Final(l) = SectorIn(Stored, l)
    BY <1>3, Sizes, EmptySeq, AfterNone DEF Final
  <2>2. QED
    BY <1>2, <2>1 DEF Ending, Holds, Invalid
<1>6. Ordered(Now) /\ Single(Now)
  BY <1>3, NoWrites
<1>7. OwnedSectors(Holds(Stored)) /\ lostIn = {}
  <2>1. \A l \in Lba : GoodSector(l, Holds(Stored)[l])
    BY <1>2 DEF FilesInv, DiskOK, Holds
  <2>2. TableIn(s.chip) \in Table /\ DirIn(s.chip) \in Directory
    BY <1>2, <1>3, <2>1, SectorsTyped, TablesIn
  <2>3. Owned(TableIn(s.chip), DirIn(s.chip), {})
    BY <2>2, DiskOwned, WholeStartAssumption
  <2>4. QED
    BY <1>2, <1>3, <2>3, TablesIn DEF OwnedSectors, Init
<1>8. QED
  BY <1>4, <1>5, <1>6, <1>7 DEF LinkInv

\* The table and the directory are sound after every step, in what the disk will hold and, while
\* no change of the table waits, on the chip; and until there is a failure nothing is lost in it.
THEOREM LinksHold == Spec => [](FilesInv /\ LinkInv)
<1>1. Init => FilesInv /\ LinkInv
  BY FilesInvInit, LinksInit
<1>2. FilesInv /\ LinkInv /\ [Next]_vars => FilesInv' /\ LinkInv'
  BY FilesStep, LinkStep
<1>3. QED
  BY <1>1, <1>2, PTL DEF Spec

\* No cluster belongs to two files and no name to two entries (NoCrossLink of the run files),
\* for every geometry, any commands and any failures that come neither in a format nor before a
\* change of the table is on the chip: however the writes of a command fall into blocks, the
\* entries and links that a failure leaves are some of those of a sound table.
THEOREM NoCrossLinkHolds == Spec => []NoCrossLink
<1>1. FilesInv /\ LinkInv => NoCrossLink
  <2> SUFFICES ASSUME FilesInv, LinkInv, AtRest, lostIn = {},
                      NEW i \in EntriesIn(Logical), NEW j \in EntriesIn(Logical), i # j
               PROVE  /\ ClustersIn(Logical, i) \cap ClustersIn(Logical, j) = {}
                      /\ EntryIn(Logical, i).name # EntryIn(Logical, j).name
    BY DEF NoCrossLink
  <2>1. Idle /\ SoundSectors(Ending)
    BY DEF AtRest, LinkInv
  <2>2. TableIn(Logical) = TableOf(Ending) /\ DirIn(Logical) = DirOf(Ending)
    BY <2>1, LogicalIs
  <2>3. TableOf(Ending) \in Table /\ DirOf(Ending) \in Directory
    BY <2>1, Quiet, RestIs, TablesAre DEF TableAt, DirAt
  <2>4. QED
    BY <2>1, <2>2, <2>3, SoundDisk DEF SoundSectors
<1>2. QED
  BY <1>1, LinksHold, PTL

\* Without a failure every cluster in use is a file's, until the root directory was extended
\* (NoLostCluster of the run files), for every geometry and any commands: the cluster a command
\* has marked is entered or freed before the command ends, and no link is ever turned away from
\* a cluster in use.
THEOREM NoLostClusterHolds == Spec => []NoLostCluster
<1>1. FilesInv /\ LinkInv => NoLostCluster
  <2> SUFFICES ASSUME FilesInv, LinkInv, AtRest, losses = 0, Logical[LinkCell(0)] = MEDIA
               PROVE  NoneLost(Logical)
    BY DEF NoLostCluster
  <2>1. Idle /\ SoundSectors(Ending) /\ OwnedSectors(Ending)
    BY DEF AtRest, LinkInv
  <2>2. TableIn(Logical) = TableOf(Ending) /\ DirIn(Logical) = DirOf(Ending)
    BY <2>1, LogicalIs
  <2>3. TableOf(Ending) \in Table /\ DirOf(Ending) \in Directory
    BY <2>1, Quiet, RestIs, TablesAre DEF TableAt, DirAt
  <2>4. QED
    BY <2>1, <2>2, <2>3, OwnedDisk DEF SoundSectors, OwnedSectors
<1>2. QED
  BY <1>1, LinksHold, PTL
=============================================================================
