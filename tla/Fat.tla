--------------------------------- MODULE Fat ---------------------------------
(***************************************************************************)
(* The FAT16 structures of fat32/Src on the serial flash: the buffered     *)
(* allocation table (fat_table.c), allocation (fat_write.c), the root      *)
(* directory (fat_access.c, fat_write.c) and formatting (fat_format.c), as *)
(* operators on v = [buf |-> the FAT buffer, todo |-> the writes asked].   *)
(*                                                                         *)
(* sd_readsector and sd_writesector always answer 1 and wait for the chip, *)
(* so a call of the library is the list of the sector writes it makes: it  *)
(* reads what it has written itself, and the call returns once SpiFlash    *)
(* has made the last of them.                                              *)
(*                                                                         *)
(* A cell of the root directory is the pair of entries (long name, short   *)
(* name) of a file; both lie in one sector, since every pair has two of    *)
(* the 16 entries of a sector (names of up to 13 characters).              *)
(***************************************************************************)
EXTENDS SpiFlash

CONSTANTS
  SECTORS_PER_CLUSTER,  \* 2 in the code, for the 31250 sectors shell.c formats
  RESERVED,             \* sectors in front of the first FAT, 8
  NUM_FATS,             \* 2; only the first is ever read
  FAT_SECTORS,          \* 62
  ROOT_SECTORS,         \* 32
  ZERO, MEDIA, BPB, SIG, DEL  \* the cells 00, F8 FF, boot parameters, 55 AA, a deleted entry

\* Mutant: the FAT follows the boot sector.
NoneReserved == 1
fat_begin_lba == RESERVED
rootdir_first_sector == RESERVED + NUM_FATS * FAT_SECTORS
fatfs_lba_of_cluster(c) == rootdir_first_sector + ROOT_SECTORS + (c - 2) * SECTORS_PER_CLUSTER

Cluster == 0 .. FAT_SECTORS * SectorSize - 1    \* the entries of the table
LAST == -1                                      \* FAT32_LAST_CLUSTER
\* Mutant: the second FAT is used.
SecondFat(c) == fat_begin_lba + FAT_SECTORS + c \div SectorSize
FatLba(c) == fat_begin_lba + c \div SectorSize
Slot == 1 .. ROOT_SECTORS * SectorSize          \* the entries of the root directory

\* The boot sector shares no block with a FAT, and the chip has the clusters of the table:
\* 8 sectors are 4096 bytes, and the 15870 clusters of 62 FAT sectors end in front of
\* sector 32768 of the W25Q128.
ASSUME LayoutAssumption ==
  /\ {SECTORS_PER_CLUSTER, RESERVED, NUM_FATS, FAT_SECTORS, ROOT_SECTORS} \subseteq Nat \ {0}
  /\ SectorSize > 1 /\ FAT_SECTORS * SectorSize > 2
  /\ BlockSize <= SectorStart(RESERVED)
  /\ fatfs_lba_of_cluster(FAT_SECTORS * SectorSize) <= (BlockSize * NBlock) \div SectorSize

\* A free entry of the table looks like no other.
ASSUME MarkAssumption == ZERO \notin {FF, MEDIA} \cup Cluster

\* No number of a cluster looks like the end of a chain: there are 15870 clusters, and the
\* marks begin at FFF8.
ASSUME EndAssumption == {FF, MEDIA, Garbled} \cap Cluster = {}

Invalid == [lba |-> -1, data |-> <<>>, dirty |-> FALSE]   \* fatfs_fat_init

Zeros == [i \in 1 .. SectorSize |-> ZERO]
WriteOf(l, data) == [lba |-> l, data |-> data]

\* Sector l after the writes td.
SectorAfter(td, l) ==
  IF \E i \in DOMAIN td : td[i].lba = l
  THEN td[CHOOSE i \in DOMAIN td : td[i].lba = l /\ \A j \in DOMAIN td : td[j].lba = l => j <= i].data
  ELSE SPI_Flash_Read(SectorStart(l), SectorSize)

Asking(v, l, data) == [v EXCEPT !.todo = Append(@, WriteOf(l, data))]

-----------------------------------------------------------------------------
(* fat_table.c.                                                            *)

\* Mutant: the buffer is given up without being written.
DroppedBack(v) == [v EXCEPT !.buf.dirty = FALSE]

fatfs_fat_writeback(v) ==
  IF v.buf.dirty THEN [Asking(v, v.buf.lba, v.buf.data) EXCEPT !.buf.dirty = FALSE] ELSE v

\* One buffer (FAT_BUFFERS): the purge writes it back and keeps it.
fatfs_fat_purge(v) == fatfs_fat_writeback(v)

\* Load FAT sector l, writing back the one it replaces.
fatfs_fat_read_sector(v, l) ==
  IF v.buf.lba = l THEN v
  ELSE LET w == fatfs_fat_writeback(v)
       IN [w EXCEPT !.buf = [lba |-> l, data |-> SectorAfter(w.todo, l), dirty |-> FALSE]]

Loaded(v, c) == fatfs_fat_read_sector(v, FatLba(c))
EntryOf(v, c) == Loaded(v, c).buf.data[(c % SectorSize) + 1]

fatfs_fat_set_cluster(v, c, n) ==
  [Loaded(v, c) EXCEPT !.buf.data[(c % SectorSize) + 1] = n, !.buf.dirty = TRUE]

\* FFF8 to FFFF end a chain; an entry of zeros reads as cluster 0.
Link(entry) == CASE entry \in {FF, MEDIA, Garbled} -> LAST
                 [] entry = ZERO -> 0
                 [] OTHER -> entry

fatfs_find_next_cluster(v, c) == Link(EntryOf(v, IF c = 0 THEN 2 ELSE c))

Blank(v) == {c \in Cluster : EntryOf(v, c) = ZERO}
LowestBlank(v) == CHOOSE c \in Blank(v) : \A d \in Blank(v) : c <= d

\* The scan begins at entry 0, which loads FAT sector 0 and then the others up to the one
\* of the entry found; it leaves the buffer there.
fatfs_find_blank_cluster(v) ==
  LET w == Loaded(v, 0)
  IN IF Blank(v) = {} THEN [v |-> fatfs_fat_read_sector(w, fat_begin_lba + FAT_SECTORS - 1), c |-> LAST]
     ELSE [v |-> Loaded(w, LowestBlank(v)), c |-> LowestBlank(v)]

\* The clusters reached from c: c itself, then the links behind it.
Walk(v, c) ==
  LET w[i \in 0 .. FAT_SECTORS * SectorSize] ==
        IF i = 0 THEN c
        ELSE IF w[i - 1] = LAST THEN LAST ELSE fatfs_find_next_cluster(v, w[i - 1])
  IN w

\* fatfs_free_cluster_chain, which stops at LAST or at 0.
fatfs_free_cluster_chain(v, c) ==
  LET chain == Walk(v, c)
      f[i \in 0 .. FAT_SECTORS * SectorSize] ==
        IF i = 0 THEN v
        ELSE IF \E j \in 0 .. i - 1 : chain[j] \in {LAST, 0} THEN f[i - 1]
        ELSE fatfs_fat_set_cluster(Loaded(f[i - 1], chain[i - 1]), chain[i - 1], ZERO)
  IN f[FAT_SECTORS * SectorSize]

\* The entries of the chain of c are read in turn, up to LAST or to a link that is 0.
Visited(v, c) ==
  LET chain == Walk(v, c)
      r[i \in 0 .. FAT_SECTORS * SectorSize] ==
        IF i = 0 THEN v
        ELSE IF \E j \in 0 .. i - 1 : chain[j] = LAST \/ (j > 0 /\ chain[j] = 0) THEN r[i - 1]
        ELSE Loaded(r[i - 1], IF chain[i - 1] = 0 THEN 2 ELSE chain[i - 1])
  IN r[FAT_SECTORS * SectorSize]

\* Entry n goes to the end of the chain of c; FALSE in ok when a link is 0.
fatfs_fat_add_cluster_to_chain(v, c, n) ==
  LET chain == Walk(v, c)
      w == Visited(v, c)
      ends == {i \in DOMAIN chain \ {0} : chain[i] = LAST /\ \A j \in 1 .. i : chain[j] # 0}
  IN IF ends = {} THEN [v |-> w, ok |-> FALSE]
     ELSE LET last == chain[(CHOOSE i \in ends : \A j \in ends : i <= j) - 1]
          IN [v |-> fatfs_fat_set_cluster(fatfs_fat_set_cluster(w, last, n), n, FF), ok |-> TRUE]

-----------------------------------------------------------------------------
(* The root directory.                                                     *)

SlotLba(i) == rootdir_first_sector + (i - 1) \div SectorSize
DirEntry(td, i) == SectorAfter(td, SlotLba(i))[((i - 1) % SectorSize) + 1]

\* fatfs_entry_sfn_only: neither blank nor deleted, and an erased entry looks like the text
\* of a long name.
IsEntry(cell) == cell \notin {ZERO, DEL, FF, Garbled}

SlotsOf(td, f) == {i \in Slot : IsEntry(DirEntry(td, i)) /\ DirEntry(td, i).name = f}

\* fatfs_get_file_entry: the first slot with the name, 0 if there is none.
fatfs_get_file_entry(td, f) ==
  IF SlotsOf(td, f) = {} THEN 0 ELSE CHOOSE i \in SlotsOf(td, f) : \A j \in SlotsOf(td, f) : i <= j

\* Write a new content of slot i.
SetEntry(v, i, cell) ==
  Asking(v, SlotLba(i), [SectorAfter(v.todo, SlotLba(i)) EXCEPT ![((i - 1) % SectorSize) + 1] = cell])

\* The slots a search for free space may stop at: blank ones and those of deleted files.
Vacant(td) == {i \in Slot : DirEntry(td, i) \in {ZERO, DEL}}

\* The first slot of the run of erased ones that ends in front of slot i: erased entries
\* count as space, but do not end the search.
RunBefore(td, i) == CHOOSE j \in 1 .. i : /\ \A k \in j .. i - 1 : DirEntry(td, k) = FF
                                          /\ j > 1 => DirEntry(td, j - 1) # FF

\* The sectors of the new cluster c are cleared.
Cleared(v, c) ==
  LET z[i \in 0 .. SECTORS_PER_CLUSTER] ==
        IF i = 0 THEN v ELSE Asking(z[i - 1], fatfs_lba_of_cluster(c) + i - 1, Zeros)
  IN z[SECTORS_PER_CLUSTER]

\* A full root directory is extended by the blank cluster as if it were a chain; the entry
\* then has no sector to go to, unless the directory ends in erased slots: slot i is the
\* first of them.
EnteredBehind(added, cell, c, i) ==
  IF ~added.ok THEN added
  ELSE IF i \in Slot THEN [v |-> SetEntry(Cleared(added.v, c), i, cell), ok |-> TRUE]
       ELSE [v |-> Cleared(added.v, c), ok |-> FALSE]
Extended(blank, cell) ==
  IF blank.c = LAST THEN [v |-> blank.v, ok |-> FALSE]
  ELSE EnteredBehind(fatfs_fat_add_cluster_to_chain(blank.v, 0, blank.c), cell, blank.c,
                     RunBefore(blank.v.todo, 1 + ROOT_SECTORS * SectorSize))

\* fatfs_find_free_dir_offset and fatfs_add_file_entry.
fatfs_add_file_entry(v, f, start) ==
  LET cell == [name |-> f, start |-> start, len |-> 0]
      i == CHOOSE i \in Vacant(v.todo) : \A j \in Vacant(v.todo) : i <= j
  IN IF Vacant(v.todo) # {} THEN [v |-> SetEntry(v, RunBefore(v.todo, i), cell), ok |-> TRUE]
     ELSE Extended(fatfs_find_blank_cluster(v), cell)

\* fatfs_update_file_length and fatfs_mark_file_deleted.
fatfs_update_file_length(v, f, len) ==
  LET i == fatfs_get_file_entry(v.todo, f)
  IN IF i = 0 THEN v ELSE SetEntry(v, i, [DirEntry(v.todo, i) EXCEPT !.len = len])
fatfs_mark_file_deleted(v, f) ==
  LET i == fatfs_get_file_entry(v.todo, f) IN IF i = 0 THEN v ELSE SetEntry(v, i, DEL)

-----------------------------------------------------------------------------
(* fat_format.c.                                                           *)

BootSector == [i \in 1 .. SectorSize |-> CASE i = 1 -> BPB [] i = SectorSize -> SIG [] OTHER -> ZERO]
FirstFat == [i \in 1 .. SectorSize |-> CASE i = 1 -> MEDIA [] i = 2 -> FF [] OTHER -> ZERO]

\* fatfs_format_fat16: the boot sector, every FAT, the root directory.
FormatWrites ==
  [i \in 1 .. 1 + NUM_FATS * FAT_SECTORS + ROOT_SECTORS |->
     CASE i = 1 -> WriteOf(0, BootSector)
       [] i = 2 -> WriteOf(fat_begin_lba, FirstFat)
       [] OTHER -> WriteOf(fat_begin_lba + i - 2, Zeros)]

\* fatfs_init: the parameters and the signature, without which the system does not start.
fatfs_init_ok == chip[SectorStart(0)] = BPB /\ chip[SectorStart(0) + SectorSize - 1] = SIG
=============================================================================
