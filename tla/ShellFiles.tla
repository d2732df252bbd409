------------------------------ MODULE ShellFiles ------------------------------
(***************************************************************************)
(* The commands of shell.c that use files, over fat_filelib.c, the FAT and *)
(* the serial flash, across power failures.                                *)
(*                                                                         *)
(* Grain.  A call of the library is one action: it sets the RAM state and  *)
(* todo, the sector writes it makes, and the next call waits until SpiFlash*)
(* has made them.  Commands run in the shell's own thread, one at a time   *)
(* (a command with & behind it is not modelled).  A power failure comes    *)
(* between any two flash commands; it forgets the RAM and main starts over.*)
(*                                                                         *)
(* Left out as they change nothing that is modelled: ls, dump and cd, which*)
(* read only; the directory sector in currentsector, which is rewritten    *)
(* with every change of it and so holds what the flash holds; the data     *)
(* buffer of a file open for reading, for the same reason; last_fat_lookup,*)
(* which saves walks of the chain.  There are no directories: mkdir is     *)
(* commented out.                                                          *)
(***************************************************************************)
EXTENDS Fat, FiniteSets

CONSTANTS
  Names,        \* the files the user names
  Texts,        \* the texts of a line
  MAXOPEN,      \* FATFS_MAX_OPEN_FILES, 3
  Starts,       \* the chips the system may start with, and what their files hold
  NoFile,
  MaxCommands, MaxLosses    \* bounds

\* A line of SHELL_BUFLEN characters, 64, fits in a sector.
ASSUME LineAssumption ==
  /\ \A t \in Texts : Len(t) \in 1 .. SectorSize
  /\ MAXOPEN \in Nat /\ MaxCommands \in Nat /\ MaxLosses \in Nat

VARIABLES
  up,        \* FALSE once main has found no file system and returned
  buf,       \* the FAT buffer
  files,     \* the open files in the order they were opened; a command uses the last
  cmd,       \* the command that runs, and where it is
  out,       \* what it has read so far
  told,      \* history: what each file holds by the commands that have ended, as the
             \* library describes them
  stale,     \* history: the files of which the library keeps a content it should not
  risk,      \* history: the files a failure may have damaged
  lostIn,    \* history: what the failures interrupted
  kept,      \* history: the names rm was given
  count, losses

history == <<told, stale, risk, lostIn, kept, count, losses>>
vars == <<flashVars, up, buf, files, cmd, out, history>>

Now == [buf |-> buf, todo |-> todo]
AtPrompt == [op |-> "none", name |-> NoFile, text |-> <<>>, pc |-> "prompt", ok |-> FALSE]

-----------------------------------------------------------------------------
(* fat_filelib.c.                                                          *)

Handle(f, start, len) ==
  [name |-> f, start |-> start, len |-> len, pos |-> 0, data |-> <<>>, dirty |-> FALSE,
   changed |-> FALSE]

\* Mutant: open files are not compared.
NeverOpen(f) == FALSE

\* _check_file_open
check_file_open(f) == \E i \in DOMAIN files : files[i].name = f
NoHandle(f) == Len(files) = MAXOPEN \/ check_file_open(f)

\* The result of opening is at most one file.
open_file(w, f) ==
  LET i == fatfs_get_file_entry(w.todo, f)
  IN IF NoHandle(f) \/ i = 0 THEN [v |-> w, file |-> <<>>]
     ELSE [v |-> fatfs_fat_purge(w),
           file |-> <<Handle(f, DirEntry(w.todo, i).start, DirEntry(w.todo, i).len)>>]

\* The new cluster is marked, the name entered; without room for it the cluster is given back.
Created(added, f, c) ==
  IF added.ok THEN [v |-> fatfs_fat_purge(added.v), file |-> <<Handle(f, c, 0)>>]
  ELSE [v |-> fatfs_free_cluster_chain(added.v, c), file |-> <<>>]
CreatedAt(blank, f) ==
  IF blank.c = LAST THEN [v |-> blank.v, file |-> <<>>]
  ELSE Created(fatfs_add_file_entry(fatfs_fat_set_cluster(blank.v, blank.c, FF), f, blank.c), f, blank.c)
create_file(w, f) ==
  IF NoHandle(f) \/ fatfs_get_file_entry(w.todo, f) # 0 THEN [v |-> w, file |-> <<>>]
  ELSE CreatedAt(fatfs_find_blank_cluster(w), f)

\* fl_fopen with mode "w": FILE_ERASE is set and never tested (fat_filelib.c:735).
CreatedOrOpen(new, f) == IF new.file # <<>> THEN new ELSE open_file(new.v, f)
fopen_w(w, f) == CreatedOrOpen(create_file(w, f), f)

\* _read_sectors: sector k of the file of h; it fails at the end of the chain.
SectorOf(w, h, k) ==
  LET c == Walk(w, h.start)[k \div SECTORS_PER_CLUSTER]
  IN IF c = LAST THEN LAST ELSE fatfs_lba_of_cluster(c) + (k % SECTORS_PER_CLUSTER)
\* The walk there reads the entries of the clusters in front of it, as far as the chain goes.
WalkedTo(w, h, k) ==
  LET i == k \div SECTORS_PER_CLUSTER
      chain == Walk(w, h.start)
      last == CHOOSE j \in 0 .. i - 1 : chain[j] # LAST /\ (j + 1 < i => chain[j + 1] = LAST)
  IN IF i = 0 THEN w ELSE Loaded(w, chain[last])

\* fl_fread of n cells in front of the end of the file: as many as the chain has.
fl_fread(w, h, n) ==
  LET sector(i) == (h.pos + i - 1) \div SectorSize
      got == CHOOSE m \in 0 .. n : /\ \A i \in 1 .. m : SectorOf(w, h, sector(i)) # LAST
                                   /\ m < n => SectorOf(w, h, sector(m + 1)) = LAST
  IN [v |-> IF n = 0 THEN w ELSE WalkedTo(w, h, sector(n)),
      cells |-> [i \in 1 .. got |->
                   SectorAfter(w.todo, SectorOf(w, h, sector(i)))[((h.pos + i - 1) % SectorSize) + 1]]]

\* Mutant: the end is only behind the end.
EofBehind(h) == h.pos > h.len
fl_feof(h) == h.pos = h.len

\* fl_fputs into the first sector, which is read before a part of it is replaced.
fl_fputs(w, h, t) ==
  LET old == SectorAfter(w.todo, SectorOf(w, h, 0))
  IN [h EXCEPT !.pos = Len(t), !.dirty = TRUE,
               !.data = [i \in 1 .. SectorSize |-> IF i <= Len(t) THEN t[i] ELSE old[i]],
               !.len = IF Len(t) > @ THEN Len(t) ELSE @,
               !.changed = @ \/ Len(t) > h.len]

\* Mutant: the data stay in RAM.
NoFlush(w, h) == w

fl_fflush(w, h) == IF h.dirty THEN Asking(w, SectorOf(w, h, 0), h.data) ELSE w
NewLength(w, h) == IF h.changed THEN fatfs_update_file_length(w, h.name, h.len) ELSE w
fl_fclose(w, h) == fatfs_fat_purge(NewLength(fl_fflush(w, h), h))

\* fl_remove, which opens the file a second time to see whether it is open.
fl_remove(w, f) ==
  LET r == open_file(w, f)
  IN IF r.file = <<>> THEN r.v
     ELSE fl_fclose(fatfs_mark_file_deleted(fatfs_free_cluster_chain(r.v, r.file[1].start), f),
                    r.file[1])

-----------------------------------------------------------------------------
(* The commands.                                                           *)

Idle == up /\ todo = <<>>
At(op, pc) == Idle /\ cmd.op \in op /\ cmd.pc = pc
Goto(pc) == cmd' = [cmd EXCEPT !.pc = pc]
Take(w) == buf' = w.buf /\ todo' = w.todo /\ UNCHANGED <<chip, phase, at, src>>
Untouched == UNCHANGED <<flashVars, buf>>

file == files[Len(files)]
SetFile(h) == files' = [files EXCEPT ![Len(files)] = h]
Writers == {"put", "touch"}

\* A line arrives; put is cat with > in front of the last word.
ReadLine ==
  /\ At({"none"}, "prompt") /\ count < MaxCommands
  /\ \/ \E op \in {"cat", "run", "rm", "touch"}, f \in Names :
          cmd' = [op |-> op, name |-> f, text |-> <<>>, pc |-> "open", ok |-> FALSE]
     \/ \E f \in Names, t \in Texts :
          cmd' = [op |-> "put", name |-> f, text |-> t, pc |-> "open", ok |-> FALSE]
     \/ cmd' = [op |-> "format", name |-> NoFile, text |-> <<>>, pc |-> "format", ok |-> FALSE]
  /\ out' = <<>> /\ count' = count + 1
  /\ Untouched /\ UNCHANGED <<up, files, told, stale, risk, lostIn, kept, losses>>

\* fopen(name, "r") of cat, run (elf_execve), rm and touch.
OpenRead ==
  /\ At({"cat", "run", "rm", "touch"}, "open")
  /\ LET r == open_file(Now, cmd.name)
         found == [cat |-> "read", run |-> "load", rm |-> "remove", touch |-> "close"]
     IN /\ Take(r.v) /\ files' = files \o r.file
        /\ Goto(IF r.file # <<>> THEN found[cmd.op]
                ELSE IF cmd.op = "touch" THEN "create" ELSE "end")
  /\ UNCHANGED <<up, out, history>>

\* fopen(name, "w") of cat > and touch.
OpenWrite ==
  /\ At({"put"}, "open") \/ At({"touch"}, "create")
  /\ LET r == fopen_w(Now, cmd.name)
     IN /\ Take(r.v) /\ files' = files \o r.file
        /\ cmd' = [cmd EXCEPT !.ok = r.file # <<>>,
                              !.pc = IF r.file = <<>> THEN "end"
                                     ELSE IF cmd.op = "put" THEN "puts" ELSE "close"]
  /\ UNCHANGED <<up, out, history>>

\* The loop of cat: a character that cannot be read is printed as 0 and tried again, for ever,
\* since nobody changes the chain in the meantime.
Fgetc ==
  /\ At({"cat"}, "read")
  /\ LET r == fl_fread(Now, file, 1)
     IN IF fl_feof(file)
        THEN Goto("close") /\ Untouched /\ UNCHANGED <<files, out>>
        ELSE /\ Take(r.v) /\ out' = out \o r.cells
             /\ SetFile([file EXCEPT !.pos = @ + Len(r.cells)])
             /\ Goto(IF r.cells = <<>> THEN "spin" ELSE "read")
  /\ UNCHANGED <<up, history>>

\* elf_execve reads the whole file.  It closes it, unless it finds a second segment to load
\* and stays in a loop (elf.c:77).
LoadRead ==
  LET r == fl_fread(Now, file, file.len)
  IN /\ file.len > 0
     /\ Take(r.v) /\ out' = r.cells /\ SetFile([file EXCEPT !.pos = Len(r.cells)])
     /\ \E pc \in IF Len(r.cells) = file.len THEN {"close", "drop", "spin"} ELSE {"close"} : Goto(pc)
\* Without memory for the file there is nowhere to read it to.
LoadFails == Goto("drop") /\ Untouched /\ UNCHANGED <<files, out>>
Load == At({"run"}, "load") /\ (LoadRead \/ LoadFails) /\ UNCHANGED <<up, history>>

\* The fputs of all the words.
Fputs ==
  /\ At({"put"}, "puts")
  /\ SetFile(fl_fputs(Now, file, cmd.text))
  /\ Goto("close")
  /\ Untouched /\ UNCHANGED <<up, out, history>>

FRemove ==
  /\ At({"rm"}, "remove")
  /\ Take(fl_remove(Now, cmd.name))
  /\ cmd' = [cmd EXCEPT !.ok = TRUE, !.pc = "end"]
  /\ kept' = kept \cup {cmd.name}
  /\ UNCHANGED <<up, files, out, told, stale, risk, lostIn, count, losses>>

\* _free_file: the handle goes back whatever the writes gave.  After a malloc that failed
\* ("drop") the free behind it never returns: sem_malloc was kept (malloc.c:174), and what
\* malloc gave for a file of length 0 is no block.
Fclose ==
  /\ At({"cat", "run", "touch", "put"}, "close") \/ At({"run"}, "drop")
  /\ Take(fl_fclose(Now, file))
  /\ files' = SubSeq(files, 1, Len(files) - 1)
  /\ Goto(IF cmd.pc = "drop" THEN "spin" ELSE "end")
  /\ UNCHANGED <<up, out, history>>

\* Mutant: the FAT buffer outlives the format.
StaleFat == buf
FatAfterFormat == Invalid

Format ==
  /\ At({"format"}, "format")
  /\ buf' = FatAfterFormat /\ todo' = FormatWrites
  /\ Goto("end")
  /\ UNCHANGED <<chip, phase, at, src, up, files, out, history>>

\* A longer content is not erased, a removed one stays.
Outlives(f) == told[f] # NoFile /\ Len(told[f]) > Len(cmd.text)

\* The command ends: the prompt comes back.
Return ==
  /\ Idle /\ cmd.pc = "end"
  /\ CASE cmd.op = "format" -> told' = [f \in Names |-> NoFile] /\ stale' = {}
       [] cmd.op \in Writers /\ cmd.ok ->
            /\ told' = [told EXCEPT ![cmd.name] = IF cmd.name \in risk THEN NoFile ELSE cmd.text]
            /\ stale' = IF Outlives(cmd.name) THEN stale \cup {cmd.name} ELSE stale
       [] cmd.op = "rm" /\ cmd.ok ->
            told' = [told EXCEPT ![cmd.name] = NoFile] /\ stale' = stale \cup {cmd.name}
       [] OTHER -> UNCHANGED <<told, stale>>
  /\ risk' = IF cmd.op = "format" THEN {} ELSE risk
  /\ lostIn' = IF cmd.op = "format" THEN {} ELSE lostIn
  /\ cmd' = AtPrompt /\ out' = <<>>
  /\ Untouched /\ UNCHANGED <<up, files, kept, count, losses>>

ShellStep == OpenRead \/ OpenWrite \/ Fgetc \/ Load \/ Fputs \/ FRemove \/ Fclose \/ Format \/ Return

-----------------------------------------------------------------------------
(* What is on the disk d, read by the definition of the format.            *)

EntryIn(d, i) == d[SectorStart(rootdir_first_sector) + i - 1]
EntriesIn(d) == {i \in Slot : IsEntry(EntryIn(d, i))}
LinkCell(c) == SectorStart(fat_begin_lba) + c

\* The clusters of the file in slot i, in order.
ChainIn(d, i) ==
  LET w[k \in 0 .. Cardinality(Cluster)] ==
        IF k = 0 THEN <<EntryIn(d, i).start>>
        ELSE LET c == w[k - 1]
                 next == Link(d[LinkCell(c[Len(c)])])
             IN IF Len(c) < k \/ next \in {LAST, 0} THEN c ELSE Append(c, next)
  IN w[Cardinality(Cluster)]
ClustersIn(d, i) == {ChainIn(d, i)[k] : k \in DOMAIN ChainIn(d, i)}

ClusterRange(c) == SectorStart(fatfs_lba_of_cluster(c)) ..
                   SectorStart(fatfs_lba_of_cluster(c + 1)) - 1
CellsIn(d, i) ==
  {SectorStart(rootdir_first_sector) + i - 1} \cup {LinkCell(c) : c \in ClustersIn(d, i)}
    \cup UNION {ClusterRange(c) : c \in ClustersIn(d, i)}

ClusterSize == SECTORS_PER_CLUSTER * SectorSize

\* The content of the file in slot i; not a text if its chain is too short.
ContentIn(d, i) ==
  LET e == EntryIn(d, i)
      chain == ChainIn(d, i)
  IN IF e.len > Len(chain) * ClusterSize THEN Garbled
     ELSE [k \in 1 .. e.len |->
             d[SectorStart(fatfs_lba_of_cluster(chain[((k - 1) \div ClusterSize) + 1]))
               + ((k - 1) % ClusterSize)]]

\* The chips the system starts with have been formatted, and hold files.
Entry == [name : Names, start : Cluster \ {0, 1}, len : 0 .. FAT_SECTORS * SectorSize * ClusterSize]
\* The entry of a file looks like no blank, deleted or erased one: it begins with its name.
ASSUME EntryAssumption == {ZERO, DEL, FF, Garbled} \cap Entry = {}
IsVolume(d) ==
  /\ d = [a \in Addr |-> d[a]] /\ d[SectorStart(0)] = BPB /\ d[SectorStart(0) + SectorSize - 1] = SIG
  /\ \A c \in Cluster : d[LinkCell(c)] \in {ZERO, FF, MEDIA} \cup (Cluster \ {0, 1})
  /\ d[LinkCell(0)] # ZERO /\ d[LinkCell(1)] # ZERO
  /\ \A i \in Slot : EntryIn(d, i) \in {ZERO, DEL, FF} \cup Entry
ASSUME StartAssumption == \A s \in Starts : IsVolume(s.chip)

\* In the table E under the directory D no cluster is referred to twice, by the entries of
\* files and the links of the table, none that is referred to is free, and no name is entered
\* twice.
Sound(E, D) ==
  /\ \A i, j \in Slot : IsEntry(D[i]) /\ IsEntry(D[j]) /\ i # j =>
       D[i].start # D[j].start /\ D[i].name # D[j].name
  /\ \A k, l \in Cluster : k # l => Link(E[k]) # Link(E[l]) \/ Link(E[k]) \in {LAST, 0}
  /\ \A i \in Slot, k \in Cluster : IsEntry(D[i]) => Link(E[k]) # D[i].start
  /\ \A i \in Slot : IsEntry(D[i]) => E[D[i].start] # ZERO
  /\ \A k \in Cluster : Link(E[k]) \in {LAST, 0} \/ E[Link(E[k])] # ZERO
TableIn(d) == [c \in Cluster |-> d[LinkCell(c)]]
DirIn(d) == [i \in Slot |-> EntryIn(d, i)]
ASSUME SoundStartAssumption == \A s \in Starts : Sound(TableIn(s.chip), DirIn(s.chip))

\* The clusters in use are those of files; in a volume whose root directory was never extended
\* they all are.
NoneLost(d) ==
  {c \in Cluster \ {0, 1} : d[LinkCell(c)] # ZERO} = UNION {ClustersIn(d, i) : i \in EntriesIn(d)}
ASSUME WholeStartAssumption == \A s \in Starts : s.chip[LinkCell(0)] = MEDIA => NoneLost(s.chip)

SlotsIn(d, f) == {i \in EntriesIn(d) : EntryIn(d, i).name = f}
FileIn(d, f) == IF SlotsIn(d, f) = {} THEN NoFile ELSE ContentIn(d, CHOOSE i \in SlotsIn(d, f) : TRUE)

-----------------------------------------------------------------------------
(* Power failures.                                                         *)

\* The files that a failure now may damage: those with a cell that is erased and not
\* programmed yet, and the one that is being written.
Endangered ==
  {f \in Names : \E i \in SlotsIn(Stored, f) : CellsIn(Stored, i) \cap InFlight # {}}
    \cup (IF cmd.op = "format" THEN Names ELSE IF cmd.op \in Writers THEN {cmd.name} ELSE {})

\* A change of the FAT that has not reached the chip.
FatPending == \/ buf.dirty
              \/ \E i \in DOMAIN todo : todo[i].lba \in fat_begin_lba .. fat_begin_lba + FAT_SECTORS - 1

\* What the failure comes in the middle of: only the creation of a file changes the FAT.  In a
\* full root directory it ends with the change of the FAT still in RAM.
Interrupted ==
  IF cmd.op = "format" THEN {"format"} ELSE IF FatPending THEN {"create"} ELSE {}

\* main starts over: fl_init and fl_attach_media.
PowerLoss ==
  /\ up /\ losses < MaxLosses
  /\ risk' = risk \cup Endangered
  /\ lostIn' = lostIn \cup Interrupted
  /\ FlashLoss
  /\ up' = fatfs_init_ok
  /\ buf' = Invalid /\ files' = <<>> /\ cmd' = AtPrompt /\ out' = <<>> /\ kept' = {}
  /\ losses' = losses + 1
  /\ UNCHANGED <<told, stale, count>>

FlashWrites == FlashStep /\ UNCHANGED <<up, buf, files, cmd, out, history>>

-----------------------------------------------------------------------------

Init ==
  /\ \E s \in Starts : FlashInit(s.chip) /\ told = s.told
  /\ up = TRUE /\ buf = Invalid /\ files = <<>> /\ cmd = AtPrompt /\ out = <<>>
  /\ stale = {} /\ risk = {} /\ lostIn = {} /\ kept = {} /\ count = 0 /\ losses = 0

Next == ReadLine \/ ShellStep \/ FlashWrites \/ PowerLoss

\* When ShellStep is enabled; all its steps change something.
ShellReady == Idle /\ cmd.pc \notin {"prompt", "spin"}

\* The shell's thread runs again and again (weak fairness of ShellStep, with its ENABLED
\* written out), and the chip ends every command it is given.
ShellRuns == []<>~ShellReady \/ []<><<ShellStep>>_vars
Spec == Init /\ [][Next]_vars /\ ShellRuns /\ WF_vars(FlashWrites)

-----------------------------------------------------------------------------
(* Properties.                                                             *)

FilesTypeOK ==
  /\ up \in BOOLEAN
  /\ phase \in {"idle", "erase", "program"} /\ DOMAIN chip = Addr
  /\ buf.dirty => buf.lba \in fat_begin_lba .. fat_begin_lba + FAT_SECTORS - 1
  /\ Len(files) <= MAXOPEN
  /\ \A i \in DOMAIN todo : todo[i].lba \in Lba /\ Len(todo[i].data) = SectorSize
  /\ stale \subseteq Names /\ risk \subseteq Names /\ kept \subseteq Names
  /\ count <= MaxCommands /\ losses <= MaxLosses

AtRest == Idle /\ cmd = AtPrompt

\* The disk with the FAT sector that is in RAM only.
Logical == [a \in Addr |-> IF buf.dirty /\ a \in SectorRange(buf.lba)
                          THEN buf.data[a - SectorStart(buf.lba) + 1] ELSE chip[a]]

\* No cluster belongs to two files and no name to two entries, unless a failure struck a
\* format or came before a new link of the FAT was on the chip (a directory entry is written
\* before the FAT entry of its cluster, fat_filelib.c:519).
NoCrossLink ==
  AtRest /\ lostIn = {} =>
    \A i, j \in EntriesIn(Logical) : i # j =>
      /\ ClustersIn(Logical, i) \cap ClustersIn(Logical, j) = {}
      /\ EntryIn(Logical, i).name # EntryIn(Logical, j).name

\* Without a failure every used cluster belongs to a file, until the root directory is full:
\* its extension is linked behind entry 0 of the FAT, where nobody finds it (fat_write.c:236).
NoLostCluster ==
  AtRest /\ losses = 0 /\ Logical[LinkCell(0)] = MEDIA => NoneLost(Logical)

Shares(f) == \E i \in SlotsIn(Logical, f), j \in EntriesIn(Logical) :
               i # j /\ ClustersIn(Logical, i) \cap ClustersIn(Logical, j) # {}

\* The content c agrees with the commands given for f; of a file that should have been erased
\* or removed, in that it begins with what was written last.
AgreesWith(c, f) ==
  IF f \notin stale THEN c = told[f]
  ELSE told[f] # NoFile => /\ c \notin {NoFile, Garbled} /\ Len(c) >= Len(told[f])
                           /\ SubSeq(c, 1, Len(told[f])) = told[f]

\* At the prompt the disk holds of every file what the commands that ended said, whatever
\* failed in between, except for the files a failure struck, those that share a cluster
\* with them, and what a file keeps behind its new content (ContentErased) or after its
\* removal (rm removes nothing).
FilesSurvive ==
  AtRest => \A f \in Names \ risk : Shares(f) \/ AgreesWith(FileIn(Logical, f), f)

\* cat and run read what the commands before them wrote, with the same exceptions.
ReadsBack ==
  up /\ cmd.op \in {"cat", "run"} /\ cmd.pc = "close" /\ cmd.name \notin risk =>
    AgreesWith(out, cmd.name) \/ Shares(cmd.name)

\* What the comment of fl_fopen says of mode "w": "its content is erased and the file is
\* treated as a new empty file" (fat_filelib.c:710), so that the file holds what was written
\* last and no more.
ContentErased ==
  AtRest /\ losses = 0 => \A f \in Names : told[f] # NoFile => FileIn(Logical, f) = told[f]

\* A FAT sector in RAM that is not marked dirty is the one on the disk (fat_table.c:134);
\* a format must not leave the old one.
FatBufferCoherent ==
  Idle /\ buf.lba # Invalid.lba /\ ~buf.dirty => buf.data = SPI_Flash_Read(SectorStart(buf.lba), SectorSize)

\* At the prompt the handles in use are those of the files that rm was given: every other
\* command gives back what it opened, on every path (shell.c:337).
HandlesAccounted ==
  AtRest => Len(files) = Cardinality(kept) /\ {files[i].name : i \in DOMAIN files} = kept

\* The board comes up again after a failure, unless that struck a format: what is erased
\* to write a FAT, the root directory or a file never holds the boot sector.
StillBoots == ~up => "format" \in lostIn

\* Every command comes to its end, but for a cat of a file that a failure damaged, whose
\* chain may be cut short so that the end of the file is never reached, and for a run that
\* finds no memory or two segments in its program.
MayHang == cmd.op = "run" \/ (cmd.op = "cat" /\ (cmd.name \in risk \/ Shares(cmd.name)))
CommandEnds == (cmd # AtPrompt) ~> (cmd = AtPrompt \/ (cmd.pc = "spin" /\ MayHang))
=============================================================================
