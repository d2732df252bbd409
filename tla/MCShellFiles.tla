---------------------------- MODULE MCShellFiles ----------------------------
EXTENDS ShellFiles, TLC, SequencesExt
CONSTANTS prog, note, more, u1, u2, u3
MCNames == {prog, note, more}
MCTexts == {<<u2, u3>>}

\* The chip after the writes ws to chip d.
AfterWrites(d, ws) ==
  FoldSeq(LAMBDA w, c : [a \in Addr |-> IF a \in SectorRange(w.lba)
                                       THEN w.data[a - SectorStart(w.lba) + 1] ELSE c[a]], d, ws)

\* A formatted chip, and the file prog on clusters 2 and 3.
Formatted == AfterWrites([a \in Addr |-> FF], FormatWrites)
WithProg == ((SectorStart(fat_begin_lba) + 2) :> 3) @@ ((SectorStart(fat_begin_lba) + 3) :> FF)
         @@ (SectorStart(rootdir_first_sector) :> [name |-> prog, start |-> 2, len |-> 3])
         @@ (SectorStart(fatfs_lba_of_cluster(2)) :> u1)
         @@ ((SectorStart(fatfs_lba_of_cluster(2)) + 1) :> u2)
         @@ (SectorStart(fatfs_lba_of_cluster(3)) :> u3)
         @@ Formatted
\* The directory has room for one more file.
MCStarts == {[chip |-> WithProg,
              told |-> (prog :> <<u1, u2, u3>>) @@ (note :> NoFile) @@ (more :> NoFile)]}
=============================================================================
