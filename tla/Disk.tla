-------------------------------- MODULE Disk --------------------------------
(***************************************************************************)
(* What the file system expects of the medium behind sd_writesector: an    *)
(* array of cells whose sectors are replaced whole, one write after the    *)
(* other in the order asked for; and what a power failure may do to it.    *)
(***************************************************************************)
EXTENDS Naturals, Sequences

CONSTANTS
  Cells,         \* the addresses
  SectorCells,   \* SectorCells[l]: the first and the last address of sector l
  Blocks,        \* the sets of cells that one failure can take away
  FF             \* the content of a lost cell

VARIABLES stored, asked

\* The file system asks for writes when it has none under way.
Ask == asked = <<>> /\ UNCHANGED stored

\* The oldest write replaces its sector and nothing else.
Write ==
  /\ asked # <<>>
  /\ LET w == Head(asked) IN
     stored' = [a \in Cells |-> IF a \in SectorCells[w.lba][1] .. SectorCells[w.lba][2]
                                THEN w.data[a - SectorCells[w.lba][1] + 1]
                                ELSE stored[a]]
  /\ asked' = Tail(asked)

\* A failure forgets the writes not made and erases cells of one block at most.
Lose ==
  /\ asked' = <<>>
  /\ \E b \in Blocks : \A a \in Cells :
       stored'[a] = stored[a] \/ (a \in b /\ stored'[a] = FF)

Next == Ask \/ Write \/ Lose
Spec == [][Next]_<<stored, asked>>
=============================================================================
