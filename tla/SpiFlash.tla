------------------------------ MODULE SpiFlash ------------------------------
(***************************************************************************)
(* The serial flash of w25q/Src/w25qxxx.c: the chip, and SPI_Flash_Write,  *)
(* which the file system reaches through sd_writesector and disk_write.    *)
(*                                                                         *)
(* Grain.  One action per command that changes the chip: the erasure of a  *)
(* 4 kB block and the programming of a page.  The driver waits for the end *)
(* of each (SPI_Flash_Wait_Busy), so nothing overlaps with it.  A power    *)
(* failure comes between two commands: the charge of the board is taken to *)
(* last for the one under way.                                             *)
(*                                                                         *)
(* A cell stands for the bytes of half a sector, or for one entry of a FAT *)
(* or directory sector: whatever is written and tested as a whole.         *)
(***************************************************************************)
EXTENDS Integers, Sequences

CONSTANTS
  PageSize,     \* cells of a page, 256 bytes in the code
  SectorSize,   \* cells of a sector, 512 bytes
  BlockSize,    \* cells of an erasable block, 4096 bytes
  NBlock,       \* blocks of the chip
  FF,           \* the content of an erased cell
  Garbled       \* the content of a cell programmed over another one

ASSUME SizeAssumption ==
  /\ PageSize \in Nat \ {0} /\ SectorSize \in Nat \ {0} /\ BlockSize \in Nat \ {0}
  /\ NBlock \in Nat \ {0}
  /\ BlockSize % SectorSize = 0

Addr == 0 .. BlockSize * NBlock - 1
Lba == 0 .. (BlockSize * NBlock) \div SectorSize - 1
SectorStart(l) == l * SectorSize
SectorRange(l) == SectorStart(l) .. SectorStart(l) + SectorSize - 1
BlockStart(a) == (a \div BlockSize) * BlockSize
BlockRange(a) == BlockStart(a) .. BlockStart(a) + BlockSize - 1

VARIABLES
  chip,    \* [Addr -> cell]
  todo,    \* the sector writes asked for and not finished, oldest first
  phase,   \* where SPI_Flash_Write is: "idle", "erase", "program"
  at, src  \* SPI_Flash_Write_NoCheck: WriteAddr, and the cells still to be programmed

flashVars == <<chip, todo, phase, at, src>>

\* The n cells from address a on.
SPI_Flash_Read(a, n) == [i \in 1 .. n |-> chip[a + i - 1]]

\* Something is in the way of a sector at address a.
MustErase(a) == \E i \in 0 .. SectorSize - 1 : chip[a + i] # FF

WriteAddr == SectorStart(Head(todo).lba)

\* SPI_Flash_Write up to the choice between the two ways of writing.
WriteBegin ==
  /\ phase = "idle" /\ todo # <<>>
  /\ \/ MustErase(WriteAddr) /\ phase' = "erase" /\ UNCHANGED <<at, src>>
     \/ ~MustErase(WriteAddr) /\ phase' = "program"
        /\ at' = WriteAddr /\ src' = Head(todo).data
  /\ UNCHANGED <<chip, todo>>

\* Mutants: the block is rewritten as it was; the sector goes to the head of the block.
NotCopied(a, data) == SPI_Flash_Read(BlockStart(a), BlockSize)
WrongOffset(a, data) == [i \in 1 .. BlockSize |-> IF i \in 1 .. SectorSize THEN data[i]
                                                  ELSE chip[BlockStart(a) + i - 1]]

\* SPI_FLASH_BUF: the block of address a as read, with the new sector copied into it.
SPI_FLASH_BUF(a, data) ==
  [i \in 1 .. BlockSize |-> LET b == BlockStart(a) + i - 1
                            IN IF b \in a .. a + SectorSize - 1 THEN data[b - a + 1] ELSE chip[b]]

SPI_Flash_Erase_Sector ==
  /\ phase = "erase"
  /\ chip' = [a \in Addr |-> IF a \in BlockRange(WriteAddr) THEN FF ELSE chip[a]]
  /\ phase' = "program"
  /\ at' = BlockStart(WriteAddr)
  /\ src' = SPI_FLASH_BUF(WriteAddr, Head(todo).data)
  /\ UNCHANGED todo

\* Programming clears bits and sets none.
Programmed(old, new) == IF old = FF THEN new ELSE IF new = FF THEN old ELSE Garbled

\* pageremain of SPI_Flash_Write_NoCheck: what is left of the page, or of the data.
pageremain == LET room == PageSize - (at % PageSize) IN IF Len(src) <= room THEN Len(src) ELSE room

\* The address within the page that the chip gives the i-th cell sent: it wraps at the
\* end of the page.
PageAddr(i) == (at \div PageSize) * PageSize + ((at + i) % PageSize)

SPI_Flash_Write_Page ==
  /\ phase = "program"
  /\ chip' = [a \in Addr |->
                IF \E i \in 0 .. pageremain - 1 : a = PageAddr(i)
                THEN LET i == CHOOSE i \in 0 .. pageremain - 1 : a = PageAddr(i)
                     IN Programmed(chip[a], src[i + 1])
                ELSE chip[a]]
  /\ src' = SubSeq(src, pageremain + 1, Len(src))
  /\ \/ pageremain < Len(src) /\ at' = at + pageremain /\ UNCHANGED <<phase, todo>>
     \/ pageremain = Len(src) /\ at' = 0 /\ phase' = "idle" /\ todo' = Tail(todo)

FlashStep == WriteBegin \/ SPI_Flash_Erase_Sector \/ SPI_Flash_Write_Page

\* The supply fails: the writes that were asked for are forgotten, the chip stays.
FlashLoss ==
  /\ todo' = <<>> /\ phase' = "idle" /\ at' = 0 /\ src' = <<>>
  /\ UNCHANGED chip

FlashInit(content) ==
  /\ chip = content
  /\ todo = <<>> /\ phase = "idle" /\ at = 0 /\ src = <<>>

-----------------------------------------------------------------------------
(* What the driver promises.                                               *)

\* The cells that are erased and wait to be programmed.
InFlight == IF phase = "program" THEN at .. at + Len(src) - 1 ELSE {}

\* The array the driver implements: a write counts from the moment its block is erased,
\* or its first page is sent.
Stored == [a \in Addr |-> IF a \in InFlight THEN src[a - at + 1] ELSE chip[a]]

Medium == INSTANCE Disk WITH
  Cells <- Addr,
  SectorCells <- [l \in Lba |-> <<SectorStart(l), SectorStart(l) + SectorSize - 1>>],
  Blocks <- {BlockRange(a) : a \in Addr},
  stored <- Stored,
  asked <- IF phase = "program" THEN Tail(todo) ELSE todo

\* Every write replaces its sector and nothing else, whatever has to be erased for it, and
\* a failure takes cells of one block at most (SPI_Flash_Write, w25qxxx.c:118).
DiskSpec == Medium!Spec
=============================================================================
