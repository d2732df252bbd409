---------------------------- MODULE SpiFlashProofs ----------------------------
(***************************************************************************)
(* SPI_Flash_Write implements an array of sectors: proved for every size   *)
(* of a page, a sector, a block and the chip, whatever writes are asked    *)
(* for, with power failures between any two commands.                      *)
(***************************************************************************)
EXTENDS SpiFlash, SequenceTheorems, TLAPS

\* What a cell of the chip may hold when Cell is what the caller writes into it.
Content(Cell) == Cell \cup {FF, Garbled}

\* What is handed to sd_writesector: a sector of the chip and its new cells.
SectorWrite(Cell) == [lba : Lba, data : [1 .. SectorSize -> Cell]]

\* The caller waits for the writes it has asked for and asks for any others.
Asks(Cell) ==
  /\ todo = <<>> /\ phase = "idle" /\ todo' \in Seq(SectorWrite(Cell))
  /\ UNCHANGED <<chip, phase, at, src>>

\* The driver under any caller, with power failures.
FlashSpec(Cell) ==
  /\ \E content \in [Addr -> Content(Cell)] : FlashInit(content)
  /\ [][Asks(Cell) \/ FlashStep \/ FlashLoss]_flashVars

-----------------------------------------------------------------------------
(* Addresses.                                                              *)

\* Products associate.
LEMMA ProductAssociates ==
  ASSUME NEW a \in Nat, NEW b \in Nat, NEW c \in Nat
  PROVE  a * (b * c) = (a * b) * c /\ a * b \in Nat
  OBVIOUS

\* A quotient bounds its dividend.
LEMMA DivBounds ==
  ASSUME NEW a \in Nat, NEW d \in Nat \ {0}
  PROVE  a \div d \in Nat /\ (a \div d) * d \in Nat /\ (a \div d) * d <= a /\ a < (a \div d) * d + d
<1>1. a \div d \in Nat
  OBVIOUS
<1>2. (a \div d) * d <= a /\ a < (a \div d) * d + d
  OBVIOUS
<1>3. \A q \in Nat : q * d \in Nat
  OBVIOUS
<1>4. QED
  BY <1>1, <1>2, <1>3

\* A number is its quotient and its remainder.
LEMMA DivMod ==
  ASSUME NEW a \in Nat, NEW d \in Nat \ {0}, NEW q \in Nat, NEW m \in Nat, a \div d = q, m = q * d
  PROVE  a % d = a - m
  OBVIOUS

\* There is one quotient and one remainder.
LEMMA ModUnique ==
  ASSUME NEW a \in Nat, NEW d \in Nat \ {0}, NEW q \in Nat, NEW r \in 0 .. d - 1, q * d + r = a
  PROVE  a \div d = q /\ a % d = r
  OBVIOUS

\* Going on within a page does not wrap.
LEMMA ModGoesOn ==
  ASSUME NEW a \in Nat, NEW d \in Nat \ {0}, NEW i \in Nat, i < d - (a % d)
  PROVE  (a \div d) * d + ((a + i) % d) = a + i
<1>1. PICK q \in Nat, m \in Nat : q = a \div d /\ m = q * d /\ m <= a /\ a < m + d
  BY DivBounds
<1>2. PICK p : p = a % d
  OBVIOUS
<1>3. p = a - m
  BY <1>1, <1>2, DivMod
<1>4. i < d - p
  BY <1>2
<1>5. m <= a /\ a < m + d /\ m = q * d
  BY <1>1
<1>6. PICK b \in Nat, r \in 0 .. d - 1 : b = a + i /\ r = b - m /\ m + r = b
  BY <1>3, <1>4, <1>5
<1>7. q * d + r = b
  BY <1>5, <1>6
<1>8. b % d = r
  BY <1>7, ModUnique
<1>9. (a \div d) * d = m
  BY <1>1
<1>10. QED
  BY <1>6, <1>8, <1>9

\* Blocks are made of whole sectors.
LEMMA WholeSectors == \E k \in Nat \ {0} : BlockSize = k * SectorSize
<1>1. BlockSize \in Nat \ {0} /\ SectorSize \in Nat \ {0} /\ BlockSize % SectorSize = 0
  BY SizeAssumption
<1>2. PICK k \in Nat : k = BlockSize \div SectorSize /\ k * SectorSize <= BlockSize
  BY <1>1, DivBounds
<1>3. PICK m \in Nat : m = k * SectorSize
  BY <1>1
<1>4. BlockSize = k * SectorSize
  <2>1. BlockSize % SectorSize = BlockSize - m
    BY <1>1, <1>2, <1>3, DivMod
  <2>2. QED
    BY <1>1, <1>3, <2>1
<1>5. k # 0
  BY <1>1, <1>4
<1>6. QED
  BY <1>4, <1>5

\* The block of an address lies in the chip, and the address in it.
LEMMA BlockInChip ==
  ASSUME NEW a \in Addr
  PROVE  /\ BlockStart(a) \in Addr /\ BlockRange(a) \subseteq Addr /\ a \in BlockRange(a)
         /\ BlockStart(a) + BlockSize - 1 \in Addr
<1>1. /\ BlockSize \in Nat \ {0} /\ NBlock \in Nat \ {0} /\ BlockSize * NBlock = NBlock * BlockSize
      /\ a \in Nat /\ a < NBlock * BlockSize
  BY SizeAssumption DEF Addr
<1>2. PICK q \in Nat, m \in Nat : /\ q = a \div BlockSize /\ m = q * BlockSize /\ m <= a
                                  /\ a < m + BlockSize
  BY <1>1, DivBounds
<1>3. q < NBlock
  BY <1>1, <1>2
<1>4. m + BlockSize <= NBlock * BlockSize
  <2>1. (q + 1) * BlockSize = m + BlockSize
    BY <1>1, <1>2
  <2>2. q + 1 <= NBlock
    BY <1>1, <1>3
  <2>3. (q + 1) * BlockSize <= NBlock * BlockSize
    BY <1>1, <2>2
  <2>4. QED
    BY <2>1, <2>3
<1>5. BlockStart(a) = m
  BY <1>2 DEF BlockStart
<1>6. PICK top \in Nat : top = BlockSize * NBlock /\ m + BlockSize <= top
  BY <1>1, <1>4
<1>7. QED
  BY <1>1, <1>2, <1>5, <1>6 DEF Addr, BlockRange

\* The chip is not empty.
LEMMA FirstAddress == 0 \in Addr
<1>1. BlockSize \in Nat \ {0} /\ NBlock \in Nat \ {0}
  BY SizeAssumption
<1>2. BlockSize * NBlock \in Nat \ {0}
  BY <1>1
<1>3. QED
  BY <1>2 DEF Addr

\* A sector lies within one block.
LEMMA SectorInBlock ==
  ASSUME NEW l \in Lba
  PROVE  /\ SectorStart(l) \in Addr
         /\ SectorRange(l) \subseteq BlockRange(SectorStart(l))
<1>1. PICK k \in Nat \ {0} : BlockSize = k * SectorSize
  BY WholeSectors
<1>2. /\ BlockSize \in Nat \ {0} /\ NBlock \in Nat \ {0} /\ SectorSize \in Nat \ {0}
  BY SizeAssumption
<1>3. PICK c \in Nat : c = NBlock * k /\ BlockSize * NBlock = c * SectorSize
  BY <1>1, <1>2
<1>4. (BlockSize * NBlock) \div SectorSize = c
  BY <1>2, <1>3
<1>5. l \in Nat /\ l < c
  BY <1>3, <1>4 DEF Lba
<1>6. PICK s \in Nat : s = l * SectorSize /\ s = SectorStart(l)
  BY <1>2, <1>5 DEF SectorStart
<1>7. l * SectorSize < c * SectorSize
  BY <1>2, <1>3, <1>5
<1>8. s \in Addr
  <2>1. PICK top \in Nat : top = BlockSize * NBlock /\ top = c * SectorSize
    BY <1>2, <1>3
  <2>2. s < top
    BY <1>6, <1>7, <2>1
  <2>3. QED
    BY <1>6, <2>1, <2>2 DEF Addr
<1>9. PICK q \in Nat, m \in Nat : /\ q = s \div BlockSize /\ m = q * BlockSize /\ m <= s
                                  /\ s < m + BlockSize
  BY <1>2, DivBounds
<1>10. PICK n \in Nat : n = q * k /\ m = n * SectorSize
  <2>1. m = q * (k * SectorSize) /\ q * (k * SectorSize) = (q * k) * SectorSize /\ q * k \in Nat
    BY <1>1, <1>2, <1>9, ProductAssociates
  <2>2. QED
    BY <2>1
<1>11. m + BlockSize = (n + k) * SectorSize
  BY <1>1, <1>2, <1>10
<1>12. l < n + k
  BY <1>2, <1>5, <1>6, <1>9, <1>11
<1>13. s + SectorSize <= m + BlockSize
  <2>1. l + 1 <= n + k
    BY <1>5, <1>12
  <2>2. (l + 1) * SectorSize <= (n + k) * SectorSize
    BY <1>2, <1>5, <2>1
  <2>3. (l + 1) * SectorSize = s + SectorSize
    BY <1>2, <1>5, <1>6
  <2>4. QED
    BY <1>11, <2>2, <2>3
<1>14. BlockStart(SectorStart(l)) = m
  BY <1>6, <1>9 DEF BlockStart
<1>15. QED
  BY <1>2, <1>6, <1>8, <1>9, <1>13, <1>14 DEF SectorRange, BlockRange
-----------------------------------------------------------------------------
(* The inductive invariant.                                                *)

FlashTypeOK(Cell) ==
  /\ chip \in [Addr -> Content(Cell)] /\ todo \in Seq(SectorWrite(Cell))
  /\ phase \in {"idle", "erase", "program"} /\ at \in Nat /\ src \in Seq(Content(Cell))

\* What is left to program lies in the block of the write and is erased.
Erased ==
  /\ src # <<>>
  /\ InFlight \subseteq BlockRange(WriteAddr)
  /\ \A a \in InFlight : chip[a] = FF

FlashInv(Cell) ==
  /\ FlashTypeOK(Cell)
  /\ phase # "idle" => todo # <<>>
  /\ phase = "program" => Erased

\* The write at the head of the list.
LEMMA HeadWrite ==
  ASSUME NEW Cell, FlashTypeOK(Cell), todo # <<>>
  PROVE  /\ Head(todo).lba \in Lba /\ Head(todo).data \in [1 .. SectorSize -> Cell]
         /\ Head(todo).data \in Seq(Content(Cell)) /\ Len(Head(todo).data) = SectorSize
         /\ SectorSize \in Nat \ {0} /\ Tail(todo) \in Seq(SectorWrite(Cell))
         /\ WriteAddr \in Addr /\ WriteAddr \in Nat
         /\ WriteAddr .. WriteAddr + SectorSize - 1 \subseteq BlockRange(WriteAddr)
         /\ BlockRange(WriteAddr) \subseteq Addr
<1>1. Head(todo) \in SectorWrite(Cell) /\ Tail(todo) \in Seq(SectorWrite(Cell))
  BY HeadTailProperties DEF FlashTypeOK
<1>2. PICK w \in SectorWrite(Cell) : w = Head(todo)
  BY <1>1
<1>3. w.lba \in Lba /\ w.data \in [1 .. SectorSize -> Cell]
  BY DEF SectorWrite
<1>4. SectorSize \in Nat \ {0}
  BY SizeAssumption
<1>5. w.data \in Seq(Content(Cell)) /\ Len(w.data) = SectorSize
  <2>1. w.data \in [1 .. SectorSize -> Content(Cell)]
    BY <1>3 DEF Content
  <2>2. QED
    BY <1>4, <2>1, SeqDef, LenProperties
<1>6. WriteAddr = SectorStart(w.lba)
  BY <1>2 DEF WriteAddr
<1>7. /\ WriteAddr \in Addr
      /\ WriteAddr .. WriteAddr + SectorSize - 1 \subseteq BlockRange(WriteAddr)
  BY <1>3, <1>6, SectorInBlock DEF SectorRange
<1>8. BlockRange(WriteAddr) \subseteq Addr /\ WriteAddr \in Nat
  <2>1. \A a \in Addr : a \in Nat
    BY DEF Addr
  <2>2. QED
    BY <1>7, <2>1, BlockInChip
<1>9. QED
  BY <1>1, <1>2, <1>3, <1>4, <1>5, <1>7, <1>8

\* The array as far as no cell is in flight.
LEMMA StoredIsChip ==
  ASSUME NEW Cell, FlashTypeOK(Cell), phase # "program"
  PROVE  Stored = chip
<1>1. Stored = [a \in Addr |-> chip[a]]
  BY DEF Stored, InFlight
<1>2. QED
  BY <1>1 DEF FlashTypeOK

\* A page sends its cells to the addresses from at on, and leaves the others.
LEMMA PageSends ==
  ASSUME NEW Cell, FlashTypeOK(Cell), src # <<>>
  PROVE  /\ pageremain \in 1 .. Len(src)
         /\ \A i \in 0 .. pageremain - 1 : PageAddr(i) = at + i
<1>1. Len(src) \in Nat \ {0} /\ at \in Nat /\ PageSize \in Nat \ {0}
  BY SizeAssumption, EmptySeq, LenProperties DEF FlashTypeOK
<1>2. PICK p \in Nat : p = at % PageSize /\ p < PageSize
  BY <1>1
<1>3. PICK n : n = pageremain
  OBVIOUS
<1>4. n \in 1 .. Len(src) /\ n <= PageSize - p
  BY <1>1, <1>2, <1>3 DEF pageremain
<1>5. ASSUME NEW i \in 0 .. n - 1 PROVE PageAddr(i) = at + i
  <2>1. i \in Nat /\ i < PageSize - p
    BY <1>1, <1>2, <1>4
  <2>2. i < PageSize - (at % PageSize)
    BY <1>2, <2>1
  <2>3. QED
    BY <1>1, <2>1, <2>2, ModGoesOn DEF PageAddr
<1>6. QED
  BY <1>3, <1>4, <1>5

-----------------------------------------------------------------------------
(* Every step is a step of the array or none.                              *)

\* The writes that the array has not made.
Asked == IF phase = "program" THEN Tail(todo) ELSE todo

\* One step of the array, or none.
MediumStep == [Medium!Next]_<<Stored, Asked>>

\* What a step of the driver is for the array: the oldest write, or nothing.
WriteStep == Medium!Write \/ UNCHANGED <<Stored, Asked>>

\* A sector replaced, as Disk says it.
LEMMA Replaces ==
  ASSUME NEW Cell, FlashTypeOK(Cell), todo # <<>>, phase # "program",
         Asked' = Tail(todo),
         Stored' = [a \in Addr |-> IF a \in WriteAddr .. WriteAddr + SectorSize - 1
                                   THEN Head(todo).data[a - WriteAddr + 1] ELSE chip[a]]
  PROVE  WriteStep
<1>1. PICK w : w = Head(todo) /\ w.lba \in Lba /\ WriteAddr = SectorStart(w.lba)
  BY HeadWrite DEF WriteAddr
<1>2. PICK l \in Lba : l = w.lba
  BY <1>1
<1>3. PICK s : s = SectorStart(l) /\ s = WriteAddr
  BY <1>1, <1>2
<1>4. /\ [k \in Lba |-> <<SectorStart(k), SectorStart(k) + SectorSize - 1>>][l][1] = s
      /\ [k \in Lba |-> <<SectorStart(k), SectorStart(k) + SectorSize - 1>>][l][2] = s + SectorSize - 1
  BY <1>3
<1>5. Stored = chip /\ Asked = todo
  BY StoredIsChip DEF Asked
<1>6. Stored' = [a \in Addr |-> IF a \in s .. s + SectorSize - 1
                               THEN w.data[a - s + 1] ELSE Stored[a]]
  BY <1>1, <1>3, <1>5
<1>7. Medium!Write
  BY <1>1, <1>2, <1>4, <1>5, <1>6 DEF Medium!Write, Asked
<1>8. QED
  BY <1>7 DEF WriteStep

\* The caller asks.
LEMMA AsksStep ==
  ASSUME NEW Cell, FlashInv(Cell), Asks(Cell)
  PROVE  FlashInv(Cell)' /\ MediumStep
<1>1. FlashTypeOK(Cell)'
  BY DEF FlashInv, FlashTypeOK, Asks
<1>2. FlashInv(Cell)'
  BY <1>1 DEF FlashInv, Asks
<1>3. Stored' = Stored /\ Asked = <<>>
  <2>1. Stored' = chip' /\ Stored = chip
    BY <1>1, StoredIsChip DEF FlashInv, Asks, FlashTypeOK, Stored, InFlight
  <2>2. QED
    BY <2>1 DEF Asks, Asked
<1>4. QED
  BY <1>2, <1>3 DEF MediumStep, Medium!Next, Medium!Ask, Asked

\* The driver looks at the sector and chooses how to write it.
LEMMA BeginStep ==
  ASSUME NEW Cell, FlashInv(Cell), WriteBegin
  PROVE  FlashInv(Cell)' /\ WriteStep
<1>1. /\ FlashTypeOK(Cell) /\ phase = "idle" /\ todo # <<>> /\ chip' = chip /\ todo' = todo
      /\ chip \in [Addr -> Content(Cell)]
  BY DEF FlashInv, WriteBegin, FlashTypeOK
<1>2. CASE MustErase(WriteAddr) /\ phase' = "erase" /\ UNCHANGED <<at, src>>
  <2>1. FlashInv(Cell)'
    BY <1>1, <1>2 DEF FlashInv, FlashTypeOK
  <2>2. Stored = [a \in Addr |-> chip[a]] /\ Stored' = [a \in Addr |-> chip'[a]]
    BY <1>1, <1>2 DEF Stored, InFlight
  <2>3. Asked' = Asked
    BY <1>1, <1>2 DEF Asked
  <2>4. QED
    BY <1>1, <2>1, <2>2, <2>3 DEF WriteStep
<1>3. CASE /\ ~ MustErase(WriteAddr) /\ phase' = "program"
           /\ at' = WriteAddr /\ src' = Head(todo).data
  <2>1. PICK s \in Nat, d \in Seq(Content(Cell)) :
          /\ s = WriteAddr /\ d = Head(todo).data /\ Len(d) = SectorSize /\ s \in Addr
          /\ s .. s + SectorSize - 1 \subseteq BlockRange(s) /\ SectorSize \in Nat \ {0}
    BY <1>1, HeadWrite
  <2>2. InFlight' = s .. s + SectorSize - 1
    BY <1>3, <2>1 DEF InFlight
  <2>3. ASSUME NEW a \in s .. s + SectorSize - 1 PROVE chip[a] = FF
    <3>1. a - s \in 0 .. SectorSize - 1 /\ s + (a - s) = a
      BY <2>1
    <3>2. QED
      BY <1>3, <2>1, <3>1 DEF MustErase
  <2>4. src' # <<>>
    BY <1>3, <2>1, EmptySeq
  <2>5. FlashInv(Cell)'
    <3>1. FlashTypeOK(Cell)'
      BY <1>1, <1>3, <2>1 DEF FlashTypeOK
    <3>2. Erased'
      <4>1. WriteAddr' = s
        BY <1>1, <2>1 DEF WriteAddr
      <4>2. QED
        BY <1>1, <2>1, <2>2, <2>3, <2>4, <4>1 DEF Erased
    <3>3. QED
      BY <1>1, <3>1, <3>2 DEF FlashInv
  <2>6. Stored' = [a \in Addr |-> IF a \in s .. s + SectorSize - 1 THEN d[a - s + 1] ELSE chip[a]]
    BY <1>1, <1>3, <2>1, <2>2 DEF Stored
  <2>7. Asked' = Tail(todo)
    BY <1>1, <1>3 DEF Asked
  <2>8. QED
    BY <1>1, <2>1, <2>5, <2>6, <2>7, Replaces
<1>4. QED
  BY <1>2, <1>3 DEF WriteBegin

\* The block is erased; the write counts from here on.
LEMMA EraseStep ==
  ASSUME NEW Cell, FlashInv(Cell), SPI_Flash_Erase_Sector
  PROVE  FlashInv(Cell)' /\ WriteStep
<1>1. /\ FlashTypeOK(Cell) /\ phase = "erase" /\ todo # <<>> /\ phase' = "program" /\ todo' = todo
      /\ chip' = [a \in Addr |-> IF a \in BlockRange(WriteAddr) THEN FF ELSE chip[a]]
      /\ at' = BlockStart(WriteAddr)
      /\ src' = SPI_FLASH_BUF(WriteAddr, Head(todo).data)
      /\ chip \in [Addr -> Content(Cell)]
  BY DEF FlashInv, SPI_Flash_Erase_Sector, FlashTypeOK
<1>2. PICK w \in Addr, d \in [1 .. SectorSize -> Content(Cell)] :
                          /\ w = WriteAddr /\ d = Head(todo).data /\ w \in Nat
                          /\ w .. w + SectorSize - 1 \subseteq BlockRange(w)
                          /\ BlockRange(w) \subseteq Addr /\ SectorSize \in Nat \ {0}
  <2>1. Head(todo).data \in [1 .. SectorSize -> Content(Cell)]
    <3>1. Head(todo).data \in [1 .. SectorSize -> Cell]
      BY <1>1, HeadWrite
    <3>2. QED
      BY <3>1 DEF Content
  <2>2. QED
    BY <1>1, <2>1, HeadWrite
<1>3. PICK b \in Nat : b = BlockStart(w) /\ BlockRange(w) = b .. b + BlockSize - 1
  <2>1. BlockStart(w) \in Nat
    BY BlockInChip DEF Addr
  <2>2. QED
    BY <2>1 DEF BlockRange
<1>4. BlockSize \in Nat \ {0}
  BY SizeAssumption
<1>5. src' = [i \in 1 .. BlockSize |-> IF b + i - 1 \in w .. w + SectorSize - 1
                                      THEN d[b + i - 1 - w + 1] ELSE chip[b + i - 1]]
  BY <1>1, <1>2, <1>3 DEF SPI_FLASH_BUF
<1>6. ASSUME NEW i \in 1 .. BlockSize
      PROVE  /\ b + i - 1 \in Addr
             /\ b + i - 1 \in w .. w + SectorSize - 1 => b + i - 1 - w + 1 \in 1 .. SectorSize
  <2>1. b + i - 1 \in BlockRange(w)
    BY <1>3, <1>4
  <2>2. b + i - 1 \in w .. w + SectorSize - 1 => b + i - 1 - w + 1 \in 1 .. SectorSize
    BY <1>2, <1>4
  <2>3. QED
    BY <1>2, <2>1, <2>2
<1>7. src' \in [1 .. BlockSize -> Content(Cell)]
  BY <1>1, <1>2, <1>5, <1>6
<1>8. src' \in Seq(Content(Cell)) /\ Len(src') = BlockSize
  BY <1>4, <1>7, SeqDef, LenProperties
<1>9. InFlight' = BlockRange(w)
  BY <1>1, <1>2, <1>3, <1>8 DEF InFlight
<1>10. FlashInv(Cell)'
  <2>1. FF \in Content(Cell)
    BY DEF Content
  <2>2. chip' \in [Addr -> Content(Cell)]
    BY <1>1, <2>1
  <2>3. FlashTypeOK(Cell)'
    BY <1>1, <1>2, <1>3, <1>8, <2>2 DEF FlashTypeOK
  <2>4. src' # <<>>
    BY <1>4, <1>8, EmptySeq
  <2>5. \A a \in BlockRange(w) : chip'[a] = FF
    BY <1>1, <1>2
  <2>6. Erased'
    <3>1. WriteAddr' = w
      BY <1>1, <1>2 DEF WriteAddr
    <3>2. QED
      BY <1>2, <1>9, <2>4, <2>5, <3>1 DEF Erased
  <2>7. QED
    BY <1>1, <2>3, <2>6 DEF FlashInv
<1>11. ASSUME NEW a \in Addr
       PROVE  Stored'[a] = IF a \in w .. w + SectorSize - 1 THEN d[a - w + 1] ELSE chip[a]
  <2>1. Stored'[a] = IF a \in BlockRange(w) THEN src'[a - b + 1] ELSE chip'[a]
    BY <1>1, <1>2, <1>3, <1>9 DEF Stored
  <2>2. CASE a \in BlockRange(w)
    <3>1. PICK i \in 1 .. BlockSize : i = a - b + 1 /\ b + i - 1 = a
      BY <1>3, <1>4, <2>2
    <3>2. src'[i] = IF b + i - 1 \in w .. w + SectorSize - 1 THEN d[b + i - 1 - w + 1] ELSE chip[b + i - 1]
      BY <1>5
    <3>3. src'[i] = IF a \in w .. w + SectorSize - 1 THEN d[a - w + 1] ELSE chip[a]
      <4>1. b + i - 1 = a /\ b + i - 1 - w + 1 = a - w + 1
        BY <1>2, <3>1
      <4>2. d[b + i - 1 - w + 1] = d[a - w + 1] /\ chip[b + i - 1] = chip[a]
        BY <4>1
      <4>3. QED
        BY <3>2, <4>1, <4>2
    <3>4. QED
      BY <2>1, <2>2, <3>1, <3>3
  <2>3. CASE a \notin BlockRange(w)
    BY <1>1, <1>2, <2>1, <2>3
  <2>4. QED
    BY <2>2, <2>3
<1>12. Stored' = [a \in Addr |-> IF a \in w .. w + SectorSize - 1 THEN d[a - w + 1] ELSE chip[a]]
  <2>1. DOMAIN Stored' = Addr /\ Stored' = [a \in Addr |-> Stored'[a]]
    BY DEF Stored
  <2>2. QED
    BY <1>11, <2>1
<1>13. Asked' = Tail(todo)
  BY <1>1 DEF Asked
<1>14. QED
  BY <1>1, <1>2, <1>10, <1>12, <1>13, Replaces

\* What is left of the data behind n cells.
LEMMA RestOfPage ==
  ASSUME NEW Cell, NEW q \in Seq(Content(Cell)), NEW m \in Nat, m = Len(q), NEW n \in Nat, n < m
  PROVE  /\ SubSeq(q, n + 1, m) \in Seq(Content(Cell)) /\ Len(SubSeq(q, n + 1, m)) = m - n
         /\ \A j \in 1 .. m - n : SubSeq(q, n + 1, m)[j] = q[n + j]
<1>1. PICK k \in Int : k = n + 1 /\ k <= m
  OBVIOUS
<1>2. \A i \in k .. m : q[i] \in Content(Cell)
  <2>1. \A i \in k .. m : i \in 1 .. Len(q)
    BY <1>1
  <2>2. QED
    BY <2>1, ElementOfSeq
<1>3. /\ SubSeq(q, k, m) \in Seq(Content(Cell))
      /\ Len(SubSeq(q, k, m)) = IF k <= m THEN m - k + 1 ELSE 0
      /\ \A i \in 1 .. m - k + 1 : SubSeq(q, k, m)[i] = q[k + i - 1]
  BY <1>2, SubSeqProperties
<1>4. m - k + 1 = m - n
  BY <1>1
<1>5. \A i \in 1 .. m - n : k + i - 1 = n + i
  BY <1>1
<1>6. QED
  BY <1>1, <1>3, <1>4, <1>5

\* The last page leaves nothing.
LEMMA NothingLeft ==
  ASSUME NEW Cell, NEW q \in Seq(Content(Cell)), NEW m \in Nat, m = Len(q)
  PROVE  SubSeq(q, m + 1, m) \in Seq(Content(Cell))
<1>1. PICK k \in Int : k = m + 1 /\ \A i \in k .. m : q[i] \in Content(Cell)
  OBVIOUS
<1>2. SubSeq(q, k, m) \in Seq(Content(Cell))
  BY <1>1, SubSeqProperties
<1>3. QED
  BY <1>1, <1>2

\* A page takes the erased cells from at on to what they are to hold.
LEMMA PageStep ==
  ASSUME NEW Cell, FlashInv(Cell), SPI_Flash_Write_Page
  PROVE  FlashInv(Cell)' /\ WriteStep
<1>1. /\ FlashTypeOK(Cell) /\ phase = "program" /\ todo # <<>> /\ Erased /\ src # <<>>
      /\ chip \in [Addr -> Content(Cell)] /\ src \in Seq(Content(Cell)) /\ at \in Nat
  BY DEF FlashInv, SPI_Flash_Write_Page, FlashTypeOK, Erased
<1>2. PICK n \in 1 .. Len(src) : n = pageremain /\ \A i \in 0 .. n - 1 : PageAddr(i) = at + i
  BY <1>1, PageSends
<1>3. PICK m \in Nat \ {0} : m = Len(src) /\ n <= m /\ n \in Nat \ {0} /\ DOMAIN src = 1 .. m
                          /\ \A i \in 1 .. m : src[i] \in Content(Cell)
  BY <1>1, <1>2, EmptySeq, LenProperties, ElementOfSeq
<1>4. InFlight = at .. at + m - 1
  BY <1>1, <1>3 DEF InFlight
<1>5. PICK b \in Addr : b = WriteAddr /\ InFlight \subseteq BlockRange(b)
  BY <1>1, HeadWrite DEF Erased
<1>6. InFlight \subseteq Addr
  BY <1>5, BlockInChip
<1>7. /\ chip' = [a \in Addr |->
                   IF \E i \in 0 .. n - 1 : a = PageAddr(i)
                   THEN Programmed(chip[a], src[(CHOOSE i \in 0 .. n - 1 : a = PageAddr(i)) + 1])
                   ELSE chip[a]]
      /\ src' = SubSeq(src, n + 1, m)
      /\ \/ n < m /\ at' = at + n /\ UNCHANGED <<phase, todo>>
         \/ n = m /\ at' = 0 /\ phase' = "idle" /\ todo' = Tail(todo)
  BY <1>2, <1>3 DEF SPI_Flash_Write_Page
<1>8. ASSUME NEW a \in Addr, a \in at .. at + n - 1
      PROVE  chip'[a] = src[a - at + 1]
  <2>1. PICK k \in 0 .. n - 1 : k = a - at /\ a = at + k
    BY <1>1, <1>3, <1>8
  <2>2. \A i \in 0 .. n - 1 : a = PageAddr(i) <=> i = k
    BY <1>1, <1>2, <1>3, <2>1
  <2>3. (CHOOSE i \in 0 .. n - 1 : a = PageAddr(i)) = k
    BY <2>2
  <2>4. chip[a] = FF
    <3>1. a \in InFlight
      BY <1>1, <1>3, <1>4, <2>1
    <3>2. QED
      BY <1>1, <3>1 DEF Erased
  <2>5. chip'[a] = Programmed(chip[a], src[k + 1])
    BY <1>7, <2>2, <2>3
  <2>6. QED
    BY <2>1, <2>4, <2>5 DEF Programmed
<1>9. ASSUME NEW a \in Addr, a \notin at .. at + n - 1
      PROVE  chip'[a] = chip[a]
  <2>1. \A i \in 0 .. n - 1 : a # PageAddr(i)
    BY <1>1, <1>2, <1>3, <1>9
  <2>2. QED
    BY <1>7, <2>1
<1>10. chip' \in [Addr -> Content(Cell)]
  <2>1. chip' = [a \in Addr |-> chip'[a]]
    BY <1>7
  <2>2. ASSUME NEW a \in Addr PROVE chip'[a] \in Content(Cell)
    <3>1. CASE a \in at .. at + n - 1
      <4>1. a - at + 1 \in 1 .. m
        BY <1>1, <1>3, <3>1
      <4>2. QED
        BY <1>3, <1>8, <3>1, <4>1
    <3>2. CASE a \notin at .. at + n - 1
      BY <1>1, <1>9, <3>2
    <3>3. QED
      BY <3>1, <3>2
  <2>3. QED
    BY <2>1, <2>2
<1>11. CASE n < m /\ at' = at + n /\ UNCHANGED <<phase, todo>>
  <2>1. /\ src' \in Seq(Content(Cell)) /\ Len(src') = m - n
        /\ \A j \in 1 .. m - n : src'[j] = src[n + j]
    BY <1>1, <1>3, <1>7, <1>11, RestOfPage
  <2>2. InFlight' = at + n .. at + m - 1
    BY <1>1, <1>3, <1>11, <2>1 DEF InFlight
  <2>3. \A a \in InFlight' : a \in InFlight /\ a \in Addr /\ a \notin at .. at + n - 1
    BY <1>1, <1>3, <1>4, <1>6, <2>2
  <2>4. FlashInv(Cell)'
    <3>1. FlashTypeOK(Cell)'
      BY <1>1, <1>3, <1>10, <1>11, <2>1 DEF FlashTypeOK
    <3>2. src' # <<>>
      BY <1>3, <1>11, <2>1, EmptySeq
    <3>3. \A a \in InFlight' : chip'[a] = FF
      BY <1>1, <1>9, <2>3 DEF Erased
    <3>4. InFlight' \subseteq BlockRange(b)
      BY <1>5, <2>3
    <3>5. WriteAddr' = b
      BY <1>5, <1>11 DEF WriteAddr
    <3>6. QED
      BY <1>1, <1>11, <3>1, <3>2, <3>3, <3>4, <3>5 DEF FlashInv, Erased
  <2>5. ASSUME NEW a \in Addr PROVE Stored'[a] = Stored[a]
    <3>1. /\ Stored[a] = IF a \in InFlight THEN src[a - at + 1] ELSE chip[a]
          /\ Stored'[a] = IF a \in InFlight' THEN src'[a - at' + 1] ELSE chip'[a]
      BY DEF Stored
    <3>2. CASE a \in InFlight'
      <4>1. PICK j \in 1 .. m - n : j = a - at' + 1 /\ n + j = a - at + 1
        BY <1>1, <1>3, <1>11, <2>2, <3>2
      <4>2. src'[j] = src[n + j]
        BY <2>1
      <4>3. QED
        BY <2>3, <3>1, <3>2, <4>1, <4>2
    <3>3. CASE a \in at .. at + n - 1
      <4>1. a \in InFlight /\ a \notin InFlight'
        BY <1>1, <1>3, <1>4, <2>2, <3>3
      <4>2. QED
        BY <1>8, <3>1, <3>3, <4>1
    <3>4. CASE a \notin InFlight' /\ a \notin at .. at + n - 1
      <4>1. a \notin InFlight
        <5>1. a \in Int
          BY DEF Addr
        <5>2. QED
          BY <1>1, <1>3, <1>4, <2>2, <3>4, <5>1
      <4>2. QED
        BY <1>9, <3>1, <3>4, <4>1
    <3>5. QED
      BY <3>2, <3>3, <3>4
  <2>6. Stored' = Stored /\ Asked' = Asked
    <3>1. Stored = [a \in Addr |-> Stored[a]] /\ Stored' = [a \in Addr |-> Stored'[a]]
      BY DEF Stored
    <3>2. QED
      BY <1>11, <2>5, <3>1 DEF Asked
  <2>7. QED
    BY <2>4, <2>6 DEF WriteStep
<1>12. CASE n = m /\ at' = 0 /\ phase' = "idle" /\ todo' = Tail(todo)
  <2>1. src' \in Seq(Content(Cell))
    <3>1. SubSeq(src, n + 1, m) \in Seq(Content(Cell))
      BY <1>1, <1>3, <1>12, NothingLeft
    <3>2. QED
      BY <1>7, <3>1
  <2>2. FlashInv(Cell)'
    <3>1. Tail(todo) \in Seq(SectorWrite(Cell))
      BY <1>1, HeadWrite
    <3>2. FlashTypeOK(Cell)'
      BY <1>10, <1>12, <2>1, <3>1 DEF FlashTypeOK
    <3>3. QED
      BY <1>12, <3>2 DEF FlashInv
  <2>3. ASSUME NEW a \in Addr PROVE chip'[a] = Stored[a]
    <3>1. Stored[a] = IF a \in at .. at + n - 1 THEN src[a - at + 1] ELSE chip[a]
      BY <1>4, <1>12 DEF Stored
    <3>2. QED
      BY <1>8, <1>9, <3>1
  <2>4. Stored' = Stored
    <3>1. Stored' = chip'
      <4>1. Stored' = [a \in Addr |-> chip'[a]]
        BY <1>12 DEF Stored, InFlight
      <4>2. QED
        BY <1>10, <4>1
    <3>2. Stored = [a \in Addr |-> Stored[a]] /\ chip' = [a \in Addr |-> chip'[a]]
      BY <1>7 DEF Stored
    <3>3. QED
      BY <2>3, <3>1, <3>2
  <2>5. Asked' = Asked
    BY <1>1, <1>12 DEF Asked
  <2>6. QED
    BY <2>2, <2>4, <2>5 DEF WriteStep
<1>13. QED
  BY <1>7, <1>11, <1>12

\* Every command of the driver.
LEMMA DriverStep ==
  ASSUME NEW Cell, FlashInv(Cell), FlashStep
  PROVE  FlashInv(Cell)' /\ WriteStep
  BY BeginStep, EraseStep, PageStep DEF FlashStep

\* The power fails: what was in flight is erased, what was asked for forgotten.
LEMMA LossStep ==
  ASSUME NEW Cell, FlashInv(Cell), FlashLoss
  PROVE  FlashInv(Cell)' /\ MediumStep
<1>1. /\ FlashTypeOK(Cell) /\ todo' = <<>> /\ phase' = "idle" /\ at' = 0 /\ src' = <<>> /\ chip' = chip
      /\ chip \in [Addr -> Content(Cell)]
  BY DEF FlashInv, FlashLoss, FlashTypeOK
<1>2. FlashInv(Cell)'
  <2>1. <<>> \in Seq(SectorWrite(Cell)) /\ <<>> \in Seq(Content(Cell))
    BY EmptySeq
  <2>2. QED
    BY <1>1, <2>1 DEF FlashInv, FlashTypeOK
<1>3. Asked' = <<>>
  BY <1>1 DEF Asked
<1>4. \A a \in Addr : Stored'[a] = chip[a]
  BY <1>1 DEF Stored, InFlight
<1>5. \E b \in Addr : \A a \in Addr :
        Stored'[a] = Stored[a] \/ (a \in BlockRange(b) /\ Stored'[a] = FF)
  <2>1. CASE phase = "program"
    <3>1. PICK b \in Addr : InFlight \subseteq BlockRange(b) /\ \A a \in InFlight : chip[a] = FF
      BY <1>1, <2>1, HeadWrite DEF FlashInv, Erased
    <3>2. \A a \in Addr : a \notin InFlight => Stored[a] = chip[a]
      BY DEF Stored
    <3>3. QED
      BY <1>4, <3>1, <3>2
  <2>2. CASE phase # "program"
    <3>1. Stored = chip
      BY <1>1, <2>2, StoredIsChip
    <3>2. 0 \in Addr
      BY FirstAddress
    <3>3. QED
      BY <1>4, <3>1, <3>2
  <2>3. QED
    BY <2>1, <2>2
<1>6. Medium!Lose
  <2>1. \A b \in Addr : BlockRange(b) \in {BlockRange(a) : a \in Addr}
    OBVIOUS
  <2>2. QED
    BY <1>3, <1>5, <2>1 DEF Medium!Lose, Asked
<1>7. QED
  BY <1>2, <1>6 DEF MediumStep, Medium!Next

-----------------------------------------------------------------------------
(* The theorems.                                                           *)

\* Before the first write nothing is in flight.
LEMMA FlashInvInit ==
  ASSUME NEW Cell, NEW content \in [Addr -> Content(Cell)], FlashInit(content)
  PROVE  FlashInv(Cell)
<1>1. <<>> \in Seq(SectorWrite(Cell)) /\ <<>> \in Seq(Content(Cell))
  BY EmptySeq
<1>2. QED
  BY <1>1 DEF FlashInit, FlashInv, FlashTypeOK

\* Every step of the driver, of its caller and of the supply keeps the inductive invariant and
\* is a step of the array of sectors or none.
THEOREM FlashStepRefines ==
  ASSUME NEW Cell
  PROVE  FlashInv(Cell) /\ [Asks(Cell) \/ FlashStep \/ FlashLoss]_flashVars => FlashInv(Cell)' /\ MediumStep
<1>1. ASSUME FlashInv(Cell), UNCHANGED flashVars PROVE FlashInv(Cell)' /\ MediumStep
  <2>1. FlashInv(Cell)'
    BY <1>1 DEF flashVars, FlashInv, FlashTypeOK, Erased, InFlight, WriteAddr
  <2>2. Stored' = Stored /\ Asked' = Asked
    BY <1>1 DEF flashVars, Stored, InFlight, Asked
  <2>3. QED
    BY <2>1, <2>2 DEF MediumStep
<1>2. ASSUME FlashInv(Cell), FlashStep PROVE FlashInv(Cell)' /\ MediumStep
  BY <1>2, DriverStep DEF WriteStep, MediumStep, Medium!Next
<1>3. QED
  BY <1>1, <1>2, AsksStep, LossStep

\* What lies on the chip, what is asked for and what is under way keep their types, and
\* cells in flight are always erased cells of one block.
THEOREM FlashInvHolds ==
  ASSUME NEW Cell
  PROVE  FlashSpec(Cell) => []FlashInv(Cell)
<1>1. (\E content \in [Addr -> Content(Cell)] : FlashInit(content)) => FlashInv(Cell)
  BY FlashInvInit
<1>2. QED
  BY <1>1, FlashStepRefines, PTL DEF FlashSpec

\* SPI_Flash_Write implements an array of sectors (DiskSpec, the property of the run files),
\* for every geometry and every caller: each write replaces its sector and nothing else in the order
\* asked for, and a power failure takes cells of one block at most.
THEOREM FlashImplementsDisk ==
  ASSUME NEW Cell
  PROVE  FlashSpec(Cell) => DiskSpec
<1>1. DiskSpec <=> [][Medium!Next]_<<Stored, Asked>>
  BY DEF DiskSpec, Medium!Spec, Asked
<1>2. FlashInv(Cell) /\ [Asks(Cell) \/ FlashStep \/ FlashLoss]_flashVars => [Medium!Next]_<<Stored, Asked>>
  BY FlashStepRefines DEF MediumStep
<1>3. QED
  BY <1>1, <1>2, FlashInvHolds, PTL DEF FlashSpec
=============================================================================
