----------------------------- MODULE FlashSector -----------------------------
(***************************************************************************)
(* flash_addr_to_sector of flash/flash.c, the number written to FLASH_CR   *)
(* when a sector is erased, against the layout of the flash: in each bank  *)
(* four sectors of 16 KB, one of 64 KB and seven of 128 KB.                *)
(***************************************************************************)
EXTENDS Integers

KB == 1024
FlashBase == 134217728              \* 0x08000000
Bank2 == 135266304                  \* 0x08100000

\* mutant: the offset in the 128 KB sectors counts from the wrong sector
SectorOffByOne(p) ==
    LET offset == p % 16777216
        sector == IF offset < 64 * KB THEN offset \div (16 * KB)
                  ELSE IF offset < 128 * KB THEN 3 + offset \div (64 * KB)
                  ELSE 5 + offset \div (128 * KB)
    IN  IF p >= Bank2 THEN (sector + 12) % 256 ELSE sector

flash_addr_to_sector(p) ==
    LET offset == p % 16777216   \* p & 0xFFFFFF
        sector == IF offset < 64 * KB THEN offset \div (16 * KB)
                  ELSE IF offset < 128 * KB THEN 3 + offset \div (64 * KB)
                  ELSE 4 + offset \div (128 * KB)
    IN  IF p >= Bank2 THEN (sector + 12) % 256 ELSE sector

\* the layout: where each sector of a bank begins, and how long it is
SectorOffset(s) == IF s <= 4 THEN s * 16 * KB ELSE (s - 4) * 128 * KB
SectorLength(s) == IF s < 4 THEN 16 * KB ELSE IF s = 4 THEN 64 * KB ELSE 128 * KB

InSector(p, s) ==
    LET base == IF s < 12 THEN FlashBase + SectorOffset(s) ELSE Bank2 + SectorOffset(s - 12)
    IN  base <= p /\ p < base + SectorLength(s % 12)

Pages == {FlashBase + n * 4 * KB : n \in 0..255}

(* flash_sector_erase erases the sector its address is in: erasing the     *)
(* configuration never erases the program.                                 *)
ErasesItsSector ==
    \A p \in Pages : flash_addr_to_sector(p) \in 0..11 /\ InSector(p, flash_addr_to_sector(p))
=============================================================================
