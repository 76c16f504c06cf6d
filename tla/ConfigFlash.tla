----------------------------- MODULE ConfigFlash -----------------------------
(***************************************************************************)
(* The parameter store of config_flash_storage.c on the flash driver of    *)
(* flash/flash.c.  A sector of flash holds a log of blocks; a block is a   *)
(* header of three words (checksum of the length, length, checksum of the  *)
(* data) and the data.  A save appends a block and writes its header last; *)
(* a load takes the last block of the valid prefix of the log.             *)
(*                                                                         *)
(* The unit is the word.  A bit of flash can be cleared but only an erase  *)
(* sets it again, so a word programmed twice holds the conjunction of both *)
(* values: a cell is the set of the words programmed into it since the     *)
(* last erase, {} when blank, and it reads as w only when it is {w}.       *)
(* Checksums are taken to be injective.                                    *)
(***************************************************************************)
EXTENDS Integers, Sequences

CONSTANTS Savers,       \* threads that save: the shell, the Aseba VM
          Configs,      \* contents of the parameter tree
          NoConfig,
          Sector,       \* words between _config_start and _config_end
          DstLen,       \* the length each saver passes as dst_len, in words
          Length,       \* words each content takes
          PowerFails    \* the power may fail at any time

ASSUME NoConfigAssumption == NoConfig \notin Configs /\ "corrupt" \notin Configs \union {NoConfig}
ASSUME SectorAssumption == Sector \in Nat /\ Sector > 3 /\ DstLen \in [Savers -> Nat]
ASSUME LengthAssumption == Length \in [Configs -> Nat \ {0}]
ASSUME PowerAssumption == PowerFails \in BOOLEAN

VARIABLES flash,        \* the cells of the sector
          locked,       \* FLASH_CR_LOCK
          fault,        \* an address outside the flash was accessed
          pc, want, dst, index,  \* config_save of each saver
          dirty         \* history: a save was interrupted since the last erase

vars == <<flash, locked, fault, pc, want, dst, index, dirty>>

Header == 3             \* CONFIG_HEADER_SIZE
WordSize == 1073741824  \* words in the 32 bits of a length
Addresses == 0..(Sector - 1)

LenCrc(n) == <<"lencrc", n>>
Len32(n) == <<"len", n>>
DataCrc(cells) == <<"datacrc", cells>>
Data(c, i) == <<"data", c, i>>
Torn(w) == <<"torn", w>>

-----------------------------------------------------------------------------
(* Reading the log f.                                                      *)
Contents(f, a, n) == [i \in 1..n |-> f[a + i - 1]]

\* the length in a header whose length checksum is right
HasLength(f, a, n) == f[a] = {LenCrc(n)} /\ f[a + 1] = {Len32(n)}

BlockIsValid(f, a) ==
    \E n \in 0..Sector :
       /\ HasLength(f, a, n)
       /\ f[a + 2] = {DataCrc(Contents(f, a + Header, n))}

\* a word that is no length is never used as one
BlockLength(f, a) ==
    CHOOSE n \in 0..Sector : (\E k \in 0..Sector : f[a + 1] = {Len32(k)}) => f[a + 1] = {Len32(n)}

\* the header words that config_block_is_valid reads first are in the flash
Readable(a) == a + 1 < Sector

InUse(f, a) == Readable(a) /\ BlockIsValid(f, a)
After(f, a) == a + BlockLength(f, a) + Header

\* mutant: the header is not skipped
FindFirstFreeNoHeader(f) ==
    LET scan[a \in Nat] == IF InUse(f, a) THEN scan[a + BlockLength(f, a)] ELSE a
    IN  scan[0]

FindFirstFree(f) ==
    LET scan[a \in Nat] == IF InUse(f, a) THEN scan[After(f, a)] ELSE a
    IN  scan[0]

\* the address of the last block, -1 for NULL
FindLastUsed(f) ==
    LET scan[a \in Nat] == IF InUse(f, After(f, a)) THEN scan[After(f, a)] ELSE a
    IN  IF BlockIsValid(f, 0) THEN scan[0] ELSE -1

\* what parameter_msgpack_read makes of the data of a block
Parse(cells) ==
    IF \E c \in Configs : cells = [i \in 1..Length[c] |-> {Data(c, i)}]
    THEN CHOOSE c \in Configs : cells = [i \in 1..Length[c] |-> {Data(c, i)}]
    ELSE "corrupt"

\* config_load
Load(f) ==
    LET a == FindLastUsed(f)
    IN  IF a = -1 THEN NoConfig
        ELSE Parse(Contents(f, a + Header, BlockLength(f, a)))

-----------------------------------------------------------------------------
(* The flash driver.  A locked flash ignores programming and erasing.      *)
Over(cell, w) == (cell \ {Torn(w)}) \union {w}

Program(a, w) ==
    IF a \notin Addresses THEN fault' = TRUE /\ UNCHANGED flash
    ELSE /\ flash' = IF locked THEN flash ELSE [flash EXCEPT ![a] = Over(@, w)]
         /\ UNCHANGED fault

SectorErase ==
    IF locked THEN UNCHANGED <<flash, dirty>>
    ELSE flash' = [a \in Addresses |-> {}] /\ dirty' = FALSE

-----------------------------------------------------------------------------
(* config_save.                                                            *)
PC == {"idle", "find", "eraseFirst", "free", "eraseFull", "data", "failed",
       "lencrc", "len", "datacrc", "lock", "eraseAll"}

TypeOK ==
    /\ DOMAIN flash = Addresses
    /\ {locked, fault, dirty} \subseteq BOOLEAN
    /\ pc \in [Savers -> PC]
    /\ want \in [Savers -> Configs \union {NoConfig}]
    /\ dst \in [Savers -> 0..Sector]
    /\ index \in [Savers -> Nat]

Init ==
    /\ flash = [a \in Addresses |-> {}]
    /\ locked = TRUE
    /\ fault = FALSE
    /\ pc = [s \in Savers |-> "idle"]
    /\ want = [s \in Savers |-> NoConfig]
    /\ dst = [s \in Savers |-> 0]
    /\ index = [s \in Savers |-> 0]
    /\ dirty = FALSE

Goto(s, from, to) == ~fault /\ pc[s] = from /\ pc' = [pc EXCEPT ![s] = to]

\* words of the destination that are left from address a: an unsigned
\* difference
Room(s, a) == (DstLen[s] - a) % WordSize

Begin(s, c) ==
    /\ Goto(s, "idle", "find")
    /\ want' = [want EXCEPT ![s] = c]
    /\ locked' = FALSE
    /\ UNCHANGED <<flash, fault, dst, index, dirty>>

\* config_block_find_last_used walks the log; past its last block it reads
\* the header that comes next
Find(s) ==
    /\ Goto(s, "find", IF FindLastUsed(flash) = -1 THEN "eraseFirst" ELSE "free")
    /\ fault' = ~Readable(FindFirstFree(flash))
    /\ UNCHANGED <<flash, locked, want, dst, index, dirty>>

EraseFirst(s) ==
    /\ Goto(s, "eraseFirst", "free")
    /\ SectorErase
    /\ UNCHANGED <<locked, fault, want, dst, index>>

Free(s) ==
    LET a == FindFirstFree(flash)
    IN  /\ Goto(s, "free", IF Room(s, a) <= Header THEN "eraseFull" ELSE "data")
        /\ dst' = [dst EXCEPT ![s] = a]
        /\ index' = [index EXCEPT ![s] = 0]
        /\ fault' = ~Readable(a)
        /\ UNCHANGED <<flash, locked, want, dirty>>

EraseFull(s) ==
    /\ Goto(s, "eraseFull", "data")
    /\ SectorErase
    /\ dst' = [dst EXCEPT ![s] = 0]
    /\ UNCHANGED <<locked, fault, want, index>>

\* mutant: the room that is left is not looked at
FitsAlways(s) == index[s] < Length[want[s]]

\* cmp_flash_writer accepts a word that fits
Fits(s) == Header + index[s] + 1 <= Room(s, dst[s])

\* mutant: the index goes down
WriteDataBackwards(s) ==
    /\ Goto(s, "data", "data")
    /\ index[s] < Length[want[s]]
    /\ Fits(s)
    /\ Program(dst[s] + Header + index[s], Data(want[s], index[s] + 1))
    /\ index' = [index EXCEPT ![s] = @ - 1]
    /\ UNCHANGED <<locked, want, dst, dirty>>

WriteData(s) ==
    /\ Goto(s, "data", "data")
    /\ index[s] < Length[want[s]]
    /\ Fits(s)
    /\ Program(dst[s] + Header + index[s], Data(want[s], index[s] + 1))
    /\ index' = [index EXCEPT ![s] = @ + 1]
    /\ UNCHANGED <<locked, want, dst, dirty>>

\* mutant: whether all the data was written is not looked at
DataEndsAnyway(s) ==
    /\ Goto(s, "data", "lencrc")
    /\ index[s] = Length[want[s]] \/ ~Fits(s)
    /\ UNCHANGED <<flash, locked, fault, want, dst, index, dirty>>

DataEnds(s) ==
    /\ Goto(s, "data", IF index[s] = Length[want[s]] THEN "lencrc" ELSE "failed")
    /\ index[s] = Length[want[s]] \/ ~Fits(s)
    /\ UNCHANGED <<flash, locked, fault, want, dst, index, dirty>>

\* mutant: the sector is not erased before the save is tried again
FailedNoErase(s) ==
    /\ Goto(s, "failed", "find")
    /\ UNCHANGED <<flash, locked, fault, want, dst, index, dirty>>

\* the sector is erased and config_save calls itself
Failed(s) ==
    /\ Goto(s, "failed", "find")
    /\ SectorErase
    /\ locked' = FALSE      \* flash_lock, then the flash_unlock of the new call
    /\ UNCHANGED <<fault, want, dst, index>>

WriteLenCrc(s) ==
    /\ Goto(s, "lencrc", "len")
    /\ Program(dst[s], LenCrc(index[s]))
    /\ UNCHANGED <<locked, want, dst, index, dirty>>

\* mutant: the length is written before its checksum and the flash is locked
WriteLenLocks(s) ==
    /\ Goto(s, "len", "datacrc")
    /\ Program(dst[s] + 1, Len32(index[s]))
    /\ locked' = TRUE
    /\ UNCHANGED <<want, dst, index, dirty>>

WriteLen(s) ==
    /\ Goto(s, "len", "datacrc")
    /\ Program(dst[s] + 1, Len32(index[s]))
    /\ UNCHANGED <<locked, want, dst, index, dirty>>

\* the checksum is that of the words in the flash
WriteDataCrc(s) ==
    /\ Goto(s, "datacrc", "lock")
    /\ Program(dst[s] + 2, DataCrc(Contents(flash, dst[s] + Header, index[s])))
    /\ UNCHANGED <<locked, want, dst, index, dirty>>

\* mutant: the flash stays unlocked
LockForgotten(s) ==
    /\ Goto(s, "lock", "idle")
    /\ want' = [want EXCEPT ![s] = NoConfig]
    /\ dst' = [dst EXCEPT ![s] = 0]
    /\ index' = [index EXCEPT ![s] = 0]
    /\ UNCHANGED <<flash, locked, fault, dirty>>

Lock(s) ==
    /\ Goto(s, "lock", "idle")
    /\ locked' = TRUE
    /\ want' = [want EXCEPT ![s] = NoConfig]
    /\ dst' = [dst EXCEPT ![s] = 0]
    /\ index' = [index EXCEPT ![s] = 0]
    /\ UNCHANGED <<flash, fault, dirty>>

\* config_erase: unlock, erase, lock
BeginErase(s) ==
    /\ Goto(s, "idle", "eraseAll")
    /\ locked' = FALSE
    /\ UNCHANGED <<flash, fault, want, dst, index, dirty>>

EraseAll(s) ==
    /\ Goto(s, "eraseAll", "lock")
    /\ SectorErase
    /\ UNCHANGED <<locked, fault, want, dst, index>>

SaveStep(s) ==
    \/ Find(s) \/ EraseFirst(s) \/ Free(s) \/ EraseFull(s) \/ WriteData(s)
    \/ DataEnds(s) \/ Failed(s) \/ WriteLenCrc(s) \/ WriteLen(s)
    \/ WriteDataCrc(s) \/ Lock(s) \/ EraseAll(s)

-----------------------------------------------------------------------------
(* The power fails, possibly in the middle of a word, and the board        *)
(* restarts.  An erase is over or has not begun.                           *)
TearWord(a, w) ==
    flash' = IF a \in Addresses /\ flash[a] = {} THEN [flash EXCEPT ![a] = {Torn(w)}]
             ELSE flash

PowerFail ==
    /\ PowerFails
    /\ \/ UNCHANGED flash
       \/ \E s \in Savers :
             \/ /\ pc[s] = "data" /\ index[s] < Length[want[s]] /\ Fits(s)
                /\ TearWord(dst[s] + Header + index[s], Data(want[s], index[s] + 1))
             \/ pc[s] = "lencrc" /\ TearWord(dst[s], LenCrc(index[s]))
             \/ pc[s] = "len" /\ TearWord(dst[s] + 1, Len32(index[s]))
             \/ /\ pc[s] = "datacrc"
                /\ TearWord(dst[s] + 2, DataCrc(Contents(flash, dst[s] + Header, index[s])))
    /\ dirty' = (dirty \/ \E s \in Savers :
                             pc[s] \in {"data", "failed", "lencrc", "len", "datacrc"})
    /\ locked' = TRUE
    /\ fault' = FALSE
    /\ pc' = [s \in Savers |-> "idle"]
    /\ want' = [s \in Savers |-> NoConfig]
    /\ dst' = [s \in Savers |-> 0]
    /\ index' = [s \in Savers |-> 0]

Next ==
    \/ \E s \in Savers : \/ \E c \in Configs : Begin(s, c)
                         \/ BeginErase(s)
                         \/ SaveStep(s)
    \/ PowerFail

Spec == Init /\ [][Next]_vars

FairSpec == Spec /\ \A s \in Savers : WF_vars(SaveStep(s))

-----------------------------------------------------------------------------
(* Somebody is about to erase.                                             *)
Erasing == \E s \in Savers : pc[s] \in {"eraseFirst", "eraseFull", "failed", "eraseAll"}

(* Appending never disturbs what is already saved: as long as nothing is   *)
(* erased the log keeps its last block, wherever a save is interrupted,    *)
(* until the last word of a new header makes the new block the last one.   *)
AppendKeepsSaved ==
    [][~Erasing =>
          \/ FindLastUsed(flash') = FindLastUsed(flash)
          \/ \E s \in Savers : /\ pc[s] = "datacrc"
                               /\ FindLastUsed(flash') = dst[s]]_vars

(* A save that returns can be loaded back, as long as no save before it    *)
(* was interrupted, and the flash is locked.                               *)
SavedIsLoaded ==
    [][\A s \in Savers : pc[s] = "lock" /\ pc'[s] = "idle"
          => locked' /\ (dirty \/ Load(flash) = want[s])]_vars

(* config_flash_storage.h:16: what is saved is written "prepending it with *)
(* a CRC" for integrity checks: what a load accepts is a content that was  *)
(* saved, never a mixture of several.  It is so as long as no save was     *)
(* interrupted since the last erase.                                       *)
LoadedIsIntact == dirty \/ Load(flash) # "corrupt"

(* Does not hold (README): the same, whatever was interrupted.             *)
AlwaysIntact == Load(flash) # "corrupt"

(* config_flash_storage.c:65: "If the destination is too small to fit even *)
(* the header, erase the block": however full the sector is, no word is    *)
(* programmed outside it, and it is read past its end in one place only,   *)
(* where the header is looked for that would follow a log with one word or *)
(* none left.                                                              *)
StaysInSector ==
    [][fault' /\ ~fault =>
          /\ \E s \in Savers : pc[s] \in {"find", "free"}
          /\ Sector - FindFirstFree(flash) \in {0, 1}]_vars

(* Does not hold (README): it is not read there either.                    *)
NeverPastEnd == ~fault

(* A save that is not interrupted returns, or ends in the fault of a log   *)
(* that fills its sector: config_save calls itself at most once.           *)
SaveReturns == \A s \in Savers : pc[s] # "idle" ~> (pc[s] = "idle" \/ fault)
=============================================================================
