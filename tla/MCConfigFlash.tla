---------------------------- MODULE MCConfigFlash ----------------------------
(* Contents of two and four words: a sector of fifteen words takes two or *)
(* three blocks, and then has five words left, too few for the longer      *)
(* content, three, too few for any data, or one or none, too few for the   *)
(* header that is looked for there.                                        *)
EXTENDS ConfigFlash, FlashSector
CONSTANTS shell, vm, x, y
OneSaver == {shell}
TwoSavers == {shell, vm}
MCConfigs == {x, y}
MCDstLen == [s \in Savers |-> Sector]
(* skel_user.c:198 declares the two ends of the sector as words: the VM    *)
(* passes a quarter of the length that the shell passes (cmd.c:629).       *)
QuarterDstLen == [s \in Savers |-> IF s = vm THEN Sector \div 4 ELSE Sector]
OneConfig == {x}
MCLength == [c \in Configs |-> IF c = x THEN 2 ELSE 4]

(* What the store takes for an erase of its sector is one: in whatever     *)
(* page of the flash the linker puts it, the sector that the driver clears *)
(* is the one that this page is in.                                        *)
EraseTakesItsSector == [][Erasing /\ flash' # flash => ErasesItsSector]_vars
=============================================================================
