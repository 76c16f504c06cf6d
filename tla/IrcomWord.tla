------------------------------ MODULE IrcomWord ------------------------------
(***************************************************************************)
(* The word of the infrared link: eight bits of data and a checksum of     *)
(* two, as ircomSendCalcSending makes it and as ircomReceiveCheckCRC and   *)
(* ircomBin2Int read it, with a channel between them that turns a mark     *)
(* into a space or back.  The two marks that start a word are left out:    *)
(* the receiver takes them off before it records a bit.                    *)
(***************************************************************************)
EXTENDS Integers, FiniteSetsExt

IRCOM_WORDSIZE == 8
Bits == 0..(IRCOM_WORDSIZE + 1)

\* the first bit is the highest
ircomInt2Bin(n) ==
    [i \in 0..(IRCOM_WORDSIZE - 1) |-> (n \div 2^(IRCOM_WORDSIZE - 1 - i)) % 2]

ircomBin2Int(w) ==
    LET n[i \in 0..IRCOM_WORDSIZE] == IF i = 0 THEN 0 ELSE 2 * n[i - 1] + w[i - 1]
    IN  n[IRCOM_WORDSIZE]

\* the number of spaces, which are ones
BitSum(w) == Quantify(0..(IRCOM_WORDSIZE - 1), LAMBDA i : w[i] = 1)

\* mutant: the checksum is the sum and not its complement
ircomSendCalcSum(n) ==
    LET w == ircomInt2Bin(n)
        bitSum == BitSum(w) % 4
    IN  [i \in Bits |-> CASE i < IRCOM_WORDSIZE      -> w[i]
                          [] i = IRCOM_WORDSIZE      -> (bitSum \div 2) % 2
                          [] i = IRCOM_WORDSIZE + 1  -> bitSum % 2]

ircomSendCalcSending(n) ==
    LET w == ircomInt2Bin(n)
        bitSum == 4 - (BitSum(w) % 4)
    IN  [i \in Bits |-> CASE i < IRCOM_WORDSIZE      -> w[i]
                          [] i = IRCOM_WORDSIZE      -> (bitSum \div 2) % 2
                          [] i = IRCOM_WORDSIZE + 1  -> bitSum % 2]

\* mutant: the low bit of the checksum is not counted
CheckHighBit(w) == (w[IRCOM_WORDSIZE] * 2 + BitSum(w)) % 4

ircomReceiveCheckCRC(w) == (w[IRCOM_WORDSIZE] * 2 + w[IRCOM_WORDSIZE + 1] + BitSum(w)) % 4

\* what the channel makes of a word: the bits it turns
Disturbed(w, flips) == [i \in Bits |-> IF i \in flips THEN 1 - w[i] ELSE w[i]]

Values == 0..255
Received(n, flips) == Disturbed(ircomSendCalcSending(n), flips)

(* A word that is not disturbed brings its value and no error; one with    *)
(* one wrong bit, of the data or of the checksum, is an error.             *)
WordIsChecked ==
    \A n \in Values :
        /\ ircomBin2Int(Received(n, {})) = n /\ ircomReceiveCheckCRC(Received(n, {})) = 0
        /\ \A i \in Bits : ircomReceiveCheckCRC(Received(n, {i})) # 0

(* Does not hold (README).  ircom.h:34: "int error; // -1 = inexistent     *)
(* msg, 0 = all is ok, 1 = error in transmission".                         *)
ErrorIsFlag == \A n \in Values, i \in Bits : ircomReceiveCheckCRC(Received(n, {i})) \in {0, 1}
=============================================================================
