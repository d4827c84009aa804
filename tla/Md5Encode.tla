----------------------------- MODULE Md5Encode -----------------------------
(***************************************************************************)
(* Md5Encode: how Encode cuts a password into the blocks it digests.  A    *)
(* byte is what it stands for: a byte of the password, the 0x80 behind it, *)
(* a zero, or a byte of the length.  The rounds on a block are left out.   *)
(***************************************************************************)
EXTENDS Naturals

CONSTANT MaxPassword  \* bound on the bytes of a password

ASSUME Md5Assumption == MaxPassword \in Nat

BIT_OF_BYTE == 8
BIT_OF_GROUP == 512
SRC_DATA_LEN == 64

Bytes(bits) == bits \div BIT_OF_BYTE

(* Mutant: the byte 0x80 is given room twice. *)
BitNeedFillTwice(n) ==
  LET mod == (n * BIT_OF_BYTE) % BIT_OF_GROUP
  IN  IF mod >= BIT_OF_GROUP - SRC_DATA_LEN - BIT_OF_BYTE
      THEN (BIT_OF_GROUP - mod) + (BIT_OF_GROUP - SRC_DATA_LEN)
      ELSE (BIT_OF_GROUP - SRC_DATA_LEN) - mod

(* The bits FillData adds to n bytes, without the length.                  *)
BitNeedFill(n) ==
  LET mod == (n * BIT_OF_BYTE) % BIT_OF_GROUP
  IN  IF mod > BIT_OF_GROUP - SRC_DATA_LEN
      THEN (BIT_OF_GROUP - mod) + (BIT_OF_GROUP - SRC_DATA_LEN)
      ELSE (BIT_OF_GROUP - SRC_DATA_LEN) - mod

NoData == [i \in {} |-> "none"]

(* FillData: the length it returns and the bytes it writes, none of them   *)
(* when there is nothing to add but the length.                            *)
FillData(n) ==
  LET all == n + Bytes(BitNeedFill(n))
      total == all + Bytes(SRC_DATA_LEN)
  IN  [length |-> total,
       data |-> IF BitNeedFill(n) = 0 THEN NoData
                ELSE [i \in 0 .. total - 1 |->
                        IF i >= all THEN "length"
                        ELSE IF i < n THEN "password"
                        ELSE IF i = n THEN "0x80" ELSE "0"]]

(* The blocks of Encode: RotationCalculate skips a block at NULL.          *)
Blocks(n) ==
  LET filled == FillData(n)
  IN  [b \in 0 .. filled.length \div Bytes(BIT_OF_GROUP) - 1 |->
         [i \in { i \in 0 .. Bytes(BIT_OF_GROUP) - 1 :
                    b * Bytes(BIT_OF_GROUP) + i \in DOMAIN filled.data } |->
            filled.data[b * Bytes(BIT_OF_GROUP) + i]]]

-----------------------------------------------------------------------------
(* MD5 as its standard has it: behind the password a one bit, and as few   *)
(* zeros as make it and the length of eight bytes full blocks.             *)
StandardBlocks(n) ==
  LET count == (n + 1 + 8 + 63) \div 64
      At(k) == IF k < n THEN "password"
               ELSE IF k = n THEN "0x80"
               ELSE IF k < 64 * count - 8 THEN "0" ELSE "length"
  IN  [b \in 0 .. count - 1 |-> [i \in 0 .. 63 |-> At(64 * b + i)]]

(* Encode digests the blocks MD5 prescribes, unless exactly the length is  *)
(* missing to a full block ("one more BIT_OF_GROUP would avoid that        *)
(* bit_need_fill is 0, not added for now"): then it digests nothing, so    *)
(* that all passwords of 56 bytes have one hash, and longer ones are read  *)
(* from NULL.                                                              *)
PaddingIsStandard ==
  \A n \in 0 .. MaxPassword :
    IF n % 64 = 56
    THEN FillData(n).data = NoData
    ELSE Blocks(n) = StandardBlocks(n)
=============================================================================
