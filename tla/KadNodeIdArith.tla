--------------------------- MODULE KadNodeIdArith ---------------------------
(***************************************************************************)
(* The byte-wise arithmetic of TKadId (src/KadNodeId.h): an id is an array *)
(* of SIZE bytes, the most significant first, and its methods change it in *)
(* place.  A byte has BYTE_BITS bits (8 in the code), and the 16 bit       *)
(* intermediates of the code have twice as many.  Results are compared     *)
(* with the number the bytes stand for.                                    *)
(***************************************************************************)
EXTENDS Integers, FiniteSetsExt

CONSTANTS
    SIZE,           \* bytes of an id
    BYTE_BITS       \* bits of a byte

ASSUME WidthAssumption == SIZE \in Nat \ {0} /\ BYTE_BITS \in Nat \ {0}

VARIABLE mData      \* TKadId::mData

BIT_SIZE == SIZE * BYTE_BITS
ByteQty == 2 ^ BYTE_BITS
WordQty == 2 ^ (2 * BYTE_BITS)

Byte == 0..(ByteQty - 1)
Index == 0..(SIZE - 1)
AllIds == [Index -> Byte]
Zero == [i \in Index |-> 0]

\* Static casts: to uint8_t, to uint16_t and to int16_t.
UInt16(x) == x % WordQty
UInt8(x) == x % ByteQty
Int16(x) == ((x + WordQty \div 2) % WordQty) - WordQty \div 2

-----------------------------------------------------------------------------
(* Methods *)

\* The loop of Add (sign 1) and Sub (sign -1) from the last byte up: Carry[i] is
\* what reaches byte i, shifted arithmetically out of the byte behind it.
CarryUnsigned(a, b, sign) ==                              \* mutant of Carry
    LET c[i \in Index] == IF i = SIZE - 1 THEN 0
                          ELSE UInt16(c[i + 1] + a[i + 1] + sign * b[i + 1]) \div ByteQty
    IN  c
Carry(a, b, sign) ==
    LET c[i \in Index] == IF i = SIZE - 1 THEN 0
                          ELSE Int16(c[i + 1] + a[i + 1] + sign * b[i + 1]) \div ByteQty
    IN  c

Combined(a, b, sign) == [i \in Index |-> UInt8(Carry(a, b, sign)[i] + a[i] + sign * b[i])]
Added(a, b) == Combined(a, b, 1)
Subbed(a, b) == Combined(a, b, -1)

\* Shl: bytes move by uBits / bitsof(iShifted), which is a uint16_t, and bits by
\* the rest.
Shifted(a, uBits) ==
    LET move == uBits \div (2 * BYTE_BITS)
        mod == uBits % (2 * BYTE_BITS)
        s[i \in 0..SIZE] == IF i = SIZE THEN 0
                            ELSE UInt16((IF i = SIZE - 1 THEN 0 ELSE s[i + 1] \div ByteQty) + a[i] * 2 ^ mod)
    IN  IF uBits = 0 THEN a
        ELSE IF uBits >= BIT_SIZE THEN Zero
        ELSE [i \in Index |-> IF i + move < SIZE THEN UInt8(s[i + move]) ELSE 0]

ByteOf(bit) == bit \div BYTE_BITS
Weight(bit) == 2 ^ (BYTE_BITS - 1 - (bit % BYTE_BITS))
GetBit(a, bit) == (a[ByteOf(bit)] \div Weight(bit)) % 2

\* SetBit: |= sets the bit and, when it is to be cleared, ^= takes it out again.
BitSet(a, bit, val) ==
    LET set == [a EXCEPT ![ByteOf(bit)] = IF GetBit(a, bit) = 1 THEN @ ELSE @ + Weight(bit)]
    IN  IF val = 1 THEN set ELSE [set EXCEPT ![ByteOf(bit)] = @ - Weight(bit)]

BitSwapped(a, bit) == BitSet(a, bit, 1 - GetBit(a, bit))

BitsSet(a, bit, qty, val) ==
    LET now(b) == IF b \in bit..(bit + qty - 1) THEN val ELSE GetBit(a, b)
    IN  [i \in Index |-> MapThenSumSet(LAMBDA b : now(b) * Weight(b),
                                       (i * BYTE_BITS)..((i + 1) * BYTE_BITS - 1))]

PowerOfTwo(power) == BitSet(Zero, BIT_SIZE - 1 - power, 1)

\* operator <: memcmp.
LessId(a, b) == \E i \in Index : a[i] < b[i] /\ \A j \in 0..(i - 1) : a[j] = b[j]

-----------------------------------------------------------------------------
(* An id and what may be done with it *)

ArithInit == mData = Zero

Add(v) == mData' = Added(mData, v)
Sub(v) == mData' = Subbed(mData, v)
Shl(n) == mData' = Shifted(mData, n)
SetBits(bit, qty, val) == mData' = BitsSet(mData, bit, qty, val)
SwapBit(bit) == mData' = BitSwapped(mData, bit)

ArithNext ==
    \/ \E v \in AllIds : Add(v) \/ Sub(v)
    \/ \E n \in 0..BIT_SIZE : Shl(n)
    \/ \E bit \in 0..(BIT_SIZE - 1), val \in {0, 1} :
          \E qty \in 0..(BIT_SIZE - bit) : SetBits(bit, qty, val)
    \/ \E bit \in 0..(BIT_SIZE - 1) : SwapBit(bit)

ArithSpec == ArithInit /\ [][ArithNext]_mData

-----------------------------------------------------------------------------
(* Properties *)

Value(a) == MapThenSumSet(LAMBDA i : a[i] * ByteQty ^ (SIZE - 1 - i), Index)
Modulus == 2 ^ BIT_SIZE

\* Bytes stay bytes.
ArithTypeOK == mData \in AllIds

\* Add and Sub are addition and subtraction modulo 2^BIT_SIZE, borrow included.
AddsUp ==
    \A v \in AllIds : /\ Value(Added(mData, v)) = (Value(mData) + Value(v)) % Modulus
                   /\ Value(Subbed(mData, v)) = (Value(mData) - Value(v)) % Modulus

\* memcmp orders ids as numbers.
OrdersAsNumber == \A v \in AllIds : LessId(mData, v) <=> Value(mData) < Value(v)

\* What RefreshAllBuckets builds its targets of: n zeros in front leave a number
\* below 2^(BIT_SIZE - n), and PowerOfTwo is one.
BitsAreNumeric ==
    \A n \in 0..BIT_SIZE :
        /\ Value(BitsSet(mData, 0, n, 0)) = Value(mData) % 2 ^ (BIT_SIZE - n)
        /\ n < BIT_SIZE => Value(PowerOfTwo(n)) = 2 ^ n

\* Up to the shift of a byte, which is what the test asserts (Shl(1), << 7), Shl
\* multiplies by 2^n.
ShiftsWithinByte ==
    \A n \in 0..BYTE_BITS : Value(Shifted(mData, n)) = (Value(mData) * 2 ^ n) % Modulus

\* Add, Sub, the order, SetBits and PowerOfTwo compute the numbers they stand for, and Shl does
\* up to a byte, whatever was done to the id before.  Beyond a byte Shl does not: it counts in
\* words of two bytes and moves bytes.
ArithmeticAgrees == ArithTypeOK /\ AddsUp /\ OrdersAsNumber /\ BitsAreNumeric /\ ShiftsWithinByte
=============================================================================
