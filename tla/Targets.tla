------------------------------ MODULE Targets ------------------------------
(***************************************************************************)
(* The 256-bit arithmetic of src/consensus.rs and the coinbase height of   *)
(* src/solve.rs, as operators on sequences of bytes.                       *)
(*                                                                         *)
(* A byte has ByteBits bits and a target has Bytes of them, most           *)
(* significant first; a hash has the same number, least significant first. *)
(* Fewer and narrower bytes than the 32 of 8 bits keep every case of the   *)
(* algorithms: digits that fall off either end, a shift that is not a      *)
(* whole number of bytes, a remainder that would not fit its integer.      *)
(***************************************************************************)
EXTENDS Integers, Sequences, FiniteSetsExt, SequencesExt

CONSTANTS
    ByteBits,    \* bits of a byte (8)
    Bytes,       \* bytes of a target (32)
    ScaleBits,   \* target_for_difficulty's SCALE_BITS (31)
    RemBits,     \* width of the long division's remainder (u128)
    Diff1,       \* the compact form of the difficulty 1 target (0x1d00ffff)
    SmallHeights, \* the last height that is an opcode of its own (16)
    MaxPush      \* bytes of the longest height that is read (4)

Base == 2 ^ ByteBits

ASSUME TargetsAssumption ==
    /\ {ByteBits, Bytes, ScaleBits, RemBits, MaxPush} \subseteq Nat \ {0}
    /\ SmallHeights \in Nat
    /\ RemBits > ByteBits
    /\ Bytes >= 3

\* The number a string of bytes stands for, most significant byte first.
Value(bytes) == FoldLeft(LAMBDA n, b : n * Base + b, 0, bytes)

\* The i-th of the three mantissa bytes, most significant first.
MantissaByte(mantissa, i) == (mantissa \div Base ^ (3 - i)) % Base

NoTarget == <<>>

\* A compact target: the exponent counts bytes from the low end, the sign bit
\* is the mantissa's top bit.
CompactToTarget(bits) ==
    LET pos(i) == Bytes - bits.exponent + i IN
    IF \/ bits.negative
       \/ bits.exponent > Bytes
       \/ \E i \in 1..3 : pos(i) > Bytes /\ MantissaByte(bits.mantissa, i) # 0
    THEN NoTarget
    ELSE [p \in 1..Bytes |->
            IF \E i \in 1..3 : pos(i) = p
            THEN MantissaByte(bits.mantissa, p - pos(0)) ELSE 0]

\* The first byte that differs, from the most significant, decides.
HashMeetsTarget(hash, target) ==
    LET at(p) == hash[Bytes + 1 - p]
        differ == {p \in 1..Bytes : at(p) # target[p]}
    IN differ = {} \/ at(Min(differ)) < target[Min(differ)]

\* x << n within Bytes bytes; what is shifted past the top is lost.
Shl(x, n) ==
    LET bytes == n \div ByteBits
        bits  == n % ByteBits
        byte(i) == IF i \in DOMAIN x THEN x[i] ELSE 0
    IN [i \in 1..Bytes |->
          IF bits = 0 THEN byte(i + bytes)
          ELSE ((byte(i + bytes) * 2 ^ bits) % Base)
                 + byte(i + bytes + 1) \div 2 ^ (ByteBits - bits)]

\* The largest divisor whose remainder still fits after a shift by a byte.
MaxDivisor == 2 ^ (RemBits - ByteBits) - 1

\* Mutant: The remainder's room forgotten.
UncappedDivisor(scaled) == Max({scaled, 1})

\* A difficulty arrives as the whole number of 1 / 2^ScaleBits it holds.
Divisor(scaled) == Min({Max({scaled, 1}), MaxDivisor})

\* Long division of diff1 << ScaleBits, a byte at a time: the remainder after
\* i bytes, in an integer of RemBits bits, and the quotient's bytes.
TargetForDifficulty(scaled) ==
    LET divisor  == Divisor(scaled)
        dividend == Shl(CompactToTarget(Diff1), ScaleBits)
        shifted(rem, i) == (rem * Base + dividend[i]) % 2 ^ RemBits
        rem[i \in 0..Bytes] == IF i = 0 THEN 0 ELSE shifted(rem[i - 1], i) % divisor
    IN [i \in 1..Bytes |-> (shifted(rem[i - 1], i) \div divisor) % Base]

(***************************************************************************)
(* BIP34: the first push of the coinbase's scriptSig is the block height,  *)
(* a little-endian number whose last byte carries the sign in its top bit. *)
(***************************************************************************)
NoHeight == -1

\* The bytes of a number, least significant first, without leading zeros.
LittleEndian(n) ==
    LET len == Min({k \in 0..(2 * MaxPush) : n < Base ^ k})
    IN [i \in 1..len |-> (n \div Base ^ (i - 1)) % Base]

\* Mutant: A height whose top bit is set pushed as it is: a negative number.
PushUnsigned(height) ==
    IF height <= SmallHeights THEN <<>> ELSE LittleEndian(height)

\* What solve.rs pushes; refused (no push) up to SmallHeights.
PushHeight(height) ==
    LET num == LittleEndian(height) IN
    IF height <= SmallHeights THEN <<>>
    ELSE IF Last(num) >= Base \div 2 THEN Append(num, 0) ELSE num

\* What consensus.rs reads back from a push.
ReadHeight(push) ==
    IF Len(push) \notin 1..MaxPush \/ Last(push) >= Base \div 2
    THEN NoHeight ELSE Value(Reverse(push))

=============================================================================
