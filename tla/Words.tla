------------------------------- MODULE Words -------------------------------
(* The words, half words and bytes of the simulated machine.  A word is a  *)
(* number in 0..2^W-1; the C code reads it as an int (Signed) or as an     *)
(* unsigned int.  ByteBits is 8 in the code.                               *)
EXTENDS Integers, FiniteSetsExt

CONSTANT ByteBits

ASSUME ByteAssumption == ByteBits \in Nat \ {0}

W == 4 * ByteBits
Word == 0..(2^W - 1)
Byte == 0..(2^ByteBits - 1)

(* What is left of an integer in a word, and an int's value.               *)
Wrap(n) == n % 2^W
SignBit(w) == w >= 2^(W - 1)
Signed(w) == IF SignBit(w) THEN w - 2^W ELSE w

(* Low bits of a word, as an unsigned and as a signed number.              *)
Low(w, bits) == w % 2^bits
Extend(w, bits) ==
    IF Low(w, bits) >= 2^(bits - 1) THEN Wrap(Low(w, bits) - 2^bits) ELSE Low(w, bits)

(* The operators &, |, ^ and ~ of C, on the sets of the bits that are 1.   *)
Bits(w) == {i \in 0..(W - 1) : (w \div 2^i) % 2 = 1}
OfBits(S) == MapThenSumSet(LAMBDA i : 2^i, S)
And(v, w) == OfBits(Bits(v) \cap Bits(w))
Or(v, w)  == OfBits(Bits(v) \cup Bits(w))
Xor(v, w) == OfBits((Bits(v) \cup Bits(w)) \ (Bits(v) \cap Bits(w)))
Not(w)    == 2^W - 1 - w

(* Little endian: the byte at the lowest address is the least significant. *)
FromBytes(size, b) == MapThenSumSet(LAMBDA k : b[k] * 2^(ByteBits * k), 0..(size - 1))
ByteOf(w, k) == (w \div 2^(ByteBits * k)) % 2^ByteBits
=============================================================================
