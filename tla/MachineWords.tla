---------------------------- MODULE MachineWords ----------------------------
(***************************************************************************)
(* The integer types of the virtual machine (src/src/vm.c), scaled: a byte *)
(* keeps its 8 bits, the 64-bit stack word becomes WordBytes = 2 bytes and *)
(* the 32-bit address one byte.  What the code depends on is kept: a word  *)
(* is signed and little-endian, an address is unsigned and narrower than a *)
(* word, and every cast drops high-order bits.                             *)
(***************************************************************************)
EXTENDS Integers, Sequences

Byte      == 0 .. 255
WordBytes == 2
Word      == -32768 .. 32767        \* int64_t
Address   == 0 .. 255               \* uint32_t

(* Two's complement reduction: what a signed operation leaves in the word. *)
Wrap(x) == ((x + 32768) % 65536) - 32768

ToU32(x) == x % 256                          \* (uint32_t)x
ToI32(x) == ((x + 128) % 256) - 128          \* (int)x
ToU64(x) == x % 65536                        \* (size_t)x, the word as unsigned
ToI8(x)  == ((x + 128) % 256) - 128          \* (int8_t)x

(* Little-endian access to a zero-based array of bytes. *)
read_i64(m, p) == Wrap(m[p] + 256 * m[p + 1])

(* A word as it is stored (buf_write_i64), low byte first.                 *)
word_bytes(v) == <<v % 256, (v \div 256) % 256>>

(* The bytes are written from p on.  Nothing in C ends a write at the end  *)
(* of the array: what goes past it is there in the result.                 *)
write_bytes(m, p, bytes) ==
  [a \in DOMAIN m \cup (p .. p + Len(bytes) - 1) |->
     IF a - p + 1 \in DOMAIN bytes THEN bytes[a - p + 1] ELSE m[a]]

(* C division truncates toward zero; the remainder has the dividend's sign. *)
Magnitude(x) == IF x < 0 THEN -x ELSE x
CDiv(a, b) == LET q == Magnitude(a) \div Magnitude(b)
              IN  IF (a < 0) # (b < 0) THEN -q ELSE q
CMod(a, b) == LET r == Magnitude(a) % Magnitude(b)
              IN  IF a < 0 THEN -r ELSE r

(* A bitwise operation applies f to the bits of a and b at each position. *)
Bits4(f(_, _), a, b) ==
  f(a % 2, b % 2) + 2 * f((a \div 2) % 2, (b \div 2) % 2)
    + 4 * f((a \div 4) % 2, (b \div 4) % 2) + 8 * f((a \div 8) % 2, (b \div 8) % 2)
Bitwise16(f(_, _), a, b) ==
  Wrap(Bits4(f, a, b) + 16 * Bits4(f, a \div 16, b \div 16)
         + 256 * Bits4(f, a \div 256, b \div 256)
         + 4096 * Bits4(f, a \div 4096, b \div 4096))

And1(x, y) == x * y
Or1(x, y)  == x + y - x * y
Xor1(x, y) == (x + y) % 2

BitAnd(a, b) == Bitwise16(And1, a, b)
BitOr(a, b)  == Bitwise16(Or1, a, b)
BitXor(a, b) == Bitwise16(Xor1, a, b)

(* A shift: the count is undefined in C outside the width; the builds mask *)
(* it, and >> of a signed word copies the sign.                            *)
Pow2     == <<1, 2, 4, 8, 16, 32, 64, 128, 256, 512, 1024, 2048, 4096, 8192, 16384, 32768>>
Shl(a, b) == Wrap(a * Pow2[(b % 16) + 1])
Shr(a, b) == a \div Pow2[(b % 16) + 1]
=============================================================================
