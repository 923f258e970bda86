----------------------------- MODULE WordProofs -----------------------------
(***************************************************************************)
(* What the operators of MachineWords return: every cast, load and         *)
(* arithmetic instruction stays within the width of its type.              *)
(***************************************************************************)
EXTENDS MachineWords, TLAPS

(* A signed result is cut to a word.                                       *)
LEMMA WrapWord == ASSUME NEW x \in Int PROVE Wrap(x) \in Word
BY SMTT(30) DEF Wrap, Word

(* A word is an integer, bytes and addresses are naturals.                 *)
LEMMA WordInt == Word \subseteq Int /\ Byte \subseteq Nat /\ Address \subseteq Nat
BY DEF Word, Byte, Address

(* Membership in Word, as inequalities.                                    *)
LEMMA WordBounds ==
  ASSUME NEW x \in Int
  PROVE  x \in Word <=> -32768 <= x /\ x <= 32767
BY SMTT(90) DEF Word

(* The casts return members of their types.                                *)
LEMMA Casts ==
  ASSUME NEW x \in Int
  PROVE  ToU32(x) \in Address /\ ToU64(x) \in Nat /\ ToI32(x) \in Word
<1>1. ToU32(x) \in Address
  BY DEF ToU32, Address
<1>2. ToU64(x) \in Nat
  BY DEF ToU64
<1>3. ToI32(x) \in Int /\ -32768 <= ToI32(x) /\ ToI32(x) <= 32767
  BY DEF ToI32
<1>4. QED
  BY <1>1, <1>2, <1>3, WordBounds

(* A byte loaded with its sign is a word.                                  *)
LEMMA SignedByte ==
  ASSUME NEW x \in Byte
  PROVE  ToI8(x) \in Word
<1>1. ToI8(x) \in Int /\ -32768 <= ToI8(x) /\ ToI8(x) <= 32767
  BY DEF ToI8, Byte
<1>2. QED
  BY <1>1, WordBounds

(* Two bytes loaded are a word.                                            *)
LEMMA ReadWord ==
  ASSUME NEW m, NEW p, m[p] \in Byte, m[p + 1] \in Byte
  PROVE  read_i64(m, p) \in Word
<1>1. ASSUME NEW x \in Byte, NEW y \in Byte
      PROVE  Wrap(x + 256 * y) \in Word
  <2>1. x + 256 * y \in Int
    BY DEF Byte
  <2>2. QED
    BY <2>1, WrapWord
<1>2. QED
  BY <1>1, Zenon DEF read_i64

(* The low and the high byte of a word.                                    *)
LEMMA BytesOfWord ==
  ASSUME NEW v \in Int
  PROVE  v % 256 \in Byte /\ (v \div 256) % 256 \in Byte
<1>1. \A x \in Int : x % 256 \in Byte
  BY DEF Byte
<1>2. v \div 256 \in Int
  OBVIOUS
<1>3. QED
  BY <1>1, <1>2, Zenon

(* Bytes written inside an array of bytes leave one.                       *)
LEMMA WriteBytes ==
  ASSUME NEW S \in SUBSET Int, NEW m \in [S -> Byte], NEW p \in Int, NEW bytes \in Seq(Byte),
         p .. p + Len(bytes) - 1 \subseteq S
  PROVE  write_bytes(m, p, bytes) \in [S -> Byte]
<1>1. PICK n \in Nat : n = Len(bytes) /\ DOMAIN bytes = 1 .. n
  OBVIOUS
<1>2. DOMAIN m \cup (p .. p + n - 1) = S
  BY <1>1
<1>3. write_bytes(m, p, bytes) =
        [a \in S |-> IF a - p + 1 \in DOMAIN bytes THEN bytes[a - p + 1] ELSE m[a]]
  BY <1>1, <1>2 DEF write_bytes
<1>4. \A k \in DOMAIN bytes : bytes[k] \in Byte
  BY <1>1
<1>5. \A a \in S : (IF a - p + 1 \in DOMAIN bytes THEN bytes[a - p + 1] ELSE m[a]) \in Byte
  BY <1>4
<1>6. QED
  BY <1>3, <1>5

(* Nothing is written but the bytes given, from p on.                      *)
LEMMA WrittenBytes ==
  ASSUME NEW m, DOMAIN m \subseteq Int, NEW p \in Int, NEW bytes \in Seq(Byte), NEW w,
         w = write_bytes(m, p, bytes), NEW a \in DOMAIN w, a \notin DOMAIN m \/ w[a] # m[a]
  PROVE  a \in p .. p + Len(bytes) - 1
<1>1. PICK n \in Nat : n = Len(bytes) /\ DOMAIN bytes = 1 .. n
  OBVIOUS
<1>2. /\ DOMAIN w = DOMAIN m \cup (p .. p + n - 1)
      /\ a \in DOMAIN m => w[a] = IF a - p + 1 \in 1 .. n THEN bytes[a - p + 1] ELSE m[a]
  BY <1>1 DEF write_bytes
<1>3. CASE a \notin DOMAIN m
  BY <1>1, <1>2, <1>3
<1>4. CASE a \in DOMAIN m
  <2>1. a \in Int /\ a - p + 1 \in 1 .. n
    BY <1>2, <1>4
  <2>2. QED
    BY <1>1, <2>1
<1>5. QED
  BY <1>3, <1>4

(* A word is stored as WordBytes bytes.                                    *)
LEMMA StoredWord ==
  ASSUME NEW v \in Word
  PROVE  word_bytes(v) \in Seq(Byte) /\ Len(word_bytes(v)) = 2
<1>1. v \in Int
  BY WordInt
<1>2. PICK x \in Byte, y \in Byte : x = v % 256 /\ y = (v \div 256) % 256
  BY <1>1, BytesOfWord
<1>3. word_bytes(v) = <<x, y>>
  BY <1>2 DEF word_bytes
<1>4. QED
  BY <1>3

(* The magnitude of a word: the lowest one has no positive counterpart.    *)
LEMMA MagnitudeOfWord ==
  ASSUME NEW x \in Word
  PROVE  /\ Magnitude(x) \in Int /\ 0 <= Magnitude(x) /\ Magnitude(x) <= 32768
         /\ x # 0 => 0 < Magnitude(x)
<1>1. x \in Int /\ -32768 <= x /\ x <= 32767
  BY WordInt, WordBounds
<1>2. QED
  BY <1>1 DEF Magnitude

(* The remainder of a division by at most 2^15 is below it.                *)
LEMMA Remainder ==
  ASSUME NEW n \in Int, NEW d \in Int, 0 < d, d <= 32768
  PROVE  n \div d \in Int /\ n % d \in Word /\ -(n % d) \in Word
<1>1. n \div d \in Int
  OBVIOUS
<1>2. n % d \in Int /\ 0 <= n % d /\ n % d <= 32767
  OBVIOUS
<1>3. PICK r \in Int : r = n % d /\ 0 <= r /\ r <= 32767
  BY <1>2
<1>4. -r \in Int /\ -32768 <= -r /\ -r <= 32767
  BY <1>3
<1>5. r \in Word /\ -r \in Word
  BY <1>3, <1>4, WordBounds
<1>6. QED
  BY <1>1, <1>3, <1>5

(* Division of magnitudes truncates, so both results are small enough.     *)
LEMMA DivideWord ==
  ASSUME NEW a \in Word, NEW b \in Word, b # 0
  PROVE  CDiv(a, b) \in Int /\ CMod(a, b) \in Word
<1> DEFINE n == Magnitude(a)
           d == Magnitude(b)
<1>1. n \in Int
  BY MagnitudeOfWord
<1>2. d \in Int /\ 0 < d /\ d <= 32768
  BY MagnitudeOfWord
<1> HIDE DEF n, d
<1>3. n \div d \in Int /\ n % d \in Word /\ -(n % d) \in Word
  BY <1>1, <1>2, Remainder
<1>4. -(n \div d) \in Int
  BY <1>3
<1>5. CDiv(a, b) = IF (a < 0) # (b < 0) THEN -(n \div d) ELSE n \div d
  BY Zenon DEF CDiv, n, d
<1>6. CMod(a, b) = IF a < 0 THEN -(n % d) ELSE n % d
  BY Zenon DEF CMod, n, d
<1>7. QED
  BY <1>3, <1>4, <1>5, <1>6, Zenon

(* A bitwise instruction leaves a word: sixteen bits, four at a time, make *)
(* an integer that Wrap cuts.                                              *)
LEMMA BitwiseWord ==
  ASSUME NEW a \in Int, NEW b \in Int
  PROVE  BitAnd(a, b) \in Word /\ BitOr(a, b) \in Word /\ BitXor(a, b) \in Word
<1>1. BitAnd(a, b) \in Word
  <2> DEFINE B(x, y) == Bits4(And1, x, y)
             sum == B(a, b) + 16 * B(a \div 16, b \div 16) + 256 * B(a \div 256, b \div 256)
                      + 4096 * B(a \div 4096, b \div 4096)
  <2>1. /\ B(a, b) \in Int /\ B(a \div 16, b \div 16) \in Int
        /\ B(a \div 256, b \div 256) \in Int /\ B(a \div 4096, b \div 4096) \in Int
    BY DEF Bits4, And1
  <2> HIDE DEF B
  <2>2. sum \in Int
    BY <2>1
  <2>3. BitAnd(a, b) = Wrap(sum)
    BY DEF BitAnd, Bitwise16, B
  <2> HIDE DEF sum
  <2>4. QED
    BY <2>2, <2>3, WrapWord
<1>2. BitOr(a, b) \in Word
  <2> DEFINE B(x, y) == Bits4(Or1, x, y)
             sum == B(a, b) + 16 * B(a \div 16, b \div 16) + 256 * B(a \div 256, b \div 256)
                      + 4096 * B(a \div 4096, b \div 4096)
  <2>1. /\ B(a, b) \in Int /\ B(a \div 16, b \div 16) \in Int
        /\ B(a \div 256, b \div 256) \in Int /\ B(a \div 4096, b \div 4096) \in Int
    BY DEF Bits4, Or1
  <2> HIDE DEF B
  <2>2. sum \in Int
    BY <2>1
  <2>3. BitOr(a, b) = Wrap(sum)
    BY DEF BitOr, Bitwise16, B
  <2> HIDE DEF sum
  <2>4. QED
    BY <2>2, <2>3, WrapWord
<1>3. BitXor(a, b) \in Word
  <2> DEFINE B(x, y) == Bits4(Xor1, x, y)
             sum == B(a, b) + 16 * B(a \div 16, b \div 16) + 256 * B(a \div 256, b \div 256)
                      + 4096 * B(a \div 4096, b \div 4096)
  <2>1. /\ B(a, b) \in Int /\ B(a \div 16, b \div 16) \in Int
        /\ B(a \div 256, b \div 256) \in Int /\ B(a \div 4096, b \div 4096) \in Int
    BY DEF Bits4, Xor1
  <2> HIDE DEF B
  <2>2. sum \in Int
    BY <2>1
  <2>3. BitXor(a, b) = Wrap(sum)
    BY DEF BitXor, Bitwise16, B
  <2> HIDE DEF sum
  <2>4. QED
    BY <2>2, <2>3, WrapWord
<1>4. QED
  BY <1>1, <1>2, <1>3

(* A shift count is masked to one of sixteen powers of two.                *)
LEMMA Powers ==
  ASSUME NEW b \in Int
  PROVE  Pow2[(b % 16) + 1] \in {1, 2, 4, 8, 16, 32, 64, 128, 256, 512, 1024, 2048, 4096,
                                8192, 16384, 32768}
<1>1. PICK i \in 1 .. 16 : i = (b % 16) + 1
  OBVIOUS
<1>2. QED
  BY <1>1, SMTT(30) DEF Pow2

(* Division by a positive number does not leave the word.                  *)
LEMMA QuotientWord ==
  ASSUME NEW a \in Word, NEW k \in Int, k > 0
  PROVE  a \div k \in Word
<1>1. a \in Int /\ -32768 <= a /\ a <= 32767
  BY WordInt, WordBounds
<1>2. PICK q \in Int : q = a \div k
  BY <1>1
<1>3. k * q <= a /\ a < k * q + k
  BY <1>1, <1>2
<1>4. -32768 <= q /\ q <= 32767
  <2>1. CASE q >= 0
    <3>1. k * q >= q
      BY <2>1
    <3>2. QED
      BY <3>1, <2>1, <1>1, <1>3
  <2>2. CASE q < 0
    <3>1. k * (q + 1) <= q + 1
      BY <2>2
    <3>2. k * q + k <= q + 1
      BY <3>1
    <3>3. QED
      BY <3>2, <2>2, <1>1, <1>3
  <2>3. QED
    BY <2>1, <2>2
<1>5. QED
  BY <1>2, <1>4, WordBounds

(* A shift leaves a word.                                                  *)
LEMMA ShiftWord ==
  ASSUME NEW a \in Word, NEW b \in Int
  PROVE  Shl(a, b) \in Word /\ Shr(a, b) \in Word
<1>1. PICK k \in Nat \ {0} : k = Pow2[(b % 16) + 1]
  BY Powers
<1>2. a * k \in Int
  BY WordInt
<1>3. a \div k \in Word
  BY QuotientWord
<1>4. QED
  BY <1>1, <1>2, <1>3, WrapWord DEF Shl, Shr
=============================================================================
