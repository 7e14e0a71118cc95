----------------------------- MODULE Codec_proofs -----------------------------
(***************************************************************************)
(* Theorems about the wire formats, for every size of their fields, every  *)
(* bound of their lists and every value and payload of their types.        *)
(*                                                                         *)
(* The scanners.  A scanner and the standard are both a walk over a text,  *)
(* from each accepted character to the one behind it; a text has one such  *)
(* walk, found from its end by induction, so two scanners agree when they  *)
(* step from each position alike (Edges): that is shown width by width.    *)
(*                                                                         *)
(* The formats.  Each one Agrees: a value is refused, or written so that   *)
(* its reader returns what it means (Faithful); a payload that is read can *)
(* be written again (Stable).  There is a lemma for each format, and       *)
(* CodecInv says that a behaviour only carries such values and payloads.   *)
(***************************************************************************)
EXTENDS WireCodec, WellFoundedInduction, SequenceTheorems, FiniteSetTheorems, TLAPS

-------------------------------------------------------------------------------
(* Induction.  The library's induction theorems are about operators; these    *)
(* two say the same of sets.                                                  *)

\* A set of naturals that is not empty has a least element.
LEMMA LeastNatural ==
  ASSUME NEW T \in SUBSET Nat, T # {}
  PROVE  \E n \in T : \A m \in T : n <= m
<1> DEFINE R == {ss \in Nat \X Nat : ss[1] < ss[2]}
<1>1. IsWellFoundedOn(R, Nat)
  BY NatLessThanWellFounded, Zenon DEF OpToRel
<1>2. PICK n \in T : \A m \in T : ~(<<m, n>> \in R)
  BY <1>1, WFMin
<1>3. ASSUME NEW m \in T PROVE n <= m
  <2>1. m \in Nat /\ n \in Nat /\ <<m, n>> \notin R
    BY <1>2
  <2>2. m < n => <<m, n>> \in Nat \X Nat /\ <<m, n>>[1] < <<m, n>>[2]
    BY <2>1
  <2>3. m < n => <<m, n>> \in R
    BY <2>2
  <2> QED
    BY <2>1, <2>3
<1> QED
  BY <1>3

\* A set that holds 0 and the successor of each natural in it holds them
\* all.
LEMMA SetInduction ==
  ASSUME NEW S, 0 \in S, \A n \in Nat : n \in S => n + 1 \in S
  PROVE  Nat \subseteq S
<1> DEFINE T == {n \in Nat : n \notin S}
<1> SUFFICES ASSUME T # {} PROVE FALSE
  OBVIOUS
<1>1. PICK n \in T : \A m \in T : n <= m
  BY LeastNatural
<1>2. n # 0 /\ n - 1 \in Nat /\ n - 1 \notin T
  BY <1>1
<1> QED
  BY <1>1, <1>2

-------------------------------------------------------------------------------
(* The scanners.  All of them walk a text of L bytes from character to        *)
(* character: E has the position and the width of each one that is accepted.  *)

Places(L) == 1..L + 1
Widths(L) == {e \in (1..L) \X (1..4) : e[1] + e[2] <= L + 1}
Walks(f, L, E) ==
  f = [i \in Places(L) |-> i = L + 1 \/ \E w \in 1..4 : <<i, w>> \in E /\ f[i + w]]

\* There is one such walk: it is found from the end of the text backwards,
LEMMA WalkExists ==
  ASSUME NEW L \in Nat, NEW E \in SUBSET Widths(L)
  PROVE  \E f \in [Places(L) -> BOOLEAN] : Walks(f, L, E)
<1> DEFINE Good(f, i) == f[i] <=> (i = L + 1 \/ \E w \in 1..4 : <<i, w>> \in E /\ f[i + w])
           S == {n \in Nat : n <= L => \E f \in [Places(L) -> BOOLEAN] :
                                         \A i \in L + 1 - n..L + 1 : Good(f, i)}
<1>0. \A i \in Places(L), w \in 1..4 : <<i, w>> \in E => i + w \in Places(L) /\ i + w > i /\ i # L + 1
  <2> SUFFICES ASSUME NEW i \in Places(L), NEW w \in 1..4, <<i, w>> \in E
               PROVE  i + w \in Places(L) /\ i + w > i /\ i # L + 1
    OBVIOUS
  <2>1. <<i, w>> \in (1..L) \X (1..4) /\ <<i, w>>[1] + <<i, w>>[2] <= L + 1
    BY DEF Widths
  <2> QED
    BY <2>1 DEF Places
<1>1. 0 \in S
  <2> DEFINE f == [i \in Places(L) |-> TRUE]
  <2>1. f \in [Places(L) -> BOOLEAN] /\ \A i \in L + 1 - 0..L + 1 : Good(f, i)
    BY DEF Places
  <2> QED
    BY <2>1
<1>2. ASSUME NEW n \in Nat, n \in S PROVE n + 1 \in S
  <2> SUFFICES ASSUME n + 1 <= L
               PROVE  \E f \in [Places(L) -> BOOLEAN] : \A i \in L + 1 - (n + 1)..L + 1 : Good(f, i)
    OBVIOUS
  <2>1. PICK g \in [Places(L) -> BOOLEAN] : \A i \in L + 1 - n..L + 1 : Good(g, i)
    BY <1>2
  <2> DEFINE k == L - n
             here == \E w \in 1..4 : <<k, w>> \in E /\ g[k + w]
             f == [i \in Places(L) |-> IF i = k THEN here ELSE g[i]]
  <2>0. k \in Int /\ 1 <= k /\ k <= L /\ L + 1 - (n + 1) = k /\ L + 1 - n = k + 1
    OBVIOUS
  <2>2. k \in Places(L) /\ k # L + 1 /\ f \in [Places(L) -> BOOLEAN]
    <3>1. here \in BOOLEAN
      OBVIOUS
    <3>2. k \in Places(L) /\ k # L + 1
      BY <2>0 DEF Places
    <3> HIDE DEF here, k
    <3> QED
      BY <3>1, <3>2
  <2>3. ASSUME NEW i \in L + 1 - (n + 1)..L + 1 PROVE Good(f, i)
    <3>1. i \in Places(L) /\ i >= k
      BY <2>0, <2>2, <2>3 DEF Places
    <3>2. \A w \in 1..4 : <<i, w>> \in E => f[i + w] = g[i + w]
      <4> SUFFICES ASSUME NEW w \in 1..4, <<i, w>> \in E PROVE f[i + w] = g[i + w]
        OBVIOUS
      <4>1. i + w \in Places(L) /\ i + w > i
        BY <1>0, <3>1
      <4>2. i + w # k
        BY <2>0, <3>1, <4>1 DEF Places
      <4> HIDE DEF here, k
      <4> QED
        BY <4>1, <4>2
    <3>3. CASE i = k
      BY <2>2, <3>1, <3>2, <3>3
    <3>4. CASE i # k
      <4>1. i \in L + 1 - n..L + 1
        BY <2>0, <2>3, <3>1, <3>4
      <4> QED
        BY <2>1, <3>1, <3>2, <3>4, <4>1
    <3> QED
      BY <3>3, <3>4
  <2> QED
    BY <2>2, <2>3
<1> HIDE DEF S
<1>3. L \in S
  BY <1>1, <1>2, SetInduction
<1> USE DEF S
<1>4. PICK f \in [Places(L) -> BOOLEAN] : \A i \in L + 1 - L..L + 1 : Good(f, i)
  BY <1>3
<1>5. \A i \in Places(L) : f[i] = (i = L + 1 \/ \E w \in 1..4 : <<i, w>> \in E /\ f[i + w])
  <2> SUFFICES ASSUME NEW i \in Places(L)
               PROVE  f[i] = (i = L + 1 \/ \E w \in 1..4 : <<i, w>> \in E /\ f[i + w])
    OBVIOUS
  <2>1. i \in L + 1 - L..L + 1
    BY DEF Places
  <2>2. Good(f, i) /\ f[i] \in BOOLEAN
    BY <1>4, <2>1
  <2> QED
    BY <2>2, Zenon
<1>6. Walks(f, L, E)
  BY <1>5 DEF Walks
<1> QED
  BY <1>6

\* and two of them agree, from the end of the text backwards.
LEMMA WalkUnique ==
  ASSUME NEW L \in Nat, NEW E \in SUBSET Widths(L), NEW f, NEW g, Walks(f, L, E), Walks(g, L, E)
  PROVE  f[1] = g[1]
<1> DEFINE S == {n \in Nat : n <= L => \A i \in L + 1 - n..L + 1 : f[i] = g[i]}
<1>0. \A i \in Places(L), w \in 1..4 : <<i, w>> \in E => i + w \in Places(L) /\ i + w > i /\ i # L + 1
  <2> SUFFICES ASSUME NEW i \in Places(L), NEW w \in 1..4, <<i, w>> \in E
               PROVE  i + w \in Places(L) /\ i + w > i /\ i # L + 1
    OBVIOUS
  <2>1. <<i, w>> \in (1..L) \X (1..4) /\ <<i, w>>[1] + <<i, w>>[2] <= L + 1
    BY DEF Widths
  <2> QED
    BY <2>1 DEF Places
<1>1. \A i \in Places(L) :
         /\ f[i] = (i = L + 1 \/ \E w \in 1..4 : <<i, w>> \in E /\ f[i + w])
         /\ g[i] = (i = L + 1 \/ \E w \in 1..4 : <<i, w>> \in E /\ g[i + w])
  BY Zenon DEF Walks
<1>2. 0 \in S
  <2>1. L + 1 \in Places(L) /\ \A i \in L + 1 - 0..L + 1 : i = L + 1
    BY DEF Places
  <2> QED
    BY <1>1, <2>1
<1>3. ASSUME NEW n \in Nat, n \in S PROVE n + 1 \in S
  <2> SUFFICES ASSUME n + 1 <= L, NEW i \in L + 1 - (n + 1)..L + 1 PROVE f[i] = g[i]
    OBVIOUS
  <2>1. \A j \in L + 1 - n..L + 1 : f[j] = g[j]
    BY <1>3
  <2>2. i \in Places(L)
    BY DEF Places
  <2>3. \A w \in 1..4 : <<i, w>> \in E => f[i + w] = g[i + w]
    <3> SUFFICES ASSUME NEW w \in 1..4, <<i, w>> \in E PROVE f[i + w] = g[i + w]
      OBVIOUS
    <3>1. i + w \in Places(L) /\ i + w > i
      BY <1>0, <2>2
    <3>2. i + w \in L + 1 - n..L + 1
      BY <3>1 DEF Places
    <3> QED
      BY <2>1, <3>2
  <2> QED
    BY <1>1, <2>2, <2>3
<1> HIDE DEF S
<1>4. L \in S
  BY <1>2, <1>3, SetInduction
<1> USE DEF S
<1> QED
  BY <1>4

-------------------------------------------------------------------------------
(* The standard's encoding of a group of bytes, width by width.               *)


\* The high and the low part of a number written in base 64.
LEMMA Digits ==
  ASSUME NEW c, NEW h \in Nat, NEW z \in 0..63, c = 64 * h + z
  PROVE  c \div 64 = h /\ c % 64 = z
BY SMT

\* The part of a number above its two low digits.
LEMMA Digits4096 ==
  ASSUME NEW c, NEW h \in Nat, NEW z \in Nat, z < 4096, c = 4096 * h + z
  PROVE  c \div 4096 = h
BY SMT

\* The part of a number above its three low digits.
LEMMA Digits262144 ==
  ASSUME NEW c, NEW h \in Nat, NEW z \in Nat, z < 262144, c = 262144 * h + z
  PROVE  c \div 262144 = h
BY SMT

\* A number is rebuilt from three of its digits.
LEMMA ThreeDigits ==
  ASSUME NEW x \in 0..15, NEW y \in 0..63, NEW z \in 0..63
  PROVE  LET h == 64 * x + y
             c == 4096 * x + 64 * y + z
         IN  /\ h \in Nat /\ h < 1024 /\ c = 64 * h + z /\ c \in Nat /\ c < 65536
             /\ c \div 64 = h /\ c % 64 = z /\ h % 64 = y /\ c \div 4096 = x
             /\ c >= 2048 <=> h >= 32
             /\ c < 55296 <=> h < 864
             /\ c > 57343 <=> h > 895
<1> DEFINE h == 64 * x + y
           c == 4096 * x + 64 * y + z
           r == 64 * y + z
<1>1. h \in Nat /\ h < 1024 /\ c = 64 * h + z /\ c = 4096 * x + r /\ r \in Nat /\ r < 4096
  BY SMT
<1>2. c \in Nat /\ c < 65536 /\ (c >= 2048 <=> h >= 32) /\ (c < 55296 <=> h < 864) /\ (c > 57343 <=> h > 895)
  BY SMT
<1>3. h % 64 = y
  BY Digits
<1> HIDE DEF c, h, r
<1>4. c \div 64 = h /\ c % 64 = z
  BY <1>1, Digits
<1>5. c \div 4096 = x
  BY <1>1, Digits4096
<1> QED
  BY <1>1, <1>2, <1>3, <1>4, <1>5 DEF c, h

Code(x, y, z, u) == 262144 * x + 4096 * y + 64 * z + u
High(x, y) == 64 * x + y
FourDigitsHold(x, y, z, u, h, m, c) ==
    /\ h \in Nat /\ h < 512 /\ m \in Nat /\ c \in Nat /\ c < 2097152
    /\ c \div 64 = m /\ c % 64 = u /\ m % 64 = z /\ h % 64 = y
    /\ c \div 4096 = h /\ c \div 262144 = x
    /\ c >= 65536 <=> h >= 16
    /\ c <= 1114111 <=> h <= 271

\* A number is rebuilt from four of its digits.
LEMMA FourDigits ==
  ASSUME NEW x \in 0..7, NEW y \in 0..63, NEW z \in 0..63, NEW u \in 0..63
  PROVE  FourDigitsHold(x, y, z, u, High(x, y), High(High(x, y), z), Code(x, y, z, u))
<1> DEFINE h == High(x, y)
           m == High(h, z)
           c == Code(x, y, z, u)
           r == 64 * z + u
           q == 4096 * y + 64 * z + u
<1>1. /\ h \in Nat /\ h < 512 /\ m \in Nat /\ c = 64 * m + u /\ c = 4096 * h + r
      /\ c = 262144 * x + q /\ r \in Nat /\ r < 4096 /\ q \in Nat /\ q < 262144
  BY SMT DEF High, Code
<1>2. c \in Nat /\ c < 2097152 /\ (c >= 65536 <=> h >= 16) /\ (c <= 1114111 <=> h <= 271)
  BY SMT DEF High, Code
<1>8. h = 64 * x + y /\ m = 64 * h + z
  BY DEF High
<1> HIDE DEF h, m, c, r, q
<1>3. h % 64 = y
  BY <1>8, Digits
<1>4. m % 64 = z
  BY <1>1, <1>8, Digits
<1>5. c \div 64 = m /\ c % 64 = u
  BY <1>1, Digits
<1>6. c \div 4096 = h
  BY <1>1, Digits4096
<1>7. c \div 262144 = x
  BY <1>1, Digits262144
<1> QED
  BY <1>1, <1>2, <1>3, <1>4, <1>5, <1>6, <1>7 DEF FourDigitsHold, h, m, c

\* The payload bits of a byte, and the lead bytes they are rebuilt into.
LEMMA LeadBytes ==
  ASSUME NEW b \in Byte
  PROVE  /\ b % 64 \in 0..63 /\ b % 32 \in 0..31 /\ b % 16 \in 0..15 /\ b % 8 \in 0..7
         /\ 128 + (b % 64) = b <=> b \in 128..191
         /\ 192 + (b % 32) = b <=> b \in 192..223
         /\ 224 + (b % 16) = b <=> b \in 224..239
         /\ 240 + (b % 8) = b <=> b \in 240..247
BY DEF Byte

\* Groups of different widths are different.
LEMMA Widths3 ==
  ASSUME NEW t, NEW a, NEW b, NEW d, NEW e, NEW x, NEW y, NEW z
  PROVE  /\ t = <<x>> => t # <<a, b>> /\ t # <<a, b, d>> /\ t # <<a, b, d, e>>
         /\ t = <<x, y>> => t # <<a, b, d>> /\ t # <<a, b, d, e>>
         /\ t = <<x, y, z>> => t # <<a, b, d, e>>
<1>1. /\ Len(<<x>>) = 1 /\ Len(<<x, y>>) = 2 /\ Len(<<x, y, z>>) = 3
      /\ Len(<<a, b>>) = 2 /\ Len(<<a, b, d>>) = 3 /\ Len(<<a, b, d, e>>) = 4
  OBVIOUS
<1> QED
  BY <1>1

\* One byte is a sequence of the standard exactly when it is ASCII.
LEMMA OneByte ==
  ASSUME NEW a \in Byte, NEW printable \in BOOLEAN
  PROVE  WellFormed(<<a>>, printable) <=> a < 128 /\ (printable => Printable(a))
<1>1. RawCode(<<a>>) = a
  BY DEF RawCode
<1>2. a < 128 => Utf8Of(a) = <<a>> /\ Scalar(a)
  BY DEF Utf8Of, Scalar, Byte
<1>3. a >= 128 => Utf8Of(a) = <<192 + a \div 64, 128 + (a % 64)>>
  BY DEF Utf8Of, Byte
<1>4. a >= 128 => Utf8Of(a) # <<a>>
  BY <1>3
<1> QED
  BY <1>1, <1>2, <1>4 DEF WellFormed, Byte

Code2(a, b) == 64 * (a % 32) + (b % 64)
Code3(a, b, d) == 4096 * (a % 16) + 64 * (b % 64) + (d % 64)
Code4(a, b, d, e) == 262144 * (a % 8) + 4096 * (b % 64) + 64 * (d % 64) + (e % 64)
Two(a, b) == a \in 194..223 /\ b \in 128..191
Three(a, b, d) == a \in 224..239 /\ b \in Second(a) /\ d \in 128..191
Four(a, b, d, e) == a \in 240..244 /\ b \in Second(a) /\ d \in 128..191 /\ e \in 128..191

\* What is printable among the one-byte code points.
LEMMA LowPrintable ==
  ASSUME NEW c \in Byte
  PROVE  c < 128 /\ Printable(c) <=> c \in 32..127 /\ c >= 32 /\ c \notin 127..159
BY SMT DEF Byte, Printable

\* What is printable above them: all but C1 and the surrogates.
LEMMA HighPrintable ==
  ASSUME NEW c \in Nat, c >= 128
  PROVE  Printable(c) <=> c >= 32 /\ c \notin 127..159
BY SMT DEF Printable

\* Two bytes are a sequence of the standard exactly when they are lead and
\* tail.
LEMMA TwoBytes ==
  ASSUME NEW a \in Byte, NEW b \in Byte, NEW printable \in BOOLEAN
  PROVE  /\ WellFormed(<<a, b>>, printable) <=> Two(a, b) /\ (printable => Printable(Code2(a, b)))
         /\ Two(a, b) => Code2(a, b) \in Nat /\ Code2(a, b) >= 128
<1> DEFINE c == 64 * (a % 32) + (b % 64)
           x == a % 32
           y == b % 64
<1>0. c \in Nat /\ c < 2048 /\ c \div 64 = a % 32 /\ c % 64 = b % 64 /\ (c >= 128 <=> a % 32 >= 2)
  <2>1. x \in 0..31 /\ y \in 0..63 /\ c = 64 * x + y
    BY LeadBytes
  <2> HIDE DEF c, x, y
  <2>2. c \div 64 = x /\ c % 64 = y
    BY <2>1, Digits
  <2>3. c \in Nat /\ c < 2048 /\ (c >= 128 <=> x >= 2)
    BY <2>1, SMT
  <2> QED
    BY <2>2, <2>3 DEF x, y
<1>1. RawCode(<<a, b>>) = c
  BY DEF RawCode
<1>2. Scalar(c)
  BY <1>0 DEF Scalar
<1> HIDE DEF c
<1>3. c < 128 => Utf8Of(c) = <<c>>
  BY <1>0 DEF Utf8Of
<1>4. c < 128 => Utf8Of(c) # <<a, b>>
  BY <1>3
<1>5. c >= 128 => Utf8Of(c) = <<192 + (a % 32), 128 + (b % 64)>>
  BY <1>0 DEF Utf8Of
<1>6. Utf8Of(c) = <<a, b>> <=> c >= 128 /\ 192 + (a % 32) = a /\ 128 + (b % 64) = b
  BY <1>0, <1>4, <1>5
<1>7. (c >= 128 /\ 192 + (a % 32) = a /\ 128 + (b % 64) = b) <=> (a \in 194..223 /\ b \in 128..191)
  <2>1. a \in 192..223 => (a % 32 >= 2 <=> a >= 194)
    BY LeadBytes
  <2> QED
    BY <1>0, <2>1, LeadBytes DEF Byte
<1>8. a \in 194..223 => a % 32 >= 2
  BY LeadBytes
<1>9. WellFormed(<<a, b>>, printable) <=>
         Scalar(c) /\ Utf8Of(c) = <<a, b>> /\ (printable => Printable(c))
  BY <1>1 DEF WellFormed
<1>10. c = Code2(a, b)
  BY DEF c, Code2
<1> QED
  BY <1>0, <1>2, <1>6, <1>7, <1>8, <1>9, <1>10 DEF Two

\* The same of three bytes: no overlong form and no surrogate.
LEMMA ThreeBytes ==
  ASSUME NEW a \in Byte, NEW b \in Byte, NEW d \in Byte, NEW printable \in BOOLEAN
  PROVE  /\ WellFormed(<<a, b, d>>, printable) <=>
              Three(a, b, d) /\ (printable => Printable(Code3(a, b, d)))
         /\ Three(a, b, d) => Code3(a, b, d) \in Nat /\ Code3(a, b, d) >= 128
<1> DEFINE x == a % 16
           y == b % 64
           z == d % 64
           c == 4096 * x + 64 * y + z
           h == 64 * x + y
<1>0. x \in 0..15 /\ y \in 0..63 /\ z \in 0..63
  BY LeadBytes
<1> HIDE DEF x, y, z
<1>1. /\ h \in Nat /\ h < 1024 /\ c \in Nat /\ c < 65536
      /\ c \div 64 = h /\ c % 64 = z /\ h % 64 = y /\ c \div 4096 = x
      /\ c >= 2048 <=> h >= 32
      /\ c < 55296 <=> h < 864
      /\ c > 57343 <=> h > 895
  BY <1>0, ThreeDigits
<1>2. RawCode(<<a, b, d>>) = c
  BY DEF RawCode, x, y, z
<1>4. a \in 224..239 /\ b \in 128..191 =>
         (h >= 32 /\ (h < 864 \/ h > 895) <=> b \in Second(a))
  <2> SUFFICES ASSUME a \in 224..239, b \in 128..191
               PROVE  h >= 32 /\ (h < 864 \/ h > 895) <=> b \in Second(a)
    OBVIOUS
  <2>1. x = a - 224 /\ y = b - 128
    BY LeadBytes DEF x, y
  <2>2. h = 64 * (a - 224) + (b - 128)
    BY <2>1
  <2> HIDE DEF h
  <2>3. CASE a = 224
    BY <2>2, <2>3 DEF Second
  <2>4. CASE a = 237
    BY <2>2, <2>4 DEF Second
  <2>5. CASE a # 224 /\ a # 237
    BY <2>2, <2>5 DEF Second
  <2> QED
    BY <2>3, <2>4, <2>5
<1>5. b \in Second(a) => b \in 128..191
  BY DEF Second, Byte
<1> HIDE DEF c, h
<1>6. c < 2048 => Utf8Of(c) # <<a, b, d>>
  <2>1. c < 128 => Utf8Of(c) = <<c>>
    BY <1>1 DEF Utf8Of
  <2>2. c >= 128 /\ c < 2048 => Utf8Of(c) = <<192 + c \div 64, 128 + (c % 64)>>
    BY <1>1 DEF Utf8Of
  <2> QED
    BY <1>1, <2>1, <2>2, Widths3, SMT
<1>7. c >= 2048 => Utf8Of(c) = <<224 + x, 128 + y, 128 + z>>
  BY <1>1 DEF Utf8Of
<1>8. Utf8Of(c) = <<a, b, d>> <=>
         c >= 2048 /\ 224 + x = a /\ 128 + y = b /\ 128 + z = d
  BY <1>1, <1>6, <1>7
<1>9. Scalar(c) <=> c < 55296 \/ c > 57343
  BY <1>1 DEF Scalar
<1>10. Scalar(c) /\ Utf8Of(c) = <<a, b, d>> <=>
          a \in 224..239 /\ b \in Second(a) /\ d \in 128..191
  <2>1. /\ 224 + x = a <=> a \in 224..239
        /\ 128 + y = b <=> b \in 128..191
        /\ 128 + z = d <=> d \in 128..191
    BY LeadBytes DEF x, y, z
  <2> QED
    BY <1>1, <1>4, <1>5, <1>8, <1>9, <2>1
<1>11. a \in 224..239 /\ b \in Second(a) => c >= 128
  BY <1>1, <1>4, <1>5, SMT
<1>13. c = Code3(a, b, d)
  BY DEF c, x, y, z, Code3
<1>12. WellFormed(<<a, b, d>>, printable) <=>
          Scalar(c) /\ Utf8Of(c) = <<a, b, d>> /\ (printable => Printable(c))
  BY <1>2 DEF WellFormed
<1> QED
  BY <1>1, <1>10, <1>11, <1>12, <1>13, SMT DEF Three

\* The same of four bytes: no overlong form, nothing above U+10FFFF.
LEMMA FourBytes ==
  ASSUME NEW a \in Byte, NEW b \in Byte, NEW d \in Byte, NEW e \in Byte, NEW printable \in BOOLEAN
  PROVE  /\ WellFormed(<<a, b, d, e>>, printable) <=>
              Four(a, b, d, e) /\ (printable => Printable(Code4(a, b, d, e)))
         /\ Four(a, b, d, e) => Code4(a, b, d, e) \in Nat /\ Code4(a, b, d, e) >= 128
<1> DEFINE x == a % 8
           y == b % 64
           z == d % 64
           u == e % 64
           c == Code(x, y, z, u)
           h == High(x, y)
           m == High(h, z)
<1>0. x \in 0..7 /\ y \in 0..63 /\ z \in 0..63 /\ u \in 0..63
  BY LeadBytes
<1> HIDE DEF x, y, z, u
<1>1. /\ h \in Nat /\ h < 512 /\ m \in Nat /\ c \in Nat /\ c < 2097152
      /\ c \div 64 = m /\ c % 64 = u /\ m % 64 = z /\ h % 64 = y
      /\ c \div 4096 = h /\ c \div 262144 = x
      /\ c >= 65536 <=> h >= 16
      /\ c <= 1114111 <=> h <= 271
  <2>1. FourDigitsHold(x, y, z, u, h, m, c)
    BY <1>0, FourDigits, Zenon
  <2> HIDE DEF h, m, c
  <2> QED
    BY <2>1, SMT DEF FourDigitsHold
<1>2. RawCode(<<a, b, d, e>>) = c
  BY DEF RawCode, Code, x, y, z, u
<1>4. a \in 240..247 /\ b \in 128..191 =>
         (h >= 16 /\ h <= 271 <=> a \in 240..244 /\ b \in Second(a))
  <2> SUFFICES ASSUME a \in 240..247, b \in 128..191
               PROVE  h >= 16 /\ h <= 271 <=> a \in 240..244 /\ b \in Second(a)
    OBVIOUS
  <2>1. x = a - 240 /\ y = b - 128
    BY LeadBytes DEF x, y
  <2>2. h = 64 * (a - 240) + (b - 128)
    BY <2>1 DEF High
  <2> HIDE DEF h
  <2>3. CASE a = 240
    BY <2>2, <2>3 DEF Second
  <2>4. CASE a = 244
    BY <2>2, <2>4 DEF Second
  <2>5. CASE a # 240 /\ a # 244
    BY <2>2, <2>5 DEF Second
  <2> QED
    BY <2>3, <2>4, <2>5
<1>5. b \in Second(a) => b \in 128..191
  BY DEF Second, Byte
<1> HIDE DEF c, h, m
<1>6. c < 65536 => Utf8Of(c) # <<a, b, d, e>>
  <2>1. c < 128 => Utf8Of(c) = <<c>>
    BY <1>1 DEF Utf8Of
  <2>2. c >= 128 /\ c < 2048 => Utf8Of(c) = <<192 + c \div 64, 128 + (c % 64)>>
    BY <1>1 DEF Utf8Of
  <2>3. c >= 2048 /\ c < 65536 =>
           Utf8Of(c) = <<224 + c \div 4096, 128 + ((c \div 64) % 64), 128 + (c % 64)>>
    BY <1>1 DEF Utf8Of
  <2> QED
    BY <1>1, <2>1, <2>2, <2>3, Widths3, SMT
<1>7. c >= 65536 => Utf8Of(c) = <<240 + x, 128 + y, 128 + z, 128 + u>>
  BY <1>1 DEF Utf8Of
<1>8. Utf8Of(c) = <<a, b, d, e>> <=>
         c >= 65536 /\ 240 + x = a /\ 128 + y = b /\ 128 + z = d /\ 128 + u = e
  BY <1>1, <1>6, <1>7
<1>9. c >= 65536 => (Scalar(c) <=> c <= 1114111)
  BY <1>1 DEF Scalar
<1>10. Scalar(c) /\ Utf8Of(c) = <<a, b, d, e>> <=>
          a \in 240..244 /\ b \in Second(a) /\ d \in 128..191 /\ e \in 128..191
  <2>1. /\ 240 + x = a <=> a \in 240..247
        /\ 128 + y = b <=> b \in 128..191
        /\ 128 + z = d <=> d \in 128..191
        /\ 128 + u = e <=> e \in 128..191
    BY LeadBytes DEF x, y, z, u
  <2> QED
    BY <1>1, <1>4, <1>5, <1>8, <1>9, <2>1
<1>11. a \in 240..244 /\ b \in Second(a) => c >= 128
  BY <1>1, <1>4, <1>5, SMT
<1>13. c = Code4(a, b, d, e)
  BY SMT DEF c, x, y, z, u, Code, Code4
<1>12. WellFormed(<<a, b, d, e>>, printable) <=>
          Scalar(c) /\ Utf8Of(c) = <<a, b, d, e>> /\ (printable => Printable(c))
  BY <1>2 DEF WellFormed
<1> QED
  BY <1>1, <1>10, <1>11, <1>12, <1>13, SMT DEF Four

-------------------------------------------------------------------------------
(* The scanners' sequences are the standard's.                                *)

Reads(q, a, b, d, e) ==
    /\ q[1] \in 0..4
    /\ q[1] = 1 <=> a \in 32..127
    /\ q[1] = 2 <=> Two(a, b)
    /\ q[1] = 3 <=> Three(a, b, d)
    /\ q[1] = 4 <=> Four(a, b, d, e)
    /\ q[1] = 1 => q[2] = a
    /\ q[1] = 2 => q[2] = Code2(a, b)
    /\ q[1] = 3 => q[2] = Code3(a, b, d)
    /\ q[1] = 4 => q[2] = Code4(a, b, d, e)

\* The sequence SequenceAt reads is the standard's, width by width.
LEMMA SequenceWidths ==
  ASSUME NEW b \in [0..3 -> Byte]
  PROVE  Reads(SequenceIn(b), b[0], b[1], b[2], b[3])
<1>1. b[0] \in 32..127 => SequenceIn(b) = <<1, b[0]>>
  BY DEF SequenceIn
<1>2. Two(b[0], b[1]) => SequenceIn(b) = <<2, Code2(b[0], b[1])>>
  BY DEF SequenceIn, Continuation, Low, Two, Code2
<1>3. Three(b[0], b[1], b[2]) => SequenceIn(b) = <<3, Code3(b[0], b[1], b[2])>>
  BY DEF SequenceIn, Continuation, Low, Three, Code3
<1>4. Four(b[0], b[1], b[2], b[3]) => SequenceIn(b) = <<4, Code4(b[0], b[1], b[2], b[3])>>
  BY DEF SequenceIn, Continuation, Low, Four, Code4
<1>5. b[0] \notin 32..127 /\ ~Two(b[0], b[1]) /\ ~Three(b[0], b[1], b[2]) /\ ~Four(b[0], b[1], b[2], b[3]) => SequenceIn(b) = <<0, 0>>
  BY DEF SequenceIn, Continuation, Two, Three, Four
<1>6. /\ ~(b[0] \in 32..127 /\ Two(b[0], b[1])) /\ ~(b[0] \in 32..127 /\ Three(b[0], b[1], b[2]))
      /\ ~(b[0] \in 32..127 /\ Four(b[0], b[1], b[2], b[3]))
      /\ ~(Two(b[0], b[1]) /\ Three(b[0], b[1], b[2])) /\ ~(Two(b[0], b[1]) /\ Four(b[0], b[1], b[2], b[3])) /\ ~(Three(b[0], b[1], b[2]) /\ Four(b[0], b[1], b[2], b[3]))
  BY DEF Byte, Two, Three, Four
<1> QED
  BY <1>1, <1>2, <1>3, <1>4, <1>5, <1>6, SMT DEF Reads

\* The four bytes from i on, as SequenceAt reads them.
Window(s, i) == [k \in 0..3 |-> IF i + k <= Len(s) THEN s[i + k] ELSE 0]
Edges(s, printable) ==
  {e \in Widths(Len(s)) : WellFormed(SubSeq(s, e[1], e[1] + e[2] - 1), printable)}

\* The window at i is the text's bytes, and zeros behind its end.
LEMMA WindowIs ==
  ASSUME NEW s \in Seq(Byte), NEW i \in 1..Len(s)
  PROVE  /\ Window(s, i) \in [0..3 -> Byte] /\ SequenceAt(s, i) = SequenceIn(Window(s, i))
         /\ Window(s, i)[0] = s[i]
         /\ \A k \in 1..3 : Window(s, i)[k] # 0 => i + k <= Len(s)
<1>1. \A k \in 0..3 : i + k <= Len(s) => i + k \in 1..Len(s) /\ s[i + k] \in Byte
  OBVIOUS
<1>2. Window(s, i) \in [0..3 -> Byte]
  BY <1>1 DEF Window, Byte
<1> QED
  BY <1>2 DEF Window, SequenceAt

\* A slice of the text is the window's first bytes.
LEMMA Slice ==
  ASSUME NEW s \in Seq(Byte), NEW i \in 1..Len(s), NEW w \in 1..4, i + w <= Len(s) + 1
  PROVE  LET b == Window(s, i)
         IN  SubSeq(s, i, i + w - 1) =
               IF w = 1 THEN <<b[0]>> ELSE IF w = 2 THEN <<b[0], b[1]>>
               ELSE IF w = 3 THEN <<b[0], b[1], b[2]>> ELSE <<b[0], b[1], b[2], b[3]>>
<1> DEFINE b == Window(s, i)
           t == SubSeq(s, i, i + w - 1)
<1>1. \A k \in 0..3 : k < w => b[k] = s[i + k]
  BY DEF Window
<1>2. t \in Seq(Byte) /\ Len(t) = w /\ \A k \in 1..w : t[k] = s[i + k - 1]
  BY SubSeqProperties
<1>3. \A k \in 1..w : t[k] = b[k - 1]
  <2> HIDE DEF t, b
  <2> SUFFICES ASSUME NEW k \in 1..w PROVE t[k] = b[k - 1]
    OBVIOUS
  <2>1. k - 1 \in 0..3 /\ k - 1 < w /\ i + (k - 1) = i + k - 1
    OBVIOUS
  <2> QED
    BY <1>1, <1>2, <2>1
<1> HIDE DEF b, t
<1>5. CASE w = 1
  <2>1. t = <<t[1]>> /\ t[1] = b[0]
    BY <1>2, <1>3, <1>5
  <2> QED
    BY <2>1, <1>5 DEF b, t
<1>6. CASE w = 2
  <2>1. t = <<t[1], t[2]>> /\ t[1] = b[0] /\ t[2] = b[1]
    BY <1>2, <1>3, <1>6
  <2> QED
    BY <2>1, <1>6 DEF b, t
<1>7. CASE w = 3
  <2>1. t = <<t[1], t[2], t[3]>> /\ t[1] = b[0] /\ t[2] = b[1] /\ t[3] = b[2]
    BY <1>2, <1>3, <1>7
  <2> QED
    BY <2>1, <1>7 DEF b, t
<1>8. CASE w = 4
  <2>1. t = <<t[1], t[2], t[3], t[4]>> /\ t[1] = b[0] /\ t[2] = b[1] /\ t[3] = b[2] /\ t[4] = b[3]
    BY <1>2, <1>3, <1>8
  <2> QED
    BY <2>1, <1>8 DEF b, t
<1> QED
  BY <1>5, <1>6, <1>7, <1>8

\* What is_printable_utf8 asks of a sequence beyond its being one.
Shown(q) == q[1] > 0 /\ q[2] >= 32 /\ q[2] \notin 127..159

\* The scanner shows a sequence exactly when the standard prints it.
LEMMA WidthShown ==
  ASSUME NEW q, NEW a \in Byte, NEW b \in Byte, NEW d \in Byte, NEW e \in Byte, Reads(q, a, b, d, e)
  PROVE  /\ WellFormed(<<a>>, TRUE) <=> Shown(q) /\ q[1] = 1
         /\ WellFormed(<<a, b>>, TRUE) <=> Shown(q) /\ q[1] = 2
         /\ WellFormed(<<a, b, d>>, TRUE) <=> Shown(q) /\ q[1] = 3
         /\ WellFormed(<<a, b, d, e>>, TRUE) <=> Shown(q) /\ q[1] = 4
<1>1. WellFormed(<<a>>, TRUE) <=> a \in 32..127 /\ a >= 32 /\ a \notin 127..159
  <2>1. WellFormed(<<a>>, TRUE) <=> a < 128 /\ (TRUE => Printable(a))
    BY OneByte, TRUE \in BOOLEAN, Zenon
  <2>2. a < 128 /\ Printable(a) <=> a \in 32..127 /\ a >= 32 /\ a \notin 127..159
    BY LowPrintable, ZenonT(40)
  <2> QED
    BY <2>1, <2>2, Zenon
<1>2. /\ WellFormed(<<a, b>>, TRUE) <=> Two(a, b) /\ (TRUE => Printable(Code2(a, b)))
      /\ Two(a, b) => Code2(a, b) \in Nat /\ Code2(a, b) >= 128
  BY TwoBytes, TRUE \in BOOLEAN, Zenon
<1>3. /\ WellFormed(<<a, b, d>>, TRUE) <=> Three(a, b, d) /\ (TRUE => Printable(Code3(a, b, d)))
      /\ Three(a, b, d) => Code3(a, b, d) \in Nat /\ Code3(a, b, d) >= 128
  BY ThreeBytes, TRUE \in BOOLEAN, Zenon
<1>4. /\ WellFormed(<<a, b, d, e>>, TRUE) <=> Four(a, b, d, e) /\ (TRUE => Printable(Code4(a, b, d, e)))
      /\ Four(a, b, d, e) => Code4(a, b, d, e) \in Nat /\ Code4(a, b, d, e) >= 128
  BY FourBytes, TRUE \in BOOLEAN, Zenon
<1>5. \A c : c \in Nat /\ c >= 128 => (Printable(c) <=> c >= 32 /\ c \notin 127..159)
  BY HighPrintable, Zenon
<1>6. Shown(q) /\ q[1] = 1 <=> a \in 32..127 /\ a >= 32 /\ a \notin 127..159
  BY DEF Reads, Shown
<1>7. Shown(q) /\ q[1] = 2 <=> Two(a, b) /\ Printable(Code2(a, b))
  <2>1. q[1] = 2 => (Shown(q) <=> q[2] >= 32 /\ q[2] \notin 127..159)
    BY DEF Shown
  <2>2. (q[1] = 2 <=> Two(a, b)) /\ (q[1] = 2 => q[2] = Code2(a, b))
    BY DEF Reads
  <2>3. Two(a, b) => (Printable(Code2(a, b)) <=> Code2(a, b) >= 32 /\ Code2(a, b) \notin 127..159)
    BY <1>2, <1>5, Zenon
  <2> QED
    BY <2>1, <2>2, <2>3
<1>8. Shown(q) /\ q[1] = 3 <=> Three(a, b, d) /\ Printable(Code3(a, b, d))
  <2>1. q[1] = 3 => (Shown(q) <=> q[2] >= 32 /\ q[2] \notin 127..159)
    BY DEF Shown
  <2>2. (q[1] = 3 <=> Three(a, b, d)) /\ (q[1] = 3 => q[2] = Code3(a, b, d))
    BY DEF Reads
  <2>3. Three(a, b, d) => (Printable(Code3(a, b, d)) <=> Code3(a, b, d) >= 32 /\ Code3(a, b, d) \notin 127..159)
    BY <1>3, <1>5, Zenon
  <2> QED
    BY <2>1, <2>2, <2>3
<1>9. Shown(q) /\ q[1] = 4 <=> Four(a, b, d, e) /\ Printable(Code4(a, b, d, e))
  <2>1. q[1] = 4 => (Shown(q) <=> q[2] >= 32 /\ q[2] \notin 127..159)
    BY DEF Shown
  <2>2. (q[1] = 4 <=> Four(a, b, d, e)) /\ (q[1] = 4 => q[2] = Code4(a, b, d, e))
    BY DEF Reads
  <2>3. Four(a, b, d, e) => (Printable(Code4(a, b, d, e)) <=> Code4(a, b, d, e) >= 32 /\ Code4(a, b, d, e) \notin 127..159)
    BY <1>4, <1>5, Zenon
  <2> QED
    BY <2>1, <2>2, <2>3
<1> QED
  BY <1>1, <1>2, <1>3, <1>4, <1>6, <1>7, <1>8, <1>9, ZenonT(40)

\* is_printable_utf8 steps from i exactly over the standard's printable
\* sequences.
LEMMA PrintableEdge ==
  ASSUME NEW s \in Seq(Byte), NEW i \in 1..Len(s), NEW w \in 1..4
  PROVE  LET q == SequenceAt(s, i)
         IN  /\ <<i, w>> \in Edges(s, TRUE) <=> Shown(q) /\ q[1] = w
             /\ q[1] \in 0..4
<1> DEFINE q == SequenceAt(s, i)
           b == Window(s, i)
<1>0. b \in [0..3 -> Byte] /\ q = SequenceIn(b) /\ b[0] = s[i]
      /\ \A k \in 1..3 : b[k] # 0 => i + k <= Len(s)
  BY WindowIs
<1>e. <<i, w>> \in Edges(s, TRUE) <=>
         i + w <= Len(s) + 1 /\ WellFormed(SubSeq(s, i, i + w - 1), TRUE)
  BY DEF Edges, Widths
<1>r. b[0] \in Byte /\ b[1] \in Byte /\ b[2] \in Byte /\ b[3] \in Byte
  BY <1>0
<1>s. Reads(q, b[0], b[1], b[2], b[3])
  BY <1>0, SequenceWidths
<1>f. /\ WellFormed(<<b[0]>>, TRUE) <=> Shown(q) /\ q[1] = 1
      /\ WellFormed(<<b[0], b[1]>>, TRUE) <=> Shown(q) /\ q[1] = 2
      /\ WellFormed(<<b[0], b[1], b[2]>>, TRUE) <=> Shown(q) /\ q[1] = 3
      /\ WellFormed(<<b[0], b[1], b[2], b[3]>>, TRUE) <=> Shown(q) /\ q[1] = 4
  BY <1>r, <1>s, WidthShown, Zenon
<1>t. /\ q[1] = 2 => b[1] # 0
      /\ q[1] = 3 => b[2] # 0
      /\ q[1] = 4 => b[3] # 0
  <2> HIDE DEF q, b
  <2>1. /\ q[1] = 2 => b[1] \in 128..191
        /\ q[1] = 3 => b[2] \in 128..191
        /\ q[1] = 4 => b[3] \in 128..191
    BY <1>s DEF Reads, Two, Three, Four
  <2>2. 0 \notin 128..191
    OBVIOUS
  <2> QED
    BY <2>1, <2>2, ZenonT(40)
<1>i. q[1] = w => i + w <= Len(s) + 1
  BY <1>0, <1>t
<1>l. i + w <= Len(s) + 1 =>
         SubSeq(s, i, i + w - 1) =
           IF w = 1 THEN <<b[0]>> ELSE IF w = 2 THEN <<b[0], b[1]>>
           ELSE IF w = 3 THEN <<b[0], b[1], b[2]>> ELSE <<b[0], b[1], b[2], b[3]>>
  BY Slice
<1> HIDE DEF q, b
<1>1. <<i, w>> \in Edges(s, TRUE) <=> Shown(q) /\ q[1] = w
  <2>1. CASE w = 1
    BY <1>e, <1>f, <1>i, <1>l, <2>1
  <2>2. CASE w = 2
    BY <1>e, <1>f, <1>i, <1>l, <2>2
  <2>3. CASE w = 3
    BY <1>e, <1>f, <1>i, <1>l, <2>3
  <2>4. CASE w = 4
    BY <1>e, <1>f, <1>i, <1>l, <2>4
  <2>5. w = 1 \/ w = 2 \/ w = 3 \/ w = 4
    OBVIOUS
  <2> QED
    BY <2>1, <2>2, <2>3, <2>4, <2>5, Zenon
<1>2. q[1] \in 0..4
  BY <1>s DEF Reads
<1> QED
  BY <1>1, <1>2 DEF q

\* The sequence has_valid_utf8 takes at i: it accepts the control characters.
LeadOf(a, q) == IF a < 128 THEN <<1, a>> ELSE q
Lead(s, i) == LeadOf(s[i], SequenceAt(s, i))

\* has_valid_utf8 takes a sequence exactly when it is one of the standard.
LEMMA WidthRead ==
  ASSUME NEW q, NEW a \in Byte, NEW b \in Byte, NEW d \in Byte, NEW e \in Byte, Reads(q, a, b, d, e)
  PROVE  /\ WellFormed(<<a>>, FALSE) <=> LeadOf(a, q)[1] = 1
         /\ WellFormed(<<a, b>>, FALSE) <=> LeadOf(a, q)[1] = 2
         /\ WellFormed(<<a, b, d>>, FALSE) <=> LeadOf(a, q)[1] = 3
         /\ WellFormed(<<a, b, d, e>>, FALSE) <=> LeadOf(a, q)[1] = 4
         /\ LeadOf(a, q)[1] \in 0..4
<1> DEFINE r == LeadOf(a, q)
<1> HIDE DEF r
<1>1. /\ WellFormed(<<a>>, FALSE) <=> a < 128 /\ (FALSE => Printable(a))
      /\ WellFormed(<<a, b>>, FALSE) <=> Two(a, b) /\ (FALSE => Printable(Code2(a, b)))
      /\ WellFormed(<<a, b, d>>, FALSE) <=> Three(a, b, d) /\ (FALSE => Printable(Code3(a, b, d)))
      /\ WellFormed(<<a, b, d, e>>, FALSE) <=> Four(a, b, d, e) /\ (FALSE => Printable(Code4(a, b, d, e)))
  BY OneByte, TwoBytes, ThreeBytes, FourBytes, FALSE \in BOOLEAN, Zenon
<1>2. a < 128 => ~Two(a, b) /\ ~Three(a, b, d) /\ ~Four(a, b, d, e)
  BY DEF Two, Three, Four, Byte
<1>3. /\ q[1] = 1 => a < 128
      /\ q[1] = 2 <=> Two(a, b)
      /\ q[1] = 3 <=> Three(a, b, d)
      /\ q[1] = 4 <=> Four(a, b, d, e)
      /\ q[1] \in 0..4
  BY DEF Reads
<1>4. CASE a < 128
  <2>1. r[1] = 1 /\ 1 # 2 /\ 1 # 3 /\ 1 # 4 /\ 1 \in 0..4
    BY <1>4 DEF r, LeadOf
  <2> QED
    BY <1>1, <1>2, <1>4, <2>1, Zenon DEF r
<1>5. CASE ~(a < 128)
  <2>1. r = q
    BY <1>5, Zenon DEF r, LeadOf
  <2> QED
    BY <1>1, <1>3, <1>5, <2>1, Zenon DEF r
<1> QED
  BY <1>4, <1>5 DEF r

\* has_valid_utf8 steps from i exactly over the standard's sequences that
\* end in the text.
LEMMA Utf8Edge ==
  ASSUME NEW s \in Seq(Byte), NEW i \in 1..Len(s), NEW w \in 1..4
  PROVE  LET q == Lead(s, i)
         IN  /\ <<i, w>> \in Edges(s, FALSE) <=> q[1] = w /\ i + q[1] <= Len(s) + 1
             /\ q[1] \in 0..4
<1> DEFINE q == Lead(s, i)
           b == Window(s, i)
<1>0. b \in [0..3 -> Byte] /\ SequenceAt(s, i) = SequenceIn(b) /\ b[0] = s[i]
  BY WindowIs
<1>e. <<i, w>> \in Edges(s, FALSE) <=>
         i + w <= Len(s) + 1 /\ WellFormed(SubSeq(s, i, i + w - 1), FALSE)
  BY DEF Edges, Widths
<1>r. b[0] \in Byte /\ b[1] \in Byte /\ b[2] \in Byte /\ b[3] \in Byte
  BY <1>0
<1>s. Reads(SequenceAt(s, i), b[0], b[1], b[2], b[3])
  BY <1>0, SequenceWidths
<1>q. q = LeadOf(b[0], SequenceAt(s, i))
  BY <1>0 DEF Lead
<1>l. i + w <= Len(s) + 1 =>
         SubSeq(s, i, i + w - 1) =
           IF w = 1 THEN <<b[0]>> ELSE IF w = 2 THEN <<b[0], b[1]>>
           ELSE IF w = 3 THEN <<b[0], b[1], b[2]>> ELSE <<b[0], b[1], b[2], b[3]>>
  BY Slice
<1> HIDE DEF q, b
<1>f. /\ WellFormed(<<b[0]>>, FALSE) <=> q[1] = 1
      /\ WellFormed(<<b[0], b[1]>>, FALSE) <=> q[1] = 2
      /\ WellFormed(<<b[0], b[1], b[2]>>, FALSE) <=> q[1] = 3
      /\ WellFormed(<<b[0], b[1], b[2], b[3]>>, FALSE) <=> q[1] = 4
      /\ q[1] \in 0..4
  BY <1>q, <1>r, <1>s, WidthRead, Zenon
<1>1. <<i, w>> \in Edges(s, FALSE) <=> q[1] = w /\ i + q[1] <= Len(s) + 1
  <2>1. CASE w = 1
    BY <1>e, <1>f, <1>l, <2>1
  <2>2. CASE w = 2
    BY <1>e, <1>f, <1>l, <2>2
  <2>3. CASE w = 3
    BY <1>e, <1>f, <1>l, <2>3
  <2>4. CASE w = 4
    BY <1>e, <1>f, <1>l, <2>4
  <2>5. w = 1 \/ w = 2 \/ w = 3 \/ w = 4
    OBVIOUS
  <2> QED
    BY <2>1, <2>2, <2>3, <2>4, <2>5, Zenon
<1> QED
  BY <1>1, <1>f DEF q

-------------------------------------------------------------------------------
(* So the three recursions walk the same edges, and say the same.             *)

\* The standard's edges are pairs of a position and a width.
LEMMA EdgesAreWidths ==
  ASSUME NEW s \in Seq(Byte), NEW printable
  PROVE  Len(s) \in Nat /\ Edges(s, printable) \in SUBSET Widths(Len(s))
BY DEF Edges

\* A recursion whose equation is a walk's says what the walk says.
LEMMA StandardScans ==
  ASSUME NEW s \in Seq(Byte), NEW printable \in BOOLEAN, NEW f, Walks(f, Len(s), Edges(s, printable))
  PROVE  IsTextOf(s, printable) = f[1]
<1> DEFINE L == Len(s)
           E == Edges(s, printable)
           Body(g) == [i \in 1..Len(s) + 1 |->
                         \/ i = Len(s) + 1
                         \/ \E w \in 1..4 : /\ i + w - 1 <= Len(s)
                                            /\ WellFormed(SubSeq(s, i, i + w - 1), printable) /\ g[i + w]]
           ok == CHOOSE g : g = Body(g)
<1>1. IsTextOf(s, printable) = ok[1]
  BY Zenon DEF IsTextOf
<1>2. ASSUME NEW g PROVE Body(g) = [i \in Places(L) |-> i = L + 1 \/ \E w \in 1..4 : <<i, w>> \in E /\ g[i + w]]
  <2>1. ASSUME NEW i \in 1..Len(s) + 1
        PROVE  (\/ i = Len(s) + 1
                \/ \E w \in 1..4 : /\ i + w - 1 <= Len(s)
                                   /\ WellFormed(SubSeq(s, i, i + w - 1), printable) /\ g[i + w])
               <=> (i = L + 1 \/ \E w \in 1..4 : <<i, w>> \in E /\ g[i + w])
    <3>1. CASE i = Len(s) + 1
      BY <3>1
    <3>2. CASE i # Len(s) + 1
      <4>1. \A w \in 1..4 : <<i, w>> \in E <=>
              i + w - 1 <= Len(s) /\ WellFormed(SubSeq(s, i, i + w - 1), printable)
        BY <3>2 DEF Edges, Widths
      <4> HIDE DEF E
      <4> QED
        BY <3>2, <4>1, Zenon
    <3> QED
      BY <3>1, <3>2
  <2>2. ASSUME NEW i \in 1..Len(s) + 1
        PROVE  (\/ i = Len(s) + 1
                \/ \E w \in 1..4 : /\ i + w - 1 <= Len(s)
                                   /\ WellFormed(SubSeq(s, i, i + w - 1), printable) /\ g[i + w])
               = (i = L + 1 \/ \E w \in 1..4 : <<i, w>> \in E /\ g[i + w])
    BY <2>1, Zenon
  <2> HIDE DEF E
  <2> QED
    BY <2>2, Zenon DEF Places
<1>3. \A g : g = Body(g) <=> Walks(g, L, E)
  BY <1>2, Zenon DEF Walks
<1> HIDE DEF Body
<1>4. f = Body(f)
  BY <1>3, Zenon
<1>5. ok = Body(ok)
  BY <1>4, Zenon
<1>6. Walks(ok, L, E)
  BY <1>3, <1>5, Zenon
<1> HIDE DEF ok, E
<1>7. L \in Nat /\ E \in SUBSET Widths(L) /\ Walks(f, L, E)
  BY EdgesAreWidths, Zenon DEF E
<1>8. ok[1] = f[1]
  <2> HIDE DEF L
  <2> QED
    BY <1>6, <1>7, WalkUnique
<1> QED
  BY <1>1, <1>8, Zenon

\* is_printable_utf8 says whether its walk reaches the end.
LEMMA PrintableScans ==
  ASSUME NEW s \in Seq(Byte), NEW f, Walks(f, Len(s), Edges(s, TRUE))
  PROVE  is_printable_utf8(s) = f[1]
<1> DEFINE L == Len(s)
           E == Edges(s, TRUE)
           Taken(g, i) == \E q \in {SequenceAt(s, i)} :
                              /\ q[1] > 0
                              /\ q[2] >= 32 /\ q[2] \notin 127..159
                              /\ g[i + q[1]]
           Body(g) == [i \in 1..Len(s) + 1 |-> i = Len(s) + 1 \/ Taken(g, i)]
           ok == CHOOSE g : g = Body(g)
<1>1. is_printable_utf8(s) = ok[1]
  BY Zenon DEF is_printable_utf8
<1>2. ASSUME NEW g PROVE Body(g) = [i \in Places(L) |-> i = L + 1 \/ \E w \in 1..4 : <<i, w>> \in E /\ g[i + w]]
  <2>1. ASSUME NEW i \in 1..Len(s) + 1, i # Len(s) + 1
        PROVE  Taken(g, i) <=> \E w \in 1..4 : <<i, w>> \in E /\ g[i + w]
    <3> DEFINE q == SequenceAt(s, i)
    <3>1. q[1] \in 0..4 /\ \A w \in 1..4 : <<i, w>> \in E <=> Shown(q) /\ q[1] = w
      <4>1. i \in 1..Len(s)
        BY <2>1
      <4>2. ASSUME NEW w \in 1..4
            PROVE  q[1] \in 0..4 /\ (<<i, w>> \in E <=> Shown(q) /\ q[1] = w)
        BY <4>1, PrintableEdge, Zenon
      <4>3. 1 \in 1..4
        OBVIOUS
      <4> HIDE DEF q, E
      <4> QED
        BY <4>2, <4>3, Zenon
    <3>2. Taken(g, i) <=> Shown(q) /\ g[i + q[1]]
      BY Zenon DEF Shown
    <3>3. Shown(q) => q[1] \in 1..4
      <4> HIDE DEF q
      <4> QED
        <5>1. q[1] \in 0..4 /\ (Shown(q) => q[1] > 0)
          BY <3>1, Zenon DEF Shown
        <5> QED
          BY <5>1
    <3> HIDE DEF E, q, Taken
    <3> QED
      BY <3>1, <3>2, <3>3, Zenon
  <2>2. ASSUME NEW i \in 1..Len(s) + 1
        PROVE  (i = Len(s) + 1 \/ Taken(g, i)) = (i = L + 1 \/ \E w \in 1..4 : <<i, w>> \in E /\ g[i + w])
    <3> HIDE DEF E, Taken
    <3> QED
      BY <2>1, Zenon
  <2> HIDE DEF E, Taken
  <2> QED
    BY <2>2, Zenon DEF Places
<1>3. \A g : g = Body(g) <=> Walks(g, L, E)
  BY <1>2, Zenon DEF Walks
<1> HIDE DEF Body
<1>4. f = Body(f)
  BY <1>3, Zenon
<1>5. ok = Body(ok)
  BY <1>4, Zenon
<1>6. Walks(ok, L, E)
  BY <1>3, <1>5, Zenon
<1> HIDE DEF ok, E
<1>7. L \in Nat /\ E \in SUBSET Widths(L) /\ Walks(f, L, E)
  BY EdgesAreWidths, Zenon DEF E
<1>8. ok[1] = f[1]
  <2> HIDE DEF L
  <2> QED
    BY <1>6, <1>7, WalkUnique
<1> QED
  BY <1>1, <1>8, Zenon

\* has_valid_utf8 says whether its walk reaches the end.
LEMMA Utf8Scans ==
  ASSUME NEW s \in Seq(Byte), NEW f, Walks(f, Len(s), Edges(s, FALSE))
  PROVE  Utf8Valid(s) = f[1]
<1> DEFINE L == Len(s)
           E == Edges(s, FALSE)
           lead(i) == IF s[i] < 128 THEN <<1, s[i]>> ELSE SequenceAt(s, i)
           Taken(g, i) == \E q \in {lead(i)} : q[1] > 0 /\ i + q[1] <= Len(s) + 1 /\ g[i + q[1]]
           Body(g) == [i \in 1..Len(s) + 1 |-> i = Len(s) + 1 \/ Taken(g, i)]
           ok == CHOOSE g : g = Body(g)
<1>1. Utf8Valid(s) = ok[1]
  BY Zenon DEF Utf8Valid
<1>2. ASSUME NEW g PROVE Body(g) = [i \in Places(L) |-> i = L + 1 \/ \E w \in 1..4 : <<i, w>> \in E /\ g[i + w]]
  <2>1. ASSUME NEW i \in 1..Len(s) + 1, i # Len(s) + 1
        PROVE  Taken(g, i) <=> \E w \in 1..4 : <<i, w>> \in E /\ g[i + w]
    <3> DEFINE q == Lead(s, i)
    <3>1. q[1] \in 0..4 /\ \A w \in 1..4 : <<i, w>> \in E <=> q[1] = w /\ i + q[1] <= Len(s) + 1
      <4>1. i \in 1..Len(s)
        BY <2>1
      <4>2. ASSUME NEW w \in 1..4
            PROVE  q[1] \in 0..4 /\ (<<i, w>> \in E <=> q[1] = w /\ i + q[1] <= Len(s) + 1)
        BY <4>1, Utf8Edge, Zenon
      <4>3. 1 \in 1..4
        OBVIOUS
      <4> HIDE DEF q, E
      <4> QED
        BY <4>2, <4>3, Zenon
    <3>2. Taken(g, i) <=> q[1] > 0 /\ i + q[1] <= Len(s) + 1 /\ g[i + q[1]]
      BY Zenon DEF Lead, LeadOf
    <3>3. q[1] > 0 <=> q[1] \in 1..4
      <4> HIDE DEF q
      <4> QED
        BY <3>1
    <3> HIDE DEF E, q, Taken
    <3> QED
      BY <3>1, <3>2, <3>3, Zenon
  <2>2. ASSUME NEW i \in 1..Len(s) + 1
        PROVE  (i = Len(s) + 1 \/ Taken(g, i)) = (i = L + 1 \/ \E w \in 1..4 : <<i, w>> \in E /\ g[i + w])
    <3> HIDE DEF E, Taken
    <3> QED
      BY <2>1, Zenon
  <2> HIDE DEF E, Taken
  <2> QED
    BY <2>2, Zenon DEF Places
<1>3. \A g : g = Body(g) <=> Walks(g, L, E)
  BY <1>2, Zenon DEF Walks
<1> HIDE DEF Body
<1>4. f = Body(f)
  BY <1>3, Zenon
<1>5. ok = Body(ok)
  BY <1>4, Zenon
<1>6. Walks(ok, L, E)
  BY <1>3, <1>5, Zenon
<1> HIDE DEF ok, E
<1>7. L \in Nat /\ E \in SUBSET Widths(L) /\ Walks(f, L, E)
  BY EdgesAreWidths, Zenon DEF E
<1>8. ok[1] = f[1]
  <2> HIDE DEF L
  <2> QED
    BY <1>6, <1>7, WalkUnique
<1> QED
  BY <1>1, <1>8, Zenon

\* Whatever the bytes, the scanner of the control plane accepts the printable
\* texts of the standard, and the one of the WebSocket all of its texts.
THEOREM ScannersAreTheStandard ==
  ASSUME NEW s \in Seq(Byte)
  PROVE  /\ is_printable_utf8(s) = IsTextOf(s, TRUE)
         /\ has_valid_utf8(s) = IsTextOf(s, FALSE)
<1>1. is_printable_utf8(s) = IsTextOf(s, TRUE)
  <2>1. PICK f : Walks(f, Len(s), Edges(s, TRUE))
    BY EdgesAreWidths, WalkExists
  <2> QED
    BY <2>1, PrintableScans, StandardScans
<1>2. has_valid_utf8(s) = IsTextOf(s, FALSE)
  <2>1. PICK f : Walks(f, Len(s), Edges(s, FALSE))
    BY EdgesAreWidths, WalkExists
  <2> QED
    BY <2>1, Utf8Scans, StandardScans DEF has_valid_utf8
<1> QED
  BY <1>1, <1>2

-------------------------------------------------------------------------------
(* One format at a time: what is written, and what is read.                   *)

Faithful(k, v) ==
    LET w == Encode(k, v)
        r == Decode(k, w)
    IN  w # Refused =>
          /\ IF EncoderRefused(k, w) THEN r = Refused ELSE r \in {Refused, Meaning(k, v)}
          /\ (k \notin LaxWriters /\ ~EncoderRefused(k, w)
              /\ (k = "ControlStatus" => Settled(v.volume))) => r # Refused
          /\ w \in WireType(k)
CanonicalFor(k, p, r, again) ==
    CASE k \notin LaxReaders -> again = p
      [] k = "SceneCatalog" /\ r.operation # Upsert -> again = Refused
      [] k \in {"WorkerFrame", "WorkerAudio"} /\ BeyondWriter(r.f) -> again = Refused
      [] OTHER -> again # Refused /\ Decode(k, again) = Meaning(k, r)
Stable(k, p) ==
    LET r == Decode(k, p)
    IN  r # Refused => CanonicalFor(k, p, r, Encode(k, r))
Agree(k) == /\ \A v \in ValueType(k) : Faithful(k, v)
            /\ \A p \in WireType(k) : Stable(k, p)

\* A command goes through its frame when its payload fits.
LEMMA Framed ==
  ASSUME NEW type \in MessageTypes, NEW p, p.size \in Nat, ~(p.size > kIpcMaxPayloadBytes)
  PROVE  ValueIn(encode_ipc_frame(type, 1, p)) = DecodePayload(type, p)
<1> DEFINE frame == [magic |-> "HIK1", version |-> 1, type |-> type, declared |-> p.size,
                     id |-> 1, bytes |-> HeaderBytes + p.size, payload |-> p]
<1>1. encode_ipc_frame(type, 1, p) = frame
  BY DEF encode_ipc_frame, is_valid_message_type
<1>2. frame # Refused
  BY DEF Refused
<1>3. decode_ipc_frame(frame) = "None"
  BY DEF decode_ipc_frame, is_valid_message_type, HeaderBytes
<1>4. decode_control_command(frame) = Received(frame, DecodePayload(type, p))
  BY DEF decode_control_command
<1>5. ASSUME NEW v PROVE ValueOf(Received(frame, v)) = v
  <2>1. [type |-> frame.type, id |-> frame.id, value |-> v] # Refused
    BY DEF Refused
  <2> HIDE DEF frame
  <2> QED
    BY <2>1 DEF ValueOf, Received
<1> HIDE DEF frame
<1> QED
  BY <1>1, <1>2, <1>3, <1>4, <1>5 DEF ValueIn

\* A payload that fits a structure fits a frame.
LEMMA TooLong ==
  ASSUME NEW type, NEW p, p.size > kIpcMaxPayloadBytes
  PROVE  ValueIn(encode_ipc_frame(type, 1, p)) = Refused
BY DEF ValueIn, encode_ipc_frame

\* What has to be shown of a format: a value it does not write, one it writes
\* and reads back, one that it refuses with a payload its reader refuses too.
LEMMA NotWritten == ASSUME NEW k, NEW v, Encode(k, v) = Refused PROVE Faithful(k, v)
BY DEF Faithful

\* A value that is written, read back and meant as read is faithfully
\* carried.
LEMMA WrittenAndRead ==
  ASSUME NEW k, NEW v, Decode(k, Encode(k, v)) = Meaning(k, v), Meaning(k, v) # Refused,
         ~EncoderRefused(k, Encode(k, v)), Encode(k, v) \in WireType(k)
  PROVE  Faithful(k, v)
BY DEF Faithful

\* So is a value of a lax writer whose payload the reader refuses.
LEMMA WrittenAndNotRead ==
  ASSUME NEW k, NEW v, Decode(k, Encode(k, v)) = Refused,
         k \in LaxWriters \/ (k = "ControlStatus" /\ ~Settled(v.volume)),
         ~EncoderRefused(k, Encode(k, v)), Encode(k, v) \in WireType(k)
  PROVE  Faithful(k, v)
BY DEF Faithful

\* So is a value that the writer replaces by its refusal, which the reader
\* refuses.
LEMMA RefusedTwice ==
  ASSUME NEW k, NEW v, Decode(k, Encode(k, v)) = Refused,
         EncoderRefused(k, Encode(k, v)), Encode(k, v) \in WireType(k)
  PROVE  Faithful(k, v)
BY DEF Faithful

\* A payload that is refused has nothing to keep.
LEMMA NotRead == ASSUME NEW k, NEW p, Decode(k, p) = Refused PROVE Stable(k, p)
BY DEF Stable

\* A payload that is read and written again unchanged is stable.
LEMMA ReadAndWritten ==
  ASSUME NEW k, NEW p, k \notin LaxReaders, Encode(k, Decode(k, p)) = p
  PROVE  Stable(k, p)
<1>1. \A r, again : again = p => CanonicalFor(k, p, r, again)
  BY DEF CanonicalFor, LaxReaders
<1> QED
  BY <1>1, Zenon DEF Stable

\* So is a payload of a lax reader that is read again as it is meant.
LEMMA ReadAndUnderstood ==
  ASSUME NEW k, NEW p, k \in LaxReaders,
         k = "SceneCatalog" => Decode(k, p).operation = Upsert,
         k \in {"WorkerFrame", "WorkerAudio"} => ~BeyondWriter(Decode(k, p).f),
         Encode(k, Decode(k, p)) # Refused,
         Decode(k, Encode(k, Decode(k, p))) = Meaning(k, Decode(k, p))
  PROVE  Stable(k, p)
BY DEF Stable, CanonicalFor

\* A payload written has the size of its kind, which a frame can carry.
LEMMA Written ==
  ASSUME NEW n \in Nat, n <= 4096, NEW f, NEW p, p = Payload(n, f)
  PROVE  p.size = n /\ p.reservedZero /\ p.f = f /\ p # Refused /\ ~(p.size > kIpcMaxPayloadBytes)
<1>1. Payload(n, f) # Refused
  BY DEF Payload, Refused
<1>2. ~(n > kIpcMaxPayloadBytes)
  BY SMT DEF kIpcMaxPayloadBytes
<1>3. p.size = n /\ p.reservedZero /\ p.f = f
  BY DEF Payload
<1> QED
  BY <1>1, <1>2, <1>3

\* The structure inside a payload.
LEMMA Unpacked ==
  ASSUME NEW S, NEW p \in WirePayload(S)
  PROVE  /\ p.f \in S /\ p.size \in Nat /\ p.reservedZero \in BOOLEAN
         /\ p.reservedZero => p = Payload(p.size, p.f)
BY DEF WirePayload, Payload

\* A structure makes a payload of any size.
LEMMA Packed ==
  ASSUME NEW S, NEW n \in Nat, NEW f \in S, NEW p, p = Payload(n, f)
  PROVE  p \in WirePayload(S)
BY DEF WirePayload, Payload

CommandKinds ==
    {"Volume", "GroupedVolume", "SessionVolume", "SessionRoute", "RouteRule", "IrPrepare",
     "SceneCatalog", "CalibrationPeq", "SceneApply", "DeviceSwitch"}

\* A command of its kind's size is read by the decoder of its kind.
LEMMA CommandRead ==
  ASSUME NEW k \in CommandKinds, NEW p, p.size \in Nat
  PROVE  Decode(k, p) = IF p.size > kIpcMaxPayloadBytes THEN Refused
                        ELSE DecodePayload(MessageType[k], p)
<1>1. Decode(k, p) = ValueIn(encode_ipc_frame(MessageType[k], 1, p))
  BY DEF Decode, Scanned, CommandKinds
<1>2. MessageType[k] \in MessageTypes
  BY DEF MessageTypes, MessageType, CommandKinds
<1>3. CASE p.size > kIpcMaxPayloadBytes
  BY <1>1, <1>3, TooLong
<1>4. CASE ~(p.size > kIpcMaxPayloadBytes)
  BY <1>1, <1>2, <1>4, Framed
<1> QED
  BY <1>3, <1>4

\* How each command is read.
LEMMA CommandReaders ==
  ASSUME NEW p
  PROVE  /\ DecodePayload(MessageType["Volume"], p) =
              IF p.size = 16 THEN decode_volume_notification(p)
              ELSE decode_grouped_volume_notification(p)
         /\ MessageType["GroupedVolume"] = MessageType["Volume"]
         /\ DecodePayload(MessageType["SessionVolume"], p) = decode_session_volume_command(p)
         /\ DecodePayload(MessageType["SessionRoute"], p) = decode_session_route_command(p)
         /\ DecodePayload(MessageType["RouteRule"], p) = decode_session_route_rule_command(p)
         /\ DecodePayload(MessageType["IrPrepare"], p) = decode_ir_prepare_command(p)
         /\ DecodePayload(MessageType["SceneCatalog"], p) = decode_scene_catalog_command(p)
         /\ DecodePayload(MessageType["CalibrationPeq"], p) = decode_calibration_peq_prepare_command(p)
         /\ DecodePayload(MessageType["SceneApply"], p) = decode_scene_apply_payload(p)
         /\ DecodePayload(MessageType["DeviceSwitch"], p) = decode_device_switch_payload(p)
<1>1. /\ MessageType["Volume"] = "VolumeNotification" /\ MessageType["GroupedVolume"] = "VolumeNotification"
      /\ MessageType["SessionVolume"] = "SessionVolumeCommand" /\ MessageType["SessionRoute"] = "SessionRouteCommand"
      /\ MessageType["RouteRule"] = "SessionRouteRuleCommand" /\ MessageType["IrPrepare"] = "IrPrepareCommand"
      /\ MessageType["SceneCatalog"] = "SceneCatalogCommand" /\ MessageType["CalibrationPeq"] = "CalibrationPeqPrepare"
      /\ MessageType["SceneApply"] = "SceneApply" /\ MessageType["DeviceSwitch"] = "DeviceSwitch"
  BY DEF MessageType
<1>2. /\ DecodePayload("VolumeNotification", p) =
              IF p.size = 16 THEN decode_volume_notification(p)
              ELSE decode_grouped_volume_notification(p)
      /\ DecodePayload("SessionVolumeCommand", p) = decode_session_volume_command(p)
      /\ DecodePayload("SessionRouteCommand", p) = decode_session_route_command(p)
      /\ DecodePayload("SessionRouteRuleCommand", p) = decode_session_route_rule_command(p)
      /\ DecodePayload("IrPrepareCommand", p) = decode_ir_prepare_command(p)
  BY DEF DecodePayload, BareTypes
<1>3. /\ DecodePayload("SceneCatalogCommand", p) = decode_scene_catalog_command(p)
      /\ DecodePayload("CalibrationPeqPrepare", p) = decode_calibration_peq_prepare_command(p)
      /\ DecodePayload("SceneApply", p) = decode_scene_apply_payload(p)
      /\ DecodePayload("DeviceSwitch", p) = decode_device_switch_payload(p)
  BY DEF DecodePayload, BareTypes
<1> QED
  BY <1>1, <1>2, <1>3

\* The writer of each format.
LEMMA Writers ==
  ASSUME NEW v
  PROVE  /\ Encode("Volume", v) = encode_volume_notification(v)
         /\ Encode("GroupedVolume", v) = encode_grouped_volume_notification(v)
         /\ Encode("SessionVolume", v) = encode_session_volume_command(v)
         /\ Encode("SessionRoute", v) = encode_session_route_command(v)
         /\ Encode("RouteRule", v) = encode_session_route_rule_command(v)
         /\ Encode("IrPrepare", v) = encode_ir_prepare_command(v)
         /\ Encode("SceneCatalog", v) = encode_scene_catalog_command(v)
         /\ Encode("CalibrationPeq", v) = encode_calibration_peq_prepare_command(v)
         /\ Encode("SceneApply", v) = encode_scene_apply_payload(v)
         /\ Encode("DeviceSwitch", v) = encode_device_switch_payload(v)
         /\ Encode("DeviceCatalog", v) = encode_device_catalog_snapshot(v)
         /\ Encode("ControlStatus", v) = encode_control_status_snapshot(v)
         /\ Encode("SessionCatalog", v) = encode_session_catalog_snapshot(v)
         /\ Encode("EqVisual", v) = encode_eq_visual_snapshot(v)
         /\ Encode("DriverStream", v) = stream_packet_encode(v)
         /\ Encode("DriverHeader", v) = control_header_encode(v)
         /\ Encode("EndpointState", v) = endpoint_state_encode(v)
         /\ Encode("TabPacket", v) = PacketizeTab(v)
         /\ Encode("WebSocket", v) = BrowserFrame(v.f)
         /\ Encode("WorkerFrame", v) = encode_vst3_worker_frame(v)
         /\ Encode("WorkerAudio", v) = encode_vst3_worker_frame(v)
         /\ Encode("WorkerParameters", v) = encode_vst3_worker_parameter_frame(v)
         /\ Encode("WorkerMultibus", v) = encode_vst3_worker_multibus_frame(v)
         /\ Encode("Text", v) = [text |-> v]
         /\ Encode("Utf8", v) = [text |-> v]
<1>1. /\ Encode("Volume", v) = encode_volume_notification(v)
      /\ Encode("GroupedVolume", v) = encode_grouped_volume_notification(v)
      /\ Encode("SessionVolume", v) = encode_session_volume_command(v)
      /\ Encode("SessionRoute", v) = encode_session_route_command(v)
  BY DEF Encode, Scanned
<1>2. /\ Encode("RouteRule", v) = encode_session_route_rule_command(v)
      /\ Encode("IrPrepare", v) = encode_ir_prepare_command(v)
      /\ Encode("SceneCatalog", v) = encode_scene_catalog_command(v)
      /\ Encode("CalibrationPeq", v) = encode_calibration_peq_prepare_command(v)
  BY DEF Encode, Scanned
<1>3. /\ Encode("SceneApply", v) = encode_scene_apply_payload(v)
      /\ Encode("DeviceSwitch", v) = encode_device_switch_payload(v)
      /\ Encode("DeviceCatalog", v) = encode_device_catalog_snapshot(v)
      /\ Encode("ControlStatus", v) = encode_control_status_snapshot(v)
  BY DEF Encode, Scanned
<1>4. /\ Encode("SessionCatalog", v) = encode_session_catalog_snapshot(v)
      /\ Encode("EqVisual", v) = encode_eq_visual_snapshot(v)
      /\ Encode("DriverStream", v) = stream_packet_encode(v)
      /\ Encode("DriverHeader", v) = control_header_encode(v)
  BY DEF Encode, Scanned
<1>5. /\ Encode("EndpointState", v) = endpoint_state_encode(v)
      /\ Encode("TabPacket", v) = PacketizeTab(v)
      /\ Encode("WebSocket", v) = BrowserFrame(v.f)
      /\ Encode("WorkerFrame", v) = encode_vst3_worker_frame(v)
  BY DEF Encode, Scanned
<1>6. /\ Encode("WorkerAudio", v) = encode_vst3_worker_frame(v)
      /\ Encode("WorkerParameters", v) = encode_vst3_worker_parameter_frame(v)
      /\ Encode("WorkerMultibus", v) = encode_vst3_worker_multibus_frame(v)
      /\ Encode("Text", v) = [text |-> v]
  BY DEF Encode, Scanned
<1>7. /\ Encode("Utf8", v) = [text |-> v]
  BY DEF Encode, Scanned
<1> QED
  BY <1>1, <1>2, <1>3, <1>4, <1>5, <1>6, <1>7

\* The reader of each format that is not a command.
LEMMA Readers ==
  ASSUME NEW p
  PROVE  /\ Decode("DeviceCatalog", p) = decode_device_catalog_snapshot(p)
         /\ Decode("ControlStatus", p) = decode_control_status_snapshot(p)
         /\ Decode("SessionCatalog", p) = decode_session_catalog_snapshot(p)
         /\ Decode("EqVisual", p) = decode_eq_visual_snapshot(p)
         /\ Decode("Text", p) = (IF is_printable_utf8(p.text) THEN p ELSE Refused)
         /\ Decode("Utf8", p) = (IF has_valid_utf8(p.text) THEN p ELSE Refused)
         /\ Decode("DriverStream", p) = decode_driver_stream_packet(p)
         /\ Decode("DriverHeader", p) = control_header_decode(p)
         /\ Decode("EndpointState", p) = decode_driver_endpoint_state_packet(p)
         /\ Decode("TabPacket", p) = decode_tab_capture_packet(p)
         /\ Decode("WebSocket", p) = next_ws_binary_message(p)
         /\ Decode("WorkerFrame", p) = decode_vst3_worker_frame(p)
         /\ Decode("WorkerAudio", p) = validate_vst3_worker_audio_frame(p)
         /\ Decode("WorkerParameters", p) = validate_vst3_worker_parameter_frame(p)
         /\ Decode("WorkerMultibus", p) = validate_vst3_worker_multibus_frame(p)
<1>1. /\ Decode("DeviceCatalog", p) = decode_device_catalog_snapshot(p)
      /\ Decode("ControlStatus", p) = decode_control_status_snapshot(p)
      /\ Decode("SessionCatalog", p) = decode_session_catalog_snapshot(p)
      /\ Decode("EqVisual", p) = decode_eq_visual_snapshot(p)
  BY DEF Decode, Scanned
<1>2. /\ Decode("Text", p) = (IF is_printable_utf8(p.text) THEN p ELSE Refused)
      /\ Decode("Utf8", p) = (IF has_valid_utf8(p.text) THEN p ELSE Refused)
      /\ Decode("DriverStream", p) = decode_driver_stream_packet(p)
      /\ Decode("DriverHeader", p) = control_header_decode(p)
  BY DEF Decode, Scanned
<1>3. /\ Decode("EndpointState", p) = decode_driver_endpoint_state_packet(p)
      /\ Decode("TabPacket", p) = decode_tab_capture_packet(p)
      /\ Decode("WebSocket", p) = next_ws_binary_message(p)
      /\ Decode("WorkerFrame", p) = decode_vst3_worker_frame(p)
  BY DEF Decode, Scanned
<1>4. /\ Decode("WorkerAudio", p) = validate_vst3_worker_audio_frame(p)
      /\ Decode("WorkerParameters", p) = validate_vst3_worker_parameter_frame(p)
      /\ Decode("WorkerMultibus", p) = validate_vst3_worker_multibus_frame(p)
  BY DEF Decode, Scanned
<1> QED
  BY <1>1, <1>2, <1>3, <1>4

\* What a value of each format means to its reader (the scene catalog and the
\* browser's frames apart).
LEMMA Meanings ==
  ASSUME NEW v
  PROVE  /\ Meaning("SessionVolume", v) = v
         /\ Meaning("EndpointState", v) = v
         /\ Meaning("DriverHeader", v) = v
         /\ Meaning("SessionCatalog", v) = v
         /\ Meaning("EqVisual", v) = v
         /\ Meaning("TabPacket", v) = v
         /\ Meaning("WorkerFrame", v) = v
         /\ Meaning("WorkerAudio", v) = v
         /\ Meaning("WorkerParameters", v) = v
         /\ Meaning("Volume", v) = [v EXCEPT !.db = Quantised(@)]
         /\ Meaning("GroupedVolume", v) = [volume |-> [v.volume EXCEPT !.db = Quantised(@)], group |-> Copied(v.group)]
         /\ Meaning("SessionRoute", v) = [v EXCEPT !.lane = Copied(@), !.group = Copied(@)]
         /\ Meaning("RouteRule", v) = [x \in DOMAIN v |-> IF x \in RuleTexts THEN Copied(v[x]) ELSE v[x]]
         /\ Meaning("IrPrepare", v) = [v EXCEPT !.path = Copied(@)]
         /\ Meaning("CalibrationPeq", v) = [v EXCEPT !.group = Copied(@)]
         /\ Meaning("SceneApply", v) = [v EXCEPT !.scene = Copied(@), !.group = Copied(@)]
         /\ Meaning("DeviceSwitch", v) = [v EXCEPT !.endpoint = Copied(@)]
         /\ Meaning("ControlStatus", v) = [v EXCEPT !.volume = [x \in DOMAIN @ |-> Quantised(@[x])],
                     !.entries = [i \in DOMAIN @ |-> CopiedRoute(@[i])]]
         /\ Meaning("DeviceCatalog", v) = [v EXCEPT !.entries = [i \in DOMAIN @ |-> CopiedDevice(@[i])]]
         /\ Meaning("DriverStream", v) = [v EXCEPT !.f.guid = UpToNul(@)]
         /\ Meaning("WorkerMultibus", v) = [f |-> v.f, body |-> v.body, slices |-> SamplesOfBuses(v.body.layout, v.f.frames)]
<1>1. /\ Meaning("SessionVolume", v) = v
      /\ Meaning("EndpointState", v) = v
      /\ Meaning("DriverHeader", v) = v
  BY DEF Meaning, Scanned
<1>2. /\ Meaning("SessionCatalog", v) = v
      /\ Meaning("EqVisual", v) = v
      /\ Meaning("TabPacket", v) = v
  BY DEF Meaning, Scanned
<1>3. /\ Meaning("WorkerFrame", v) = v
      /\ Meaning("WorkerAudio", v) = v
      /\ Meaning("WorkerParameters", v) = v
  BY DEF Meaning, Scanned
<1>4. /\ Meaning("Volume", v) = [v EXCEPT !.db = Quantised(@)]
      /\ Meaning("GroupedVolume", v) = [volume |-> [v.volume EXCEPT !.db = Quantised(@)], group |-> Copied(v.group)]
      /\ Meaning("SessionRoute", v) = [v EXCEPT !.lane = Copied(@), !.group = Copied(@)]
  BY DEF Meaning, Scanned
<1>5. /\ Meaning("RouteRule", v) = [x \in DOMAIN v |-> IF x \in RuleTexts THEN Copied(v[x]) ELSE v[x]]
      /\ Meaning("IrPrepare", v) = [v EXCEPT !.path = Copied(@)]
      /\ Meaning("CalibrationPeq", v) = [v EXCEPT !.group = Copied(@)]
  BY DEF Meaning, Scanned
<1>6. /\ Meaning("SceneApply", v) = [v EXCEPT !.scene = Copied(@), !.group = Copied(@)]
      /\ Meaning("DeviceSwitch", v) = [v EXCEPT !.endpoint = Copied(@)]
      /\ Meaning("ControlStatus", v) = [v EXCEPT !.volume = [x \in DOMAIN @ |-> Quantised(@[x])],
                     !.entries = [i \in DOMAIN @ |-> CopiedRoute(@[i])]]
  BY DEF Meaning, Scanned
<1>7. /\ Meaning("DeviceCatalog", v) = [v EXCEPT !.entries = [i \in DOMAIN @ |-> CopiedDevice(@[i])]]
      /\ Meaning("DriverStream", v) = [v EXCEPT !.f.guid = UpToNul(@)]
      /\ Meaning("WorkerMultibus", v) = [f |-> v.f, body |-> v.body, slices |-> SamplesOfBuses(v.body.layout, v.f.frames)]
  BY DEF Meaning, Scanned
<1> QED
  BY <1>1, <1>2, <1>3, <1>4, <1>5, <1>6, <1>7

\* The payloads that stand for a refusal.
LEMMA Refusals ==
  ASSUME NEW w
  PROVE  /\ EncoderRefused("Volume", w) <=> (w.f = ZeroVolume)
         /\ EncoderRefused("GroupedVolume", w) <=> (w.f.volume.f = ZeroVolume)
         /\ EncoderRefused("SessionVolume", w) <=> (w = Refused \/ w.f.sequence = 0)
         /\ EncoderRefused("SessionRoute", w) <=> (w = Refused \/ w.f.sequence = 0)
         /\ EncoderRefused("RouteRule", w) <=> (w = Refused \/ w.f.sequence = 0)
         /\ EncoderRefused("IrPrepare", w) <=> (w.f.schema = 0)
         /\ EncoderRefused("SceneCatalog", w) <=> (w = Refused)
         /\ EncoderRefused("CalibrationPeq", w) <=> (w = Refused)
         /\ EncoderRefused("SceneApply", w) <=> (w = Refused)
         /\ EncoderRefused("DeviceSwitch", w) <=> (w = Refused \/ w.f.sequence = 0)
         /\ EncoderRefused("DeviceCatalog", w) <=> (w = Refused)
         /\ EncoderRefused("ControlStatus", w) <=> (w = Refused)
         /\ EncoderRefused("SessionCatalog", w) <=> (w = Refused)
         /\ EncoderRefused("EqVisual", w) <=> (w = Refused)
         /\ EncoderRefused("DriverStream", w) <=> (w = Refused)
         /\ EncoderRefused("DriverHeader", w) <=> (w = Refused)
         /\ EncoderRefused("EndpointState", w) <=> (w = Refused)
         /\ EncoderRefused("TabPacket", w) <=> (w = Refused)
         /\ EncoderRefused("WebSocket", w) <=> (w = Refused)
         /\ EncoderRefused("WorkerFrame", w) <=> (w = Refused)
         /\ EncoderRefused("WorkerAudio", w) <=> (w = Refused)
         /\ EncoderRefused("WorkerParameters", w) <=> (w = Refused)
         /\ EncoderRefused("WorkerMultibus", w) <=> (w = Refused)
<1>1. /\ EncoderRefused("Volume", w) <=> (w.f = ZeroVolume)
      /\ EncoderRefused("GroupedVolume", w) <=> (w.f.volume.f = ZeroVolume)
      /\ EncoderRefused("SessionVolume", w) <=> (w = Refused \/ w.f.sequence = 0)
      /\ EncoderRefused("SessionRoute", w) <=> (w = Refused \/ w.f.sequence = 0)
  BY DEF EncoderRefused, ZeroPayload, Scanned
<1>2. /\ EncoderRefused("RouteRule", w) <=> (w = Refused \/ w.f.sequence = 0)
      /\ EncoderRefused("IrPrepare", w) <=> (w.f.schema = 0)
      /\ EncoderRefused("SceneCatalog", w) <=> (w = Refused)
      /\ EncoderRefused("CalibrationPeq", w) <=> (w = Refused)
  BY DEF EncoderRefused, ZeroPayload, Scanned
<1>3. /\ EncoderRefused("SceneApply", w) <=> (w = Refused)
      /\ EncoderRefused("DeviceSwitch", w) <=> (w = Refused \/ w.f.sequence = 0)
      /\ EncoderRefused("DeviceCatalog", w) <=> (w = Refused)
      /\ EncoderRefused("ControlStatus", w) <=> (w = Refused)
  BY DEF EncoderRefused, ZeroPayload, Scanned
<1>4. /\ EncoderRefused("SessionCatalog", w) <=> (w = Refused)
      /\ EncoderRefused("EqVisual", w) <=> (w = Refused)
      /\ EncoderRefused("DriverStream", w) <=> (w = Refused)
      /\ EncoderRefused("DriverHeader", w) <=> (w = Refused)
  BY DEF EncoderRefused, ZeroPayload, Scanned
<1>5. /\ EncoderRefused("EndpointState", w) <=> (w = Refused)
      /\ EncoderRefused("TabPacket", w) <=> (w = Refused)
      /\ EncoderRefused("WebSocket", w) <=> (w = Refused)
      /\ EncoderRefused("WorkerFrame", w) <=> (w = Refused)
  BY DEF EncoderRefused, ZeroPayload, Scanned
<1>6. /\ EncoderRefused("WorkerAudio", w) <=> (w = Refused)
      /\ EncoderRefused("WorkerParameters", w) <=> (w = Refused)
      /\ EncoderRefused("WorkerMultibus", w) <=> (w = Refused)
  BY DEF EncoderRefused, ZeroPayload, Scanned
<1> QED
  BY <1>1, <1>2, <1>3, <1>4, <1>5, <1>6

\* The values of each format.
LEMMA ValueTypes ==
  /\ ValueType("Volume") = VolumeValue
  /\ ValueType("GroupedVolume") = [volume : VolumeValue, group : TextField]
  /\ ValueType("SceneCatalog") = {c \in SceneCommand : \A i \in 1..MaxLanes : c.lanes[i].tail = 0}
  /\ ValueType("DeviceCatalog") = [sequence : Nat, entries : Seq(DeviceEntry)]
  /\ ValueType("ControlStatus") = [sequence : Nat, volume : LevelsOf, entries : Seq(RouteStatus)]
  /\ ValueType("SessionCatalog") = [sequence : Nat, generation : Nat, entries : Seq(SessionEntry)]
  /\ ValueType("EqVisual") = [sequence : Nat, source : Nat, points : [1..MaxPoints -> Int \X Int]]
  /\ ValueType("DriverStream") = [f : StreamHeader, samples : SampleRun]
  /\ ValueType("DriverHeader") = [type : Nat, request : Nat]
  /\ ValueType("EndpointState") = EndpointFields
  /\ ValueType("TabPacket") = [f : TabFields, samples : SampleRun]
  /\ ValueType("WebSocket") = [f : BrowserFields]
  /\ ValueType("WorkerFrame") = [f : WorkerHeader, body : SampleRun]
  /\ ValueType("WorkerAudio") = {c \in [f : WorkerHeader, body : SampleRun] : c.body.n = c.f.channels * c.f.frames}
  /\ ValueType("WorkerParameters") = [f : WorkerHeader, body : [points : Seq(PointRecord), samples : SampleRun]]
  /\ ValueType("WorkerMultibus") = [f : WorkerHeader, body : [layout : BusLayout, samples : SampleRun]]
  /\ ValueType("SessionVolume") = FieldsOf("SessionVolume")
  /\ ValueType("SessionRoute") = FieldsOf("SessionRoute")
  /\ ValueType("RouteRule") = FieldsOf("RouteRule")
  /\ ValueType("IrPrepare") = FieldsOf("IrPrepare")
  /\ ValueType("CalibrationPeq") = FieldsOf("CalibrationPeq")
  /\ ValueType("SceneApply") = FieldsOf("SceneApply")
  /\ ValueType("DeviceSwitch") = FieldsOf("DeviceSwitch")
<1>1. /\ ValueType("Volume") = VolumeValue
      /\ ValueType("GroupedVolume") = [volume : VolumeValue, group : TextField]
      /\ ValueType("SceneCatalog") = {c \in SceneCommand : \A i \in 1..MaxLanes : c.lanes[i].tail = 0}
  BY DEF ValueType, Scanned
<1>2. /\ ValueType("DeviceCatalog") = [sequence : Nat, entries : Seq(DeviceEntry)]
      /\ ValueType("ControlStatus") = [sequence : Nat, volume : LevelsOf, entries : Seq(RouteStatus)]
      /\ ValueType("SessionCatalog") = [sequence : Nat, generation : Nat, entries : Seq(SessionEntry)]
  BY DEF ValueType, Scanned
<1>3. /\ ValueType("EqVisual") = [sequence : Nat, source : Nat, points : [1..MaxPoints -> Int \X Int]]
      /\ ValueType("DriverStream") = [f : StreamHeader, samples : SampleRun]
      /\ ValueType("DriverHeader") = [type : Nat, request : Nat]
  BY DEF ValueType, Scanned
<1>4. /\ ValueType("EndpointState") = EndpointFields
      /\ ValueType("TabPacket") = [f : TabFields, samples : SampleRun]
      /\ ValueType("WebSocket") = [f : BrowserFields]
  BY DEF ValueType, Scanned
<1>5. /\ ValueType("WorkerFrame") = [f : WorkerHeader, body : SampleRun]
      /\ ValueType("WorkerAudio") = {c \in [f : WorkerHeader, body : SampleRun] : c.body.n = c.f.channels * c.f.frames}
      /\ ValueType("WorkerParameters") = [f : WorkerHeader, body : [points : Seq(PointRecord), samples : SampleRun]]
  BY DEF ValueType, Scanned
<1>6. /\ ValueType("WorkerMultibus") = [f : WorkerHeader, body : [layout : BusLayout, samples : SampleRun]]
      /\ ValueType("SessionVolume") = FieldsOf("SessionVolume")
      /\ ValueType("SessionRoute") = FieldsOf("SessionRoute")
  BY DEF ValueType, Scanned
<1>7. /\ ValueType("RouteRule") = FieldsOf("RouteRule")
      /\ ValueType("IrPrepare") = FieldsOf("IrPrepare")
      /\ ValueType("CalibrationPeq") = FieldsOf("CalibrationPeq")
  BY DEF ValueType, Scanned
<1>8. /\ ValueType("SceneApply") = FieldsOf("SceneApply")
      /\ ValueType("DeviceSwitch") = FieldsOf("DeviceSwitch")
  BY DEF ValueType, Scanned
<1> QED
  BY <1>1, <1>2, <1>3, <1>4, <1>5, <1>6, <1>7, <1>8

\* The payloads of each format.
LEMMA WireTypes ==
  /\ WireType("Volume") = {p \in WirePayload(RawVolume) : p.size # 48}
  /\ WireType("GroupedVolume") = {p \in WirePayload([volume : WirePayload(RawVolume), group : TextField]) :
              p.size # 16 /\ p.reservedZero}
  /\ WireType("SceneApply") = {p \in WirePayload(FieldsOf("SceneApply")) : p.reservedZero}
  /\ WireType("DeviceCatalog") = WireList(DeviceEntry, [sequence : Nat])
  /\ WireType("ControlStatus") = WireList(RouteStatus, [sequence : Nat, volume : LevelsOf])
  /\ WireType("SessionCatalog") = WireList(SessionEntry, [sequence : Nat, generation : Nat])
  /\ WireType("EqVisual") = CurvePayload
  /\ WireType("DriverStream") = StreamPacket
  /\ WireType("DriverHeader") = DriverPacket([type : Nat, request : Nat])
  /\ WireType("EndpointState") = DriverPacket(EndpointFields)
  /\ WireType("TabPacket") = TabPayload
  /\ WireType("WebSocket") = ClientFrame
  /\ WireType("WorkerFrame") = PipeFrame(SampleRun)
  /\ WireType("WorkerAudio") = PipeFrame(SampleRun)
  /\ WireType("WorkerParameters") = ParameterFrame
  /\ WireType("WorkerMultibus") = MultibusFrame
  /\ WireType("SessionVolume") = WirePayload(FieldsOf("SessionVolume"))
  /\ WireType("SessionRoute") = WirePayload(FieldsOf("SessionRoute"))
  /\ WireType("RouteRule") = WirePayload(FieldsOf("RouteRule"))
  /\ WireType("IrPrepare") = WirePayload(FieldsOf("IrPrepare"))
  /\ WireType("SceneCatalog") = WirePayload(FieldsOf("SceneCatalog"))
  /\ WireType("CalibrationPeq") = WirePayload(FieldsOf("CalibrationPeq"))
  /\ WireType("DeviceSwitch") = WirePayload(FieldsOf("DeviceSwitch"))
<1>1. /\ WireType("Volume") = {p \in WirePayload(RawVolume) : p.size # 48}
      /\ WireType("GroupedVolume") = {p \in WirePayload([volume : WirePayload(RawVolume), group : TextField]) :
              p.size # 16 /\ p.reservedZero}
      /\ WireType("SceneApply") = {p \in WirePayload(FieldsOf("SceneApply")) : p.reservedZero}
  BY DEF WireType, Scanned
<1>2. /\ WireType("DeviceCatalog") = WireList(DeviceEntry, [sequence : Nat])
      /\ WireType("ControlStatus") = WireList(RouteStatus, [sequence : Nat, volume : LevelsOf])
      /\ WireType("SessionCatalog") = WireList(SessionEntry, [sequence : Nat, generation : Nat])
  BY DEF WireType, Scanned
<1>3. /\ WireType("EqVisual") = CurvePayload
      /\ WireType("DriverStream") = StreamPacket
      /\ WireType("DriverHeader") = DriverPacket([type : Nat, request : Nat])
  BY DEF WireType, Scanned
<1>4. /\ WireType("EndpointState") = DriverPacket(EndpointFields)
      /\ WireType("TabPacket") = TabPayload
      /\ WireType("WebSocket") = ClientFrame
  BY DEF WireType, Scanned
<1>5. /\ WireType("WorkerFrame") = PipeFrame(SampleRun)
      /\ WireType("WorkerAudio") = PipeFrame(SampleRun)
      /\ WireType("WorkerParameters") = ParameterFrame
  BY DEF WireType, Scanned
<1>6. /\ WireType("WorkerMultibus") = MultibusFrame
      /\ WireType("SessionVolume") = WirePayload(FieldsOf("SessionVolume"))
      /\ WireType("SessionRoute") = WirePayload(FieldsOf("SessionRoute"))
  BY DEF WireType, Scanned
<1>7. /\ WireType("RouteRule") = WirePayload(FieldsOf("RouteRule"))
      /\ WireType("IrPrepare") = WirePayload(FieldsOf("IrPrepare"))
      /\ WireType("SceneCatalog") = WirePayload(FieldsOf("SceneCatalog"))
  BY DEF WireType, Scanned
<1>8. /\ WireType("CalibrationPeq") = WirePayload(FieldsOf("CalibrationPeq"))
      /\ WireType("DeviceSwitch") = WirePayload(FieldsOf("DeviceSwitch"))
  BY DEF WireType, Scanned
<1> QED
  BY <1>1, <1>2, <1>3, <1>4, <1>5, <1>6, <1>7, <1>8

\* The fields of each command.
LEMMA Fields ==
  /\ FieldsOf("SessionVolume") = [handle : Nat, sequence : Nat, mute : Nat, raw : Int]
  /\ FieldsOf("SessionRoute") = [handle : Nat, sequence : Nat, lane : TextField, group : TextField]
  /\ FieldsOf("RouteRule") = [schema : Nat, operation : Nat, enabled : Nat, owner : Nat, sequence : Nat, makeup : Int,
            rule : TextField, app : TextField, name : TextField, lane : TextField, group : TextField]
  /\ FieldsOf("IrPrepare") = [schema : Nat, mode : Nat, strength : Int, rate : Nat, channels : Nat, path : TextField]
  /\ FieldsOf("SceneCatalog") = SceneCommand
  /\ FieldsOf("CalibrationPeq") = [schema : Nat, count : Nat, clear : Nat, group : TextField,
            filters : [1..MaxFilters -> [hz : Int, gain : Int, q : Int]]]
  /\ FieldsOf("SceneApply") = [scene : TextField, group : TextField]
  /\ FieldsOf("DeviceSwitch") = [endpoint : TextField, channels : Nat, rate : Nat, frames : Nat, sequence : Nat]
<1>1. /\ FieldsOf("SessionVolume") = [handle : Nat, sequence : Nat, mute : Nat, raw : Int]
      /\ FieldsOf("SessionRoute") = [handle : Nat, sequence : Nat, lane : TextField, group : TextField]
      /\ FieldsOf("RouteRule") = [schema : Nat, operation : Nat, enabled : Nat, owner : Nat, sequence : Nat, makeup : Int,
            rule : TextField, app : TextField, name : TextField, lane : TextField, group : TextField]
      /\ FieldsOf("IrPrepare") = [schema : Nat, mode : Nat, strength : Int, rate : Nat, channels : Nat, path : TextField]
  BY DEF FieldsOf
<1>2. /\ FieldsOf("SceneCatalog") = SceneCommand
      /\ FieldsOf("CalibrationPeq") = [schema : Nat, count : Nat, clear : Nat, group : TextField,
            filters : [1..MaxFilters -> [hz : Int, gain : Int, q : Int]]]
      /\ FieldsOf("SceneApply") = [scene : TextField, group : TextField]
      /\ FieldsOf("DeviceSwitch") = [endpoint : TextField, channels : Nat, rate : Nat, frames : Nat, sequence : Nat]
  BY DEF FieldsOf
<1> QED
  BY <1>1, <1>2

-------------------------------------------------------------------------------
(* Text fields, counts and decibels.                                          *)

\* The constants of the texts and of the decibels, as numbers.
LEMMA Sizes == TextCap \in Nat /\ TextCap >= 1 /\ QuantaPerDb \in Nat /\ QuantaPerDb >= 1
BY WireAssumption

\* Two fields with the same bytes are the same.
LEMMA SameBody ==
  ASSUME NEW S, NEW f \in [1..TextCap -> S], NEW g \in [1..TextCap -> S],
         \A i \in 1..TextCap : f[i] = g[i]
  PROVE  f = g
<1>1. f = [i \in 1..TextCap |-> f[i]] /\ g = [i \in 1..TextCap |-> g[i]]
  OBVIOUS
<1>2. [i \in 1..TextCap |-> f[i]] = [i \in 1..TextCap |-> g[i]]
  BY Zenon
<1> QED
  BY <1>1, <1>2, Zenon

\* What a copied text is.
LEMMA CopiedText ==
  ASSUME NEW t \in TextField
  PROVE  /\ Copied(t) \in TextField /\ Copied(t).n = t.n /\ TailZero(Copied(t))
         /\ t.n <= TextCap => Used(Copied(t)) = Used(t)
         /\ TailZero(t) => Copied(t) = t
<1> DEFINE b == [i \in 1..TextCap |-> IF i <= t.n THEN t.body[i] ELSE 0]
<1>1. t.n \in Nat /\ t.body \in [1..TextCap -> Byte] /\ t = [n |-> t.n, body |-> t.body]
  BY DEF TextField, FieldBody
<1>2. Copied(t) = [n |-> t.n, body |-> b]
  <2>1. Copied(t) = [t EXCEPT !.body = b]
    BY Zenon DEF Copied
  <2> HIDE DEF b
  <2> QED
    BY <1>1, <2>1
<1>3. b \in [1..TextCap -> Byte]
  <2>1. 0 \in Byte
    BY SMT DEF Byte
  <2>2. \A i \in 1..TextCap : (IF i <= t.n THEN t.body[i] ELSE 0) \in Byte
    BY <1>1, <2>1
  <2> QED
    BY <2>2, Zenon
<1>4. TailZero(Copied(t))
  BY <1>1, <1>2, Sizes DEF TailZero
<1>5. ASSUME t.n <= TextCap PROVE Used(Copied(t)) = Used(t)
  <2>1. b \in Seq(Byte) /\ t.body \in Seq(Byte)
    BY <1>1, <1>3, Sizes
  <2>2. \A i \in 1..t.n : b[i] = t.body[i]
    BY <1>1, <1>5, Sizes
  <2>3. SubSeq(b, 1, t.n) = SubSeq(t.body, 1, t.n)
    <3>1. \A i \in 1..t.n : i + 1 - 1 \in 1..t.n
      BY <1>1
    <3>2. /\ SubSeq(b, 1, t.n) = [i \in 1..t.n |-> b[i]]
          /\ SubSeq(t.body, 1, t.n) = [i \in 1..t.n |-> t.body[i]]
      <4> HIDE DEF b
      <4> QED
        BY <1>1, <1>5, <2>1, Sizes, SubSeqProperties
    <3> HIDE DEF b
    <3> QED
      BY <2>2, <3>2
  <2>4. Used(Copied(t)) = SubSeq(b, 1, t.n)
    <3> HIDE DEF b
    <3>1. Copied(t).body = b /\ Copied(t).n = t.n
      BY <1>2
    <3> QED
      BY <3>1, Zenon DEF Used
  <2> QED
    BY <2>3, <2>4 DEF Used
<1>6. ASSUME TailZero(t) PROVE Copied(t) = t
  <2>1. \A i \in 1..TextCap : b[i] = t.body[i]
    BY <1>1, <1>6, Sizes DEF TailZero
  <2>2. b = t.body
    <3> HIDE DEF b
    <3> QED
      BY <1>1, <1>3, <2>1, SameBody, Zenon
  <2> QED
    BY <1>1, <1>2, <2>2
<1>7. Copied(t) \in TextField
  <2> HIDE DEF b
  <2> QED
    BY <1>1, <1>2, <1>3 DEF TextField, FieldBody
<1> QED
  BY <1>2, <1>4, <1>5, <1>6, <1>7

\* A field that holds a text is copied into one that decodes; a field whose tail
\* is clear is copied as it is.
LEMMA GoodCopied ==
  ASSUME NEW t \in TextField, GoodText(t)
  PROVE  PaddedText(Copied(t)) /\ Copied(t) # NoText
<1>1. t.n \in 1..TextCap
  BY DEF GoodText
<1>2. t.n <= TextCap /\ t.n # 0
  BY <1>1, Sizes
<1>3. NoText.n = 0
  BY DEF NoText
<1> QED
  BY <1>1, <1>2, <1>3, CopiedText DEF PaddedText, GoodText

\* A text that decodes is copied as it is.
LEMMA PaddedCopied ==
  ASSUME NEW t \in TextField, PaddedText(t)
  PROVE  GoodText(t) /\ Copied(t) = t
BY CopiedText DEF PaddedText

\* The empty text is no text to write, and a copied empty text is it.
LEMMA Empty ==
  /\ NoText \in TextField /\ NoText.n = 0 /\ ~GoodText(NoText)
  /\ \A t \in TextField : t.n = 0 => Copied(t) = NoText
<1>1. NoText \in TextField
  BY Sizes DEF NoText, ZeroBytes, TextField, FieldBody, Byte
<1>2. NoText.n = 0
  BY DEF NoText
<1>3. ~GoodText(NoText)
  BY <1>2 DEF GoodText
<1>4. ASSUME NEW t \in TextField, t.n = 0 PROVE Copied(t) = NoText
  <2>1. t = [n |-> 0, body |-> t.body]
    BY <1>4 DEF TextField
  <2>2. Copied(t) = [n |-> 0, body |-> [i \in 1..TextCap |-> IF i <= 0 THEN t.body[i] ELSE 0]]
    <3> DEFINE z == [i \in 1..TextCap |-> IF i <= t.n THEN t.body[i] ELSE 0]
    <3>1. Copied(t) = [t EXCEPT !.body = z]
      BY Zenon DEF Copied
    <3>2. z = [i \in 1..TextCap |-> IF i <= 0 THEN t.body[i] ELSE 0]
      BY <1>4
    <3> HIDE DEF z
    <3> QED
      <4>1. t \in [n : Nat, body : FieldBody]
        BY DEF TextField
      <4> QED
        BY <4>1, <1>4, <3>1, <3>2
  <2>3. [i \in 1..TextCap |-> IF i <= 0 THEN t.body[i] ELSE 0] = ZeroBytes
    BY Sizes DEF ZeroBytes
  <2> QED
    BY <2>2, <2>3 DEF NoText
<1> QED
  BY <1>1, <1>2, <1>3, <1>4

\* An optional text, copied, is one that decodes.
LEMMA OptionalCopied ==
  ASSUME NEW t \in TextField, OptionalText(t)
  PROVE  /\ Copied(t) = t /\ t.n <= TextCap
         /\ t.n # 0 => PaddedText(t)
         /\ t.n = 0 => t = NoText
<1>1. TailZero(t) /\ t.n <= TextCap /\ is_printable_utf8(Used(t))
  BY DEF OptionalText
<1>2. Copied(t) = t
  BY <1>1, CopiedText
<1>3. t.n \in Nat
  BY DEF TextField
<1> QED
  BY <1>1, <1>2, <1>3, Empty, Sizes DEF PaddedText, GoodText

-------------------------------------------------------------------------------
(* The commands whose payload is their structure.                             *)

\* A command of fields F agrees when its writer cleans the values Ok and refuses
\* the others, its reader takes the fields Good as they are, and the cleaned
\* values are good ones which the writer would not change.
CommandForm(k, n, F, Ok, Good, none) ==
    /\ k \in CommandKinds /\ k \notin LaxReaders /\ n \in Nat /\ n <= 4096 /\ Refused \notin F
    /\ ValueType(k) = F /\ WireType(k) \subseteq WirePayload(F)
    /\ \A f \in F : Payload(n, f) \in WireType(k)
    /\ \A v \in F : Encode(k, v) = IF v \in Ok THEN Payload(n, Meaning(k, v)) ELSE none
    /\ \A p \in WireType(k) : ~(p.size > kIpcMaxPayloadBytes) =>
          DecodePayload(MessageType[k], p) =
             IF p.size = n /\ p.reservedZero /\ p.f \in Good THEN p.f ELSE Refused
    /\ \A v \in F : v \in Ok =>
          /\ Meaning(k, v) \in F /\ (Meaning(k, v) \in Good \/ k \in LaxWriters)
          /\ ~EncoderRefused(k, Payload(n, Meaning(k, v)))
    /\ none # Refused =>
          \E z \in F : none = Payload(n, z) /\ z \notin Good /\ EncoderRefused(k, Payload(n, z))
    /\ \A f \in F : f \in Good => f \in Ok /\ Meaning(k, f) = f

\* A command in that form agrees.
LEMMA CommandAgrees ==
  ASSUME NEW k, NEW n, NEW F, NEW Ok, NEW Good, NEW none, CommandForm(k, n, F, Ok, Good, none)
  PROVE  Agree(k)
<1>0. /\ k \in CommandKinds /\ k \notin LaxReaders /\ n \in Nat /\ n <= 4096 /\ Refused \notin F
      /\ ValueType(k) = F /\ WireType(k) \subseteq WirePayload(F)
      /\ \A f \in F : Payload(n, f) \in WireType(k)
  BY DEF CommandForm
<1>d. \A v \in F : Encode(k, v) = IF v \in Ok THEN Payload(n, Meaning(k, v)) ELSE none
  BY DEF CommandForm
<1>e. \A v \in F : v \in Ok =>
          /\ Meaning(k, v) \in F /\ (Meaning(k, v) \in Good \/ k \in LaxWriters)
          /\ ~EncoderRefused(k, Payload(n, Meaning(k, v)))
  BY DEF CommandForm
<1>f. \A f \in F : f \in Good => f \in Ok /\ Meaning(k, f) = f
  BY DEF CommandForm
<1>a. ASSUME NEW v \in F
      PROVE  /\ Encode(k, v) = IF v \in Ok THEN Payload(n, Meaning(k, v)) ELSE none
             /\ v \in Ok =>
                  /\ Meaning(k, v) \in F /\ (Meaning(k, v) \in Good \/ k \in LaxWriters)
                  /\ ~EncoderRefused(k, Payload(n, Meaning(k, v)))
             /\ v \in Good => v \in Ok /\ Meaning(k, v) = v
  BY <1>d, <1>e, <1>f
<1>b. none # Refused => \E z \in F : /\ none = Payload(n, z) /\ z \notin Good
                                      /\ EncoderRefused(k, Payload(n, z))
  BY DEF CommandForm
<1>c. ASSUME NEW p \in WireType(k)
      PROVE  Decode(k, p) = IF p.size > kIpcMaxPayloadBytes THEN Refused
                            ELSE IF p.size = n /\ p.reservedZero /\ p.f \in Good THEN p.f ELSE Refused
  <2>1. p.size \in Nat
    BY <1>0, Unpacked
  <2>2. ~(p.size > kIpcMaxPayloadBytes) => DecodePayload(MessageType[k], p) =
             IF p.size = n /\ p.reservedZero /\ p.f \in Good THEN p.f ELSE Refused
    BY DEF CommandForm
  <2> QED
    BY <1>0, <2>1, <2>2, CommandRead
<1>1. ASSUME NEW v \in F PROVE Faithful(k, v)
  <2> DEFINE m == Meaning(k, v)
             w == Payload(n, m)
  <2>1. CASE v \in Ok
    <3>1. Encode(k, v) = w /\ m \in F /\ (m \in Good \/ k \in LaxWriters) /\ ~EncoderRefused(k, w)
      BY <2>1, <1>a
    <3>2. w \in WireType(k) /\ m # Refused
      BY <3>1, <1>0
    <3>3. w.size = n /\ w.reservedZero /\ w.f = m /\ ~(w.size > kIpcMaxPayloadBytes)
      BY <1>0, Written
    <3> HIDE DEF w, m
    <3>4. Decode(k, w) = IF m \in Good THEN m ELSE Refused
      BY <3>2, <3>3, <1>c
    <3>5. CASE m \in Good
      BY <3>1, <3>2, <3>4, <3>5, WrittenAndRead DEF m
    <3>6. CASE m \notin Good
      BY <3>1, <3>2, <3>4, <3>6, WrittenAndNotRead
    <3> QED
      BY <3>5, <3>6
  <2>2. CASE v \notin Ok
    <3>1. Encode(k, v) = none
      BY <2>2, <1>a
    <3>2. CASE none = Refused
      BY <3>1, <3>2, NotWritten
    <3>3. CASE none # Refused
      <4>1. PICK z \in F : none = Payload(n, z) /\ z \notin Good /\ EncoderRefused(k, Payload(n, z))
        BY <3>3, <1>b
      <4>2. none.f = z /\ ~(none.size > kIpcMaxPayloadBytes)
        BY <1>0, <4>1, Written
      <4>3. none \in WireType(k)
        BY <1>0, <4>1
      <4>4. Decode(k, none) = Refused
        BY <4>1, <4>2, <4>3, <1>c
      <4> QED
        BY <3>1, <4>1, <4>3, <4>4, RefusedTwice
    <3> QED
      BY <3>2, <3>3
  <2> QED
    BY <2>1, <2>2
<1>2. ASSUME NEW p \in WireType(k) PROVE Stable(k, p)
  <2>1. p.f \in F /\ p.reservedZero \in BOOLEAN /\ (p.reservedZero => p = Payload(p.size, p.f))
    BY <1>0, Unpacked
  <2>2. CASE Decode(k, p) = Refused
    BY <2>2, NotRead
  <2>3. CASE Decode(k, p) # Refused
    <3>1. p.size = n /\ p.reservedZero /\ p.f \in Good /\ Decode(k, p) = p.f
      BY <2>3, <1>c
    <3>2. Encode(k, p.f) = p
      BY <2>1, <3>1, <1>a
    <3> QED
      BY <1>0, <3>1, <3>2, ReadAndWritten
  <2> QED
    BY <2>2, <2>3
<1> QED
  BY <1>0, <1>1, <1>2 DEF Agree

\* A session volume command is carried faithfully, and read stably.
LEMMA SessionVolumeAgrees == Agree("SessionVolume")
<1> DEFINE F == [handle : Nat, sequence : Nat, mute : Nat, raw : Int]
           Ok == {c \in F : c.handle # 0 /\ c.sequence # 0 /\ c.mute <= 1 /\ is_valid_session_volume(c.raw)}
           z == [handle |-> 0, sequence |-> 0, mute |-> 0, raw |-> 0]
<1>1. /\ ValueType("SessionVolume") = F /\ WireType("SessionVolume") = WirePayload(F)
      /\ "SessionVolume" \in CommandKinds /\ "SessionVolume" \notin LaxReaders
  BY ValueTypes, WireTypes, Fields DEF CommandKinds, LaxReaders
<1>2. Refused \notin F /\ z \in F /\ z \notin Ok /\ z.sequence = 0
  BY DEF Refused
<1>3. \A v : Meaning("SessionVolume", v) = v
  BY Meanings
<1>4. \A v \in F : Encode("SessionVolume", v) = IF v \in Ok THEN Payload(24, v) ELSE Payload(24, z)
  BY Writers DEF encode_session_volume_command
<1>5. ASSUME NEW p \in WirePayload(F)
      PROVE  DecodePayload(MessageType["SessionVolume"], p) =
                IF p.size = 24 /\ p.reservedZero /\ p.f \in Ok THEN p.f ELSE Refused
  <2>1. p.f \in F
    BY Unpacked
  <2>2. decode_session_volume_command(p) =
           IF p.size = 24 /\ p.reservedZero /\ p.f \in Ok THEN p.f ELSE Refused
    BY <2>1 DEF decode_session_volume_command
  <2> QED
    BY <2>2, CommandReaders
<1>6. \A f : EncoderRefused("SessionVolume", Payload(24, f)) <=> f.sequence = 0
  BY Written, Refusals
<1>7. \A f \in Ok : f.sequence # 0
  OBVIOUS
<1> HIDE DEF F, Ok, z
<1>8. 24 \in Nat /\ 24 <= 4096 /\ \A f \in F : Payload(24, f) \in WirePayload(F)
  BY Packed
<1>9. CommandForm("SessionVolume", 24, F, Ok, Ok, Payload(24, z))
  BY <1>1, <1>2, <1>3, <1>4, <1>5, <1>6, <1>7, <1>8 DEF CommandForm
<1> QED
  BY <1>9, CommandAgrees

\* A session route command is carried faithfully, and read stably.
LEMMA SessionRouteAgrees == Agree("SessionRoute")
<1> DEFINE F == [handle : Nat, sequence : Nat, lane : TextField, group : TextField]
           Ok == {c \in F : c.handle # 0 /\ c.sequence # 0 /\ GoodText(c.lane) /\ GoodText(c.group)}
           Good == {c \in F : c.handle # 0 /\ c.sequence # 0 /\ PaddedText(c.lane) /\ PaddedText(c.group)}
           z == [handle |-> 0, sequence |-> 0, lane |-> NoText, group |-> NoText]
           M(c) == [c EXCEPT !.lane = Copied(@), !.group = Copied(@)]
<1>1. /\ ValueType("SessionRoute") = F /\ WireType("SessionRoute") = WirePayload(F)
      /\ "SessionRoute" \in CommandKinds /\ "SessionRoute" \notin LaxReaders
  BY ValueTypes, WireTypes, Fields DEF CommandKinds, LaxReaders
<1>2. Refused \notin F /\ z \in F /\ z \notin Good /\ z.sequence = 0
  BY Empty DEF Refused
<1>3. \A v : Meaning("SessionRoute", v) = M(v)
  BY Meanings
<1>4. \A v \in F : Encode("SessionRoute", v) = IF v \in Ok THEN Payload(128, M(v)) ELSE Payload(128, z)
  BY Writers, ZenonT(40) DEF encode_session_route_command
<1>5. ASSUME NEW p \in WirePayload(F)
      PROVE  DecodePayload(MessageType["SessionRoute"], p) =
                IF p.size = 128 /\ p.reservedZero /\ p.f \in Good THEN p.f ELSE Refused
  <2>1. p.f \in F
    BY Unpacked
  <2>2. decode_session_route_command(p) =
           IF p.size = 128 /\ p.reservedZero /\ p.f \in Good THEN p.f ELSE Refused
    BY <2>1 DEF decode_session_route_command
  <2> QED
    BY <2>2, CommandReaders
<1>6. \A f : EncoderRefused("SessionRoute", Payload(128, f)) <=> f.sequence = 0
  BY Written, Refusals
<1>7. \A c \in F : c.lane \in TextField /\ c.group \in TextField
  OBVIOUS
<1>8. \A v \in Ok : M(v) \in Good /\ M(v).sequence # 0
  BY <1>7, CopiedText, GoodCopied
<1>9. \A v \in Good : v \in Ok /\ M(v) = v
  BY <1>7, PaddedCopied
<1>10. Good \subseteq F
  OBVIOUS
<1> HIDE DEF F, Ok, Good, z, M
<1>11. 128 \in Nat /\ 128 <= 4096 /\ \A f \in F : Payload(128, f) \in WirePayload(F)
  BY Packed
<1>12. CommandForm("SessionRoute", 128, F, Ok, Good, Payload(128, z))
  BY <1>1, <1>2, <1>3, <1>4, <1>5, <1>6, <1>8, <1>9, <1>10, <1>11 DEF CommandForm
<1> QED
  BY <1>12, CommandAgrees

\* A scene apply command is carried faithfully, and read stably.
LEMMA SceneApplyAgrees == Agree("SceneApply")
<1> DEFINE F == [scene : TextField, group : TextField]
           Ok == {c \in F : GoodText(c.scene) /\ GoodText(c.group)}
           Good == {c \in F : PaddedText(c.scene) /\ PaddedText(c.group)}
           M(c) == [c EXCEPT !.scene = Copied(@), !.group = Copied(@)]
<1>1. /\ ValueType("SceneApply") = F /\ WireType("SceneApply") = {p \in WirePayload(F) : p.reservedZero}
      /\ "SceneApply" \in CommandKinds /\ "SceneApply" \notin LaxReaders
  BY ValueTypes, WireTypes, Fields DEF CommandKinds, LaxReaders
<1>2. Refused \notin F
  BY DEF Refused
<1>3. \A v : Meaning("SceneApply", v) = M(v)
  BY Meanings
<1>4. \A v \in F : Encode("SceneApply", v) = IF v \in Ok THEN Payload(64, M(v)) ELSE Refused
  <2>1. ASSUME NEW v \in F PROVE [scene |-> Copied(v.scene), group |-> Copied(v.group)] = M(v)
    <3> DEFINE s == Copied(v.scene)
               g == Copied(v.group)
    <3>1. M(v) = [v EXCEPT !.scene = s, !.group = g]
      BY Zenon
    <3> HIDE DEF s, g, M
    <3>2. M(v) = [scene |-> s, group |-> g]
      BY <3>1
    <3> QED
      BY <3>2, Zenon DEF s, g
  <2> HIDE DEF M
  <2> QED
    BY <2>1, Writers DEF encode_scene_apply_payload
<1>5. ASSUME NEW p \in WireType("SceneApply")
      PROVE  DecodePayload(MessageType["SceneApply"], p) =
                IF p.size = 64 /\ p.reservedZero /\ p.f \in Good THEN p.f ELSE Refused
  <2>1. p.f \in F /\ p.reservedZero
    BY <1>1, Unpacked
  <2>2. decode_scene_apply_payload(p) =
           IF p.size = 64 /\ p.reservedZero /\ p.f \in Good THEN p.f ELSE Refused
    BY <2>1 DEF decode_scene_apply_payload
  <2> QED
    BY <2>2, CommandReaders
<1>6. \A f : ~EncoderRefused("SceneApply", Payload(64, f))
  BY Written, Refusals
<1>7. \A c \in F : c.scene \in TextField /\ c.group \in TextField
  OBVIOUS
<1>8. \A v \in Ok : M(v) \in Good
  BY <1>7, CopiedText, GoodCopied
<1>9. \A v \in Good : v \in Ok /\ M(v) = v
  BY <1>7, PaddedCopied
<1>10. Good \subseteq F
  OBVIOUS
<1> HIDE DEF F, Ok, Good, M
<1>11. 64 \in Nat /\ 64 <= 4096 /\ \A f \in F : Payload(64, f) \in WirePayload(F) /\ Payload(64, f).reservedZero
  BY Packed, Written
<1>12. CommandForm("SceneApply", 64, F, Ok, Good, Refused)
  BY <1>1, <1>2, <1>3, <1>4, <1>5, <1>6, <1>8, <1>9, <1>10, <1>11 DEF CommandForm
<1> QED
  BY <1>12, CommandAgrees

\* A device switch command is carried faithfully, and read stably.
LEMMA DeviceSwitchAgrees == Agree("DeviceSwitch")
<1> DEFINE F == [endpoint : TextField, channels : Nat, rate : Nat, frames : Nat, sequence : Nat]
           Ok == {c \in F : GoodText(c.endpoint) /\ c.sequence # 0}
           Good == {c \in F : PaddedText(c.endpoint) /\ StreamFormatValid(c) /\ c.sequence # 0}
           M(c) == [c EXCEPT !.endpoint = Copied(@)]
           z == [endpoint |-> NoText, channels |-> 0, rate |-> 0, frames |-> 0, sequence |-> 0]
<1>1. /\ ValueType("DeviceSwitch") = F /\ WireType("DeviceSwitch") = WirePayload(F)
      /\ "DeviceSwitch" \in CommandKinds /\ "DeviceSwitch" \notin LaxReaders /\ "DeviceSwitch" \in LaxWriters
  BY ValueTypes, WireTypes, Fields DEF CommandKinds, LaxReaders, LaxWriters
<1>2. Refused \notin F /\ z \in F /\ z \notin Good /\ z.sequence = 0
  BY Empty DEF Refused
<1>3. \A v : Meaning("DeviceSwitch", v) = M(v)
  BY Meanings
<1>4. ASSUME NEW v \in F
      PROVE  Encode("DeviceSwitch", v) = IF v \in Ok THEN Payload(288, M(v)) ELSE Payload(288, z)
  <2>1. [x \in DOMAIN v |-> IF x = "endpoint" THEN NoText ELSE 0] = z
    OBVIOUS
  <2> QED
    BY <2>1, Writers DEF encode_device_switch_payload
<1>5. ASSUME NEW p \in WirePayload(F)
      PROVE  DecodePayload(MessageType["DeviceSwitch"], p) =
                IF p.size = 288 /\ p.reservedZero /\ p.f \in Good THEN p.f ELSE Refused
  <2>1. p.f \in F
    BY Unpacked
  <2>2. decode_device_switch_payload(p) =
           IF p.size = 288 /\ p.reservedZero /\ p.f \in Good THEN p.f ELSE Refused
    BY <2>1 DEF decode_device_switch_payload
  <2> QED
    BY <2>2, CommandReaders
<1>6. \A f : EncoderRefused("DeviceSwitch", Payload(288, f)) <=> f.sequence = 0
  BY Written, Refusals
<1>7. \A c \in F : c.endpoint \in TextField
  OBVIOUS
<1>8. \A v \in Ok : M(v) \in F /\ M(v).sequence # 0
  BY <1>7, CopiedText
<1>9. \A v \in Good : v \in Ok /\ M(v) = v
  BY <1>7, PaddedCopied
<1> HIDE DEF F, Ok, Good, z, M
<1>11. 288 \in Nat /\ 288 <= 4096 /\ \A f \in F : Payload(288, f) \in WirePayload(F)
  BY Packed
<1>12. CommandForm("DeviceSwitch", 288, F, Ok, Good, Payload(288, z))
  BY <1>1, <1>2, <1>3, <1>4, <1>5, <1>6, <1>8, <1>9, <1>11 DEF CommandForm
<1> QED
  BY <1>12, CommandAgrees

\* An IR prepare command is carried faithfully, and read stably.
LEMMA IrPrepareAgrees == Agree("IrPrepare")
<1> DEFINE F == [schema : Nat, mode : Nat, strength : Int, rate : Nat, channels : Nat, path : TextField]
           Ok == {c \in F : IrFieldsValid(c) /\ GoodText(c.path)}
           Good == {c \in F : IrFieldsValid(c) /\ PaddedText(c.path)}
           M(c) == [c EXCEPT !.path = Copied(@)]
           z == [schema |-> 0, mode |-> 0, strength |-> 0, rate |-> 0, channels |-> 0, path |-> NoText]
<1>1. /\ ValueType("IrPrepare") = F /\ WireType("IrPrepare") = WirePayload(F)
      /\ "IrPrepare" \in CommandKinds /\ "IrPrepare" \notin LaxReaders
  BY ValueTypes, WireTypes, Fields DEF CommandKinds, LaxReaders
<1>2. Refused \notin F /\ z \in F /\ z \notin Good /\ z.schema = 0
  BY Empty, SMT DEF Refused, IrFieldsValid
<1>3. \A v : Meaning("IrPrepare", v) = M(v)
  BY Meanings
<1>4. ASSUME NEW v \in F
      PROVE  Encode("IrPrepare", v) = IF v \in Ok THEN Payload(288, M(v)) ELSE Payload(288, z)
  <2>1. [x \in DOMAIN v |-> IF x = "path" THEN NoText ELSE 0] = z
    OBVIOUS
  <2> QED
    BY <2>1, Writers DEF encode_ir_prepare_command
<1>5. ASSUME NEW p \in WirePayload(F)
      PROVE  DecodePayload(MessageType["IrPrepare"], p) =
                IF p.size = 288 /\ p.reservedZero /\ p.f \in Good THEN p.f ELSE Refused
  <2>1. p.f \in F
    BY Unpacked
  <2>2. decode_ir_prepare_command(p) =
           IF p.size = 288 /\ p.reservedZero /\ p.f \in Good THEN p.f ELSE Refused
    BY <2>1 DEF decode_ir_prepare_command
  <2> QED
    BY <2>2, CommandReaders
<1>6. \A f : EncoderRefused("IrPrepare", Payload(288, f)) <=> f.schema = 0
  BY Written, Refusals
<1>7. \A c \in F : c.path \in TextField
  OBVIOUS
<1>8. ASSUME NEW v \in Ok PROVE M(v) \in Good /\ M(v).schema # 0
  <2>1. /\ M(v) \in F /\ M(v).path = Copied(v.path) /\ M(v).schema = v.schema /\ M(v).mode = v.mode
        /\ M(v).strength = v.strength /\ M(v).rate = v.rate /\ M(v).channels = v.channels
    BY <1>7, CopiedText
  <2>2. IrFieldsValid(v) /\ GoodText(v.path) /\ v.path \in TextField
    BY <1>7
  <2> HIDE DEF M
  <2>3. IrFieldsValid(M(v)) /\ M(v).schema # 0
    BY <2>1, <2>2, SMT DEF IrFieldsValid
  <2> QED
    BY <2>1, <2>2, <2>3, GoodCopied
<1>9. \A v \in Good : v \in Ok /\ M(v) = v
  BY <1>7, PaddedCopied
<1>10. Good \subseteq F
  OBVIOUS
<1> HIDE DEF F, Ok, Good, z, M
<1>11. 288 \in Nat /\ 288 <= 4096 /\ \A f \in F : Payload(288, f) \in WirePayload(F)
  BY Packed
<1>12. CommandForm("IrPrepare", 288, F, Ok, Good, Payload(288, z))
  BY <1>1, <1>2, <1>3, <1>4, <1>5, <1>6, <1>8, <1>9, <1>10, <1>11 DEF CommandForm
<1> QED
  BY <1>12, CommandAgrees

\* A calibration PEQ command is carried faithfully, and read stably.
LEMMA CalibrationPeqAgrees == Agree("CalibrationPeq")
<1> DEFINE F == [schema : Nat, count : Nat, clear : Nat, group : TextField,
                 filters : [1..MaxFilters -> [hz : Int, gain : Int, q : Int]]]
           Ok == {c \in F : PeqValid(c) /\ GoodText(c.group)}
           Good == {c \in F : PeqValid(c) /\ PaddedText(c.group)}
           M(c) == [c EXCEPT !.group = Copied(@)]
<1>1. /\ ValueType("CalibrationPeq") = F /\ WireType("CalibrationPeq") = WirePayload(F)
      /\ "CalibrationPeq" \in CommandKinds /\ "CalibrationPeq" \notin LaxReaders
  BY ValueTypes, WireTypes, Fields DEF CommandKinds, LaxReaders
<1>2. Refused \notin F
  BY DEF Refused
<1>3. \A v : Meaning("CalibrationPeq", v) = M(v)
  BY Meanings
<1>4. \A v \in F : Encode("CalibrationPeq", v) = IF v \in Ok THEN Payload(464, M(v)) ELSE Refused
  BY Writers DEF encode_calibration_peq_prepare_command
<1>5. ASSUME NEW p \in WirePayload(F)
      PROVE  DecodePayload(MessageType["CalibrationPeq"], p) =
                IF p.size = 464 /\ p.reservedZero /\ p.f \in Good THEN p.f ELSE Refused
  <2>1. p.f \in F
    BY Unpacked
  <2>2. decode_calibration_peq_prepare_command(p) =
           IF p.size = 464 /\ p.reservedZero /\ p.f \in Good THEN p.f ELSE Refused
    BY <2>1 DEF decode_calibration_peq_prepare_command
  <2> QED
    BY <2>2, CommandReaders
<1>6. \A f : ~EncoderRefused("CalibrationPeq", Payload(464, f))
  BY Written, Refusals
<1>7. \A c \in F : c.group \in TextField
  OBVIOUS
<1>8. ASSUME NEW v \in Ok PROVE M(v) \in Good
  <2>1. /\ M(v) \in F /\ M(v).group = Copied(v.group) /\ M(v).schema = v.schema /\ M(v).count = v.count
        /\ M(v).clear = v.clear /\ M(v).filters = v.filters
    BY <1>7, CopiedText
  <2>2. PeqValid(v) /\ GoodText(v.group) /\ v.group \in TextField
    BY <1>7
  <2> HIDE DEF M
  <2>3. PeqValid(M(v))
    BY <2>1, <2>2 DEF PeqValid
  <2> QED
    BY <2>1, <2>2, <2>3, GoodCopied
<1>9. \A v \in Good : v \in Ok /\ M(v) = v
  BY <1>7, PaddedCopied
<1>10. Good \subseteq F
  OBVIOUS
<1> HIDE DEF F, Ok, Good, M
<1>11. 464 \in Nat /\ 464 <= 4096 /\ \A f \in F : Payload(464, f) \in WirePayload(F)
  BY Packed
<1>12. CommandForm("CalibrationPeq", 464, F, Ok, Good, Refused)
  BY <1>1, <1>2, <1>3, <1>4, <1>5, <1>6, <1>8, <1>9, <1>10, <1>11 DEF CommandForm
<1> QED
  BY <1>12, CommandAgrees

-------------------------------------------------------------------------------
(* Decibels in fixed point, and the two volume notifications.                 *)

InRaw(raw) == raw \in Int /\ -144 * QuantaPerDb <= raw /\ raw <= 12 * QuantaPerDb

\* A quantised level is read back as the level it stands for.
LEMMA RawReadBack ==
  ASSUME NEW raw, InRaw(raw)
  PROVE  /\ q16_16_to_db(raw) = 2 * raw /\ db_to_q16_16(2 * raw) = raw
         /\ Finite(2 * raw) /\ Db(-144) <= 2 * raw /\ 2 * raw <= Db(12)
<1>1. QuantaPerDb \in Nat
  BY Sizes
<1>2. raw \in Int /\ -288 * QuantaPerDb <= 2 * raw /\ 2 * raw <= 24 * QuantaPerDb
  BY <1>1 DEF InRaw
<1>3. Db(-144) = -288 * QuantaPerDb /\ Db(12) = 24 * QuantaPerDb
  BY <1>1 DEF Db
<1>4. Finite(2 * raw)
  BY <1>1, <1>2, <1>3, DecibelAssumption DEF Finite, NaN
<1>5. Clamp(2 * raw, Db(-144), Db(12)) = 2 * raw
  BY <1>1, <1>2, <1>3 DEF Clamp
<1>6. Round(2 * raw) = raw
  BY <1>2 DEF Round
<1> QED
  BY <1>1, <1>2, <1>3, <1>4, <1>5, <1>6 DEF q16_16_to_db, db_to_q16_16

\* What a level is on the wire, and read back.
LEMMA DbWritten ==
  ASSUME NEW db \in Int
  PROVE  InRaw(db_to_q16_16(db)) /\ Quantised(db) = 2 * db_to_q16_16(db)
<1>1. QuantaPerDb \in Nat
  BY Sizes
<1>2. Db(-144) = -288 * QuantaPerDb /\ Db(12) = 24 * QuantaPerDb
  BY <1>1 DEF Db
<1>3. ASSUME NEW x \in Int, -288 * QuantaPerDb <= x, x <= 24 * QuantaPerDb
      PROVE  InRaw(Round(x))
  BY <1>1, <1>3 DEF Round, InRaw
<1>4. /\ Clamp(db, Db(-144), Db(12)) \in Int /\ -288 * QuantaPerDb <= Clamp(db, Db(-144), Db(12))
      /\ Clamp(db, Db(-144), Db(12)) <= 24 * QuantaPerDb
  BY <1>1, <1>2 DEF Clamp
<1>5. InRaw(-144 * QuantaPerDb)
  BY <1>1 DEF InRaw
<1>6. InRaw(db_to_q16_16(db))
  BY <1>3, <1>4, <1>5 DEF db_to_q16_16
<1> QED
  BY <1>6, RawReadBack DEF Quantised

\* Rounding keeps the order of levels within the range.
LEMMA RoundingIsMonotone ==
  ASSUME NEW a \in Int, NEW b \in Int, Db(-144) <= a, b <= Db(12), a <= b
  PROVE  db_to_q16_16(a) <= db_to_q16_16(b)
<1>1. QuantaPerDb \in Nat
  BY Sizes
<1>2. Db(-144) = -288 * QuantaPerDb /\ Db(12) = 24 * QuantaPerDb
  BY <1>1 DEF Db
<1>3. Finite(a) /\ Finite(b)
  BY <1>1, <1>2, DecibelAssumption DEF Finite, NaN
<1>4. Clamp(a, Db(-144), Db(12)) = a /\ Clamp(b, Db(-144), Db(12)) = b
  BY <1>1, <1>2 DEF Clamp
<1>5. Round(a) <= Round(b)
  BY DEF Round
<1> QED
  BY <1>3, <1>4, <1>5 DEF db_to_q16_16

\* A notification that is valid is written and read back rounded.
LEMMA VolumeWritten ==
  ASSUME NEW v \in VolumeValue, is_valid_volume_notification(v), NEW w, w = encode_volume_notification(v)
  PROVE  /\ w \in WirePayload(RawVolume) /\ w.size = 16 /\ w.reservedZero /\ w.f # ZeroVolume
         /\ decode_volume_notification(w) = [v EXCEPT !.db = Quantised(@)]
<1> DEFINE raw == db_to_q16_16(v.db)
           f == [raw |-> raw, mute |-> Flag(v.mute), generation |-> v.generation]
<1>1. v.db \in Int /\ v.mute \in BOOLEAN /\ v.generation \in Nat /\ v.generation # 0
  BY DEF VolumeValue, is_valid_volume_notification
<1>2. InRaw(raw) /\ raw \in Int
  BY <1>1, DbWritten DEF InRaw
<1>3. w = Payload(16, f)
  BY DEF encode_volume_notification
<1>4. Flag(v.mute) \in {0, 1} /\ (Flag(v.mute) # 0) = v.mute
  BY <1>1 DEF Flag
<1>5. f \in RawVolume /\ f # ZeroVolume
  <2> HIDE DEF raw
  <2> QED
    BY <1>1, <1>2, <1>4 DEF RawVolume, ZeroVolume
<1>6. w.size = 16 /\ w.reservedZero /\ w.f = f
  BY <1>3, Written
<1>7. w \in WirePayload(RawVolume)
  <2> HIDE DEF f
  <2> QED
    BY <1>3, <1>5, Packed
<1>8. q16_16_to_db(raw) = Quantised(v.db)
  BY Zenon DEF Quantised
<1>9. /\ f.raw = raw /\ f.mute = Flag(v.mute) /\ f.generation = v.generation
  OBVIOUS
<1> HIDE DEF f, raw
<1>10. raw \in -144 * QuantaPerDb..12 * QuantaPerDb
  BY <1>2, Sizes DEF InRaw
<1>11. decode_volume_notification(w) = [db |-> q16_16_to_db(w.f.raw), mute |-> w.f.mute # 0,
                                       generation |-> w.f.generation]
  BY <1>1, <1>4, <1>6, <1>9, <1>10 DEF decode_volume_notification
<1>12. decode_volume_notification(w) = [db |-> Quantised(v.db), mute |-> v.mute, generation |-> v.generation]
  BY <1>4, <1>6, <1>8, <1>9, <1>11
<1>13. [v EXCEPT !.db = Quantised(@)] = [db |-> Quantised(v.db), mute |-> v.mute, generation |-> v.generation]
  <2> DEFINE q == Quantised(v.db)
  <2>1. [v EXCEPT !.db = Quantised(@)] = [v EXCEPT !.db = q]
    BY Zenon
  <2> HIDE DEF q
  <2>2. [v EXCEPT !.db = q] = [db |-> q, mute |-> v.mute, generation |-> v.generation]
    BY DEF VolumeValue
  <2> QED
    BY <2>1, <2>2 DEF q
<1> QED
  BY <1>5, <1>6, <1>7, <1>12, <1>13

\* One that is not is written as zeros, which are refused.
LEMMA VolumeRefused ==
  /\ Payload(16, ZeroVolume) \in WirePayload(RawVolume)
  /\ Payload(16, ZeroVolume).f = ZeroVolume /\ Payload(16, ZeroVolume).size = 16
  /\ decode_volume_notification(Payload(16, ZeroVolume)) = Refused
  /\ \A v : ~is_valid_volume_notification(v) => encode_volume_notification(v) = Payload(16, ZeroVolume)
<1>1. ZeroVolume \in RawVolume /\ ZeroVolume.generation = 0
  BY DEF ZeroVolume, RawVolume
<1>2. Payload(16, ZeroVolume).f = ZeroVolume /\ Payload(16, ZeroVolume).size = 16
  BY Written
<1> QED
  BY <1>1, <1>2, Packed DEF decode_volume_notification, encode_volume_notification

\* A notification that is read is one the writer leaves alone.
LEMMA VolumeRead ==
  ASSUME NEW p \in WirePayload(RawVolume), decode_volume_notification(p) # Refused,
         NEW v, v = decode_volume_notification(p)
  PROVE  /\ v \in VolumeValue /\ is_valid_volume_notification(v)
         /\ encode_volume_notification(v) = p
<1>1. p = Payload(p.size, p.f) /\ p.f \in RawVolume /\ p.size = 16
  BY Unpacked DEF decode_volume_notification
<1>2. /\ p.f.mute \in {0, 1} /\ p.f.raw \in -144 * QuantaPerDb..12 * QuantaPerDb /\ p.f.generation # 0
      /\ v = [db |-> q16_16_to_db(p.f.raw), mute |-> p.f.mute # 0, generation |-> p.f.generation]
  BY DEF decode_volume_notification
<1>3. InRaw(p.f.raw) /\ p.f.raw \in Int /\ p.f.generation \in Nat
  BY <1>1, <1>2, Sizes DEF InRaw, RawVolume
<1>4. v = [db |-> 2 * p.f.raw, mute |-> p.f.mute # 0, generation |-> p.f.generation]
  BY <1>2, <1>3, RawReadBack
<1>5. v.db = 2 * p.f.raw /\ v.mute = (p.f.mute # 0) /\ v.generation = p.f.generation /\ v \in VolumeValue
  BY <1>3, <1>4 DEF VolumeValue
<1>6. is_valid_volume_notification(v)
  <2>1. Finite(v.db) /\ Db(-144) <= v.db /\ v.db <= Db(12) /\ v.db \in Int
    BY <1>3, <1>5, RawReadBack
  <2>2. Db(-144) \in Int /\ Db(12) \in Int
    BY Sizes DEF Db
  <2> QED
    BY <1>2, <1>5, <2>1, <2>2 DEF is_valid_volume_notification
<1>7. db_to_q16_16(v.db) = p.f.raw /\ Flag(v.mute) = p.f.mute
  BY <1>2, <1>3, <1>5, RawReadBack DEF Flag
<1>8. encode_volume_notification(v) = Payload(16, [raw |-> p.f.raw, mute |-> p.f.mute, generation |-> p.f.generation])
  BY <1>5, <1>6, <1>7 DEF encode_volume_notification
<1>9. [raw |-> p.f.raw, mute |-> p.f.mute, generation |-> p.f.generation] = p.f
  BY <1>1 DEF RawVolume
<1> QED
  BY <1>1, <1>5, <1>6, <1>8, <1>9

\* A volume notification is carried faithfully, and read stably.
LEMMA VolumeAgrees == Agree("Volume")
<1>1. /\ ValueType("Volume") = VolumeValue /\ WireType("Volume") = {p \in WirePayload(RawVolume) : p.size # 48}
      /\ "Volume" \in CommandKinds /\ "Volume" \notin LaxReaders
  BY ValueTypes, WireTypes DEF CommandKinds, LaxReaders
<1>2. \A v : v # Refused \/ v \notin VolumeValue
  BY DEF Refused, VolumeValue
<1>3. ASSUME NEW v \in VolumeValue PROVE Faithful("Volume", v)
  <2> DEFINE w == Encode("Volume", v)
  <2>1. w = encode_volume_notification(v)
    BY Writers
  <2>2. ~(16 > kIpcMaxPayloadBytes)
    BY SMT DEF kIpcMaxPayloadBytes
  <2>3. CASE is_valid_volume_notification(v)
    <3>1. /\ w \in WirePayload(RawVolume) /\ w.size = 16 /\ w.f # ZeroVolume
          /\ decode_volume_notification(w) = [v EXCEPT !.db = Quantised(@)]
      BY <2>1, <2>3, VolumeWritten, Zenon
    <3> HIDE DEF w
    <3>2. Decode("Volume", w) = decode_volume_notification(w)
      BY <1>1, <2>2, <3>1, CommandRead, CommandReaders
    <3>3. Meaning("Volume", v) = [v EXCEPT !.db = Quantised(@)]
      BY Meanings
    <3>4. [v EXCEPT !.db = Quantised(@)] # Refused
      BY DEF VolumeValue, Refused
    <3>5. ~EncoderRefused("Volume", w)
      BY <3>1, Refusals
    <3>6. w \in WireType("Volume")
      BY <1>1, <3>1
    <3> QED
      BY <3>1, <3>2, <3>3, <3>4, <3>5, <3>6, WrittenAndRead, ZenonT(40) DEF w
  <2>4. CASE ~is_valid_volume_notification(v)
    <3>1. w = Payload(16, ZeroVolume)
      BY <2>1, <2>4, VolumeRefused, Zenon
    <3>2. w \in WirePayload(RawVolume) /\ w.size = 16 /\ w.f = ZeroVolume /\ decode_volume_notification(w) = Refused
      BY <3>1, VolumeRefused, Zenon
    <3> HIDE DEF w
    <3>3. Decode("Volume", w) = Refused
      BY <1>1, <2>2, <3>2, CommandRead, CommandReaders
    <3>4. EncoderRefused("Volume", w)
      BY <3>2, Refusals
    <3>5. w \in WireType("Volume")
      BY <1>1, <3>2
    <3> QED
      BY <3>3, <3>4, <3>5, RefusedTwice, Zenon DEF w
  <2> QED
    BY <2>3, <2>4
<1>4. ASSUME NEW p \in WireType("Volume") PROVE Stable("Volume", p)
  <2> DEFINE r == Decode("Volume", p)
  <2>1. CASE r = Refused
    BY <2>1, NotRead
  <2>2. CASE r # Refused
    <3>1. p \in WirePayload(RawVolume) /\ p.size \in Nat /\ p.size # 48
      BY <1>1, Unpacked
    <3>2. r = IF p.size = 16 THEN decode_volume_notification(p) ELSE decode_grouped_volume_notification(p)
      BY <1>1, <2>2, <3>1, CommandRead, CommandReaders
    <3>3. r = decode_volume_notification(p)
      BY <2>2, <3>1, <3>2 DEF decode_grouped_volume_notification
    <3> HIDE DEF r
    <3>4. encode_volume_notification(r) = p
      BY <2>2, <3>1, <3>3, VolumeRead
    <3>5. Encode("Volume", r) = p
      BY <3>4, Writers
    <3> QED
      BY <1>1, <3>5, ReadAndWritten, Zenon DEF r
  <2> QED
    BY <2>1, <2>2
<1> QED
  BY <1>1, <1>3, <1>4 DEF Agree

\* A grouped volume notification is carried faithfully, and read stably.
LEMMA GroupedVolumeAgrees == Agree("GroupedVolume")
<1> DEFINE K == "GroupedVolume"
           V == [volume : VolumeValue, group : TextField]
           F == [volume : WirePayload(RawVolume), group : TextField]
<1>1. /\ ValueType(K) = V /\ WireType(K) = {p \in WirePayload(F) : p.size # 16 /\ p.reservedZero}
      /\ K \in CommandKinds /\ K \notin LaxReaders
  BY ValueTypes, WireTypes DEF CommandKinds, LaxReaders
<1>2. ASSUME NEW p \in WireType(K)
      PROVE  Decode(K, p) = IF p.size > kIpcMaxPayloadBytes THEN Refused ELSE decode_grouped_volume_notification(p)
  <2>1. p.size \in Nat /\ p.size # 16
    BY <1>1, Unpacked
  <2> QED
    BY <1>1, <2>1, CommandRead, CommandReaders
<1>3. ASSUME NEW g, NEW t
      PROVE  LET w == Payload(48, [volume |-> g, group |-> t])
             IN  /\ w.size = 48 /\ w.reservedZero /\ w.f.volume = g /\ w.f.group = t
                 /\ ~(w.size > kIpcMaxPayloadBytes)
                 /\ g \in WirePayload(RawVolume) /\ t \in TextField => w \in WireType(K)
                 /\ EncoderRefused(K, w) <=> g.f = ZeroVolume
  <2> DEFINE f == [volume |-> g, group |-> t]
             w == Payload(48, f)
  <2>1. f.volume = g /\ f.group = t
    OBVIOUS
  <2>2. g \in WirePayload(RawVolume) /\ t \in TextField => f \in F
    OBVIOUS
  <2> HIDE DEF f, F
  <2>3. w.size = 48 /\ w.reservedZero /\ w.f = f /\ ~(w.size > kIpcMaxPayloadBytes)
    BY Written
  <2>4. f \in F => w \in WirePayload(F)
    BY Packed
  <2>5. EncoderRefused(K, w) <=> g.f = ZeroVolume
    BY <2>1, <2>3, Refusals
  <2> HIDE DEF w
  <2>6. f \in F => w \in WireType(K)
    BY <1>1, <2>3, <2>4
  <2> QED
    BY <2>1, <2>2, <2>3, <2>5, <2>6 DEF w, f
<1>4. ASSUME NEW v \in V PROVE Faithful(K, v)
  <2> DEFINE w == Encode(K, v)
             ok == GoodText(v.group) /\ is_valid_volume_notification(v.volume)
             n == encode_volume_notification(v.volume)
             q == [v.volume EXCEPT !.db = Quantised(@)]
             c == Copied(v.group)
  <2>1. v.volume \in VolumeValue /\ v.group \in TextField
    OBVIOUS
  <2>2. w = Payload(48, IF ok THEN [volume |-> n, group |-> c]
                        ELSE [volume |-> Payload(16, ZeroVolume), group |-> NoText])
    BY Writers DEF encode_grouped_volume_notification
  <2>3. Meaning(K, v) = [volume |-> q, group |-> c]
    BY Meanings
  <2> HIDE DEF V
  <2>4. CASE ok
    <3>1. /\ n \in WirePayload(RawVolume) /\ n.f # ZeroVolume /\ decode_volume_notification(n) = q
      BY <2>1, <2>4, VolumeWritten, Zenon
    <3>2. c \in TextField /\ PaddedText(c)
      BY <2>1, <2>4, CopiedText, GoodCopied
    <3>3. q # Refused
      BY <2>1 DEF VolumeValue, Refused
    <3> HIDE DEF n, q, c
    <3>4. w = Payload(48, [volume |-> n, group |-> c])
      BY <2>2, <2>4
    <3> HIDE DEF w, K
    <3>5. /\ w.size = 48 /\ w.reservedZero /\ w.f.volume = n /\ w.f.group = c /\ w \in WireType(K)
          /\ ~(w.size > kIpcMaxPayloadBytes) /\ ~EncoderRefused(K, w)
      BY <1>3, <3>1, <3>2, <3>4
    <3>6. Decode(K, w) = [volume |-> q, group |-> c]
      BY <1>2, <3>1, <3>2, <3>3, <3>5 DEF decode_grouped_volume_notification
    <3>7. [volume |-> q, group |-> c] # Refused
      BY DEF Refused
    <3> QED
      BY <2>3, <3>5, <3>6, <3>7, WrittenAndRead DEF w
  <2>5. CASE ~ok
    <3> DEFINE z == Payload(16, ZeroVolume)
    <3>1. z \in WirePayload(RawVolume) /\ z.f = ZeroVolume /\ decode_volume_notification(z) = Refused
      BY VolumeRefused
    <3> HIDE DEF z
    <3>2. w = Payload(48, [volume |-> z, group |-> NoText])
      BY <2>2, <2>5 DEF z
    <3> HIDE DEF w, K
    <3>3. /\ w.f.volume = z /\ w \in WireType(K)
          /\ ~(w.size > kIpcMaxPayloadBytes) /\ EncoderRefused(K, w)
      BY <1>3, <3>1, <3>2, Empty
    <3>4. Decode(K, w) = Refused
      BY <1>2, <3>1, <3>3 DEF decode_grouped_volume_notification
    <3> QED
      BY <3>3, <3>4, RefusedTwice DEF w
  <2> QED
    BY <2>4, <2>5
<1>5. ASSUME NEW p \in WireType(K) PROVE Stable(K, p)
  <2> DEFINE r == Decode(K, p)
             u == decode_volume_notification(p.f.volume)
  <2>1. CASE r = Refused
    BY <2>1, NotRead
  <2>2. CASE r # Refused
    <3>1. p = Payload(p.size, p.f) /\ p.f \in F
      BY <1>1, Unpacked
    <3>2. /\ r = [volume |-> u, group |-> p.f.group] /\ p.size = 48 /\ u # Refused
          /\ PaddedText(p.f.group)
      BY <1>2, <2>2 DEF decode_grouped_volume_notification
    <3>3. p.f.volume \in WirePayload(RawVolume) /\ p.f.group \in TextField
          /\ p.f = [volume |-> p.f.volume, group |-> p.f.group]
      BY <3>1
    <3>4. is_valid_volume_notification(u) /\ encode_volume_notification(u) = p.f.volume
      BY <3>2, <3>3, VolumeRead, Zenon
    <3>5. GoodText(p.f.group) /\ Copied(p.f.group) = p.f.group
      BY <3>2, <3>3, PaddedCopied
    <3> HIDE DEF u, r
    <3>6. r.volume = u /\ r.group = p.f.group
      BY <3>2
    <3>7. encode_grouped_volume_notification(r) = Payload(48, [volume |-> p.f.volume, group |-> p.f.group])
      BY <3>4, <3>5, <3>6 DEF encode_grouped_volume_notification
    <3>8. Encode(K, r) = p
      BY <3>1, <3>2, <3>3, <3>7, Writers
    <3> QED
      BY <1>1, <3>8, ReadAndWritten DEF r
  <2> QED
    BY <2>1, <2>2
<1> QED
  BY <1>1, <1>4, <1>5 DEF Agree

-------------------------------------------------------------------------------
(* The packets of the driver, of the browser and of the worker.               *)

\* The parts of a packet of the driver.
LEMMA DriverUnpacked ==
  ASSUME NEW S, NEW p \in DriverPacket(S), p.abi
  PROVE  p = [size |-> p.size, declared |-> p.declared, abi |-> TRUE, f |-> p.f] /\ p.f \in S
BY DEF DriverPacket

\* The parts of a packet of the browser.
LEMMA TabUnpacked ==
  ASSUME NEW p \in TabPayload, p.magic, p.version = 1
  PROVE  p = [size |-> p.size, magic |-> TRUE, version |-> 1, f |-> p.f, samples |-> p.samples]
BY DEF TabPayload

\* Parts make a packet of the browser.
LEMMA TabPacked ==
  ASSUME NEW n \in Nat, NEW f \in TabFields, NEW s \in SampleRun
  PROVE  [size |-> n, magic |-> TRUE, version |-> 1, f |-> f, samples |-> s] \in TabPayload
BY DEF TabPayload

\* A control header of the driver is carried faithfully, and read stably.
LEMMA DriverHeaderAgrees == Agree("DriverHeader")
<1> DEFINE F == [type : Nat, request : Nat]
           Packet(f) == [size |-> 16, declared |-> 16, abi |-> TRUE, f |-> f]
<1>1. /\ ValueType("DriverHeader") = F /\ WireType("DriverHeader") = DriverPacket(F)
      /\ "DriverHeader" \notin LaxReaders
  BY ValueTypes, WireTypes DEF LaxReaders
<1>2. ASSUME NEW v \in F PROVE Faithful("DriverHeader", v)
  <2> DEFINE w == Encode("DriverHeader", v)
  <2>1. CASE ~(v.type \in 1..5 /\ v.request # 0)
    BY <2>1, Writers, NotWritten DEF control_header_encode
  <2>2. CASE v.type \in 1..5 /\ v.request # 0
    <3>1. w = Packet(v)
      BY <2>2, Writers DEF control_header_encode
    <3>2. w.f = v /\ w.size = 16 /\ w.declared = 16 /\ w.abi /\ w # Refused
      BY <3>1 DEF Refused
    <3>3. w \in WireType("DriverHeader")
      BY <1>1, <3>1 DEF DriverPacket
    <3>4. v # Refused
      BY DEF Refused
    <3> HIDE DEF w
    <3>5. Decode("DriverHeader", w) = v
      BY <2>2, <3>2, Readers DEF control_header_decode
    <3>6. ~EncoderRefused("DriverHeader", w) /\ Meaning("DriverHeader", v) = v
      BY <3>2, Refusals, Meanings
    <3> QED
      BY <3>3, <3>4, <3>5, <3>6, WrittenAndRead DEF w
  <2> QED
    BY <2>1, <2>2
<1>3. ASSUME NEW p \in WireType("DriverHeader") PROVE Stable("DriverHeader", p)
  <2> DEFINE r == Decode("DriverHeader", p)
  <2>1. CASE r = Refused
    BY <2>1, NotRead
  <2>2. CASE r # Refused
    <3>1. r = p.f /\ p.size = 16 /\ p.declared = 16 /\ p.abi /\ p.f.type \in 1..5 /\ p.f.request # 0
      BY <2>2, Readers DEF control_header_decode
    <3>2. p = Packet(p.f)
      BY <1>1, <3>1, DriverUnpacked
    <3> HIDE DEF r
    <3>3. Encode("DriverHeader", r) = Packet(p.f)
      <4>1. control_header_encode(p.f) = Packet(p.f)
        BY <3>1 DEF control_header_encode
      <4> HIDE DEF Packet
      <4> QED
        BY <3>1, <4>1, Writers
    <3> QED
      BY <1>1, <3>2, <3>3, ReadAndWritten DEF r
  <2> QED
    BY <2>1, <2>2
<1> QED
  BY <1>1, <1>2, <1>3 DEF Agree

\* An endpoint state of the driver is carried faithfully, and read stably.
LEMMA EndpointStateAgrees == Agree("EndpointState")
<1> DEFINE Packet(f) == [size |-> 136, declared |-> 136, abi |-> TRUE, f |-> f]
<1>1. /\ ValueType("EndpointState") = EndpointFields /\ WireType("EndpointState") = DriverPacket(EndpointFields)
      /\ "EndpointState" \notin LaxReaders
  BY ValueTypes, WireTypes DEF LaxReaders
<1>2. ASSUME NEW v \in EndpointFields PROVE Faithful("EndpointState", v)
  <2> DEFINE w == Encode("EndpointState", v)
  <2>1. CASE ~StateFieldsValid(v)
    BY <2>1, Writers, NotWritten DEF endpoint_state_encode
  <2>2. CASE StateFieldsValid(v)
    <3>1. w = Packet(v)
      BY <2>2, Writers DEF endpoint_state_encode
    <3>2. w.f = v /\ w.size = 136 /\ w.declared = 136 /\ w.abi /\ w # Refused
      BY <3>1 DEF Refused
    <3>3. w \in WireType("EndpointState")
      BY <1>1, <3>1, ZenonT(40) DEF DriverPacket
    <3>4. v # Refused
      BY DEF Refused, EndpointFields
    <3> HIDE DEF w
    <3>5. Decode("EndpointState", w) = v
      BY <2>2, <3>2, Readers DEF decode_driver_endpoint_state_packet
    <3>6. ~EncoderRefused("EndpointState", w) /\ Meaning("EndpointState", v) = v
      BY <3>2, Refusals, Meanings
    <3> QED
      BY <3>3, <3>4, <3>5, <3>6, WrittenAndRead DEF w
  <2> QED
    BY <2>1, <2>2
<1>3. ASSUME NEW p \in WireType("EndpointState") PROVE Stable("EndpointState", p)
  <2> DEFINE r == Decode("EndpointState", p)
  <2>1. CASE r = Refused
    BY <2>1, NotRead
  <2>2. CASE r # Refused
    <3>1. r = p.f /\ p.size = 136 /\ p.declared = 136 /\ p.abi /\ StateFieldsValid(p.f)
      BY <2>2, Readers DEF decode_driver_endpoint_state_packet
    <3>2. p = Packet(p.f)
      BY <1>1, <3>1, DriverUnpacked
    <3> HIDE DEF r
    <3>3. Encode("EndpointState", r) = Packet(p.f)
      <4>1. endpoint_state_encode(p.f) = Packet(p.f)
        BY <3>1 DEF endpoint_state_encode
      <4> HIDE DEF Packet
      <4> QED
        BY <3>1, <4>1, Writers
    <3> QED
      BY <1>1, <3>2, <3>3, ReadAndWritten DEF r
  <2> QED
    BY <2>1, <2>2
<1> QED
  BY <1>1, <1>2, <1>3 DEF Agree

\* The bytes of a packet's samples.
LEMMA SampleBytesNat ==
  ASSUME NEW f, f.channels \in Nat, f.frames \in Nat
  PROVE  SampleBytes(f) \in Nat /\ f.channels * f.frames \in Nat
<1>1. \A a, b \in Nat : a * b \in Nat /\ 4 * a \in Nat
  BY SMT
<1> QED
  BY <1>1 DEF SampleBytes

\* A tab packet: the writer writes every stream it captures.
LEMMA TabPacketAgrees == Agree("TabPacket")
<1> DEFINE V == [f : TabFields, samples : SampleRun]
           good(f) == f.channels \in {1, 2, 6, 8} /\ f.rate \in StreamRates /\ f.frames \in FrameCounts
<1>1. /\ ValueType("TabPacket") = V /\ WireType("TabPacket") = TabPayload
      /\ "TabPacket" \notin LaxReaders /\ "TabPacket" \in LaxWriters
  BY ValueTypes, WireTypes DEF LaxReaders, LaxWriters
<1>2. ASSUME NEW v \in V PROVE Faithful("TabPacket", v)
  <2> DEFINE w == Encode("TabPacket", v)
             n == 16 + SampleBytes(v.f)
  <2>1. v.f \in TabFields /\ v.samples \in SampleRun /\ v = [f |-> v.f, samples |-> v.samples]
    OBVIOUS
  <2>2. n \in Nat /\ n >= 16
    BY <2>1, SampleBytesNat DEF TabFields
  <2> HIDE DEF n, V
  <2>3. w = [size |-> n, magic |-> TRUE, version |-> 1, f |-> v.f, samples |-> v.samples]
    BY Writers DEF PacketizeTab, n
  <2>4. /\ w.size = n /\ w.magic = TRUE /\ w.version = 1 /\ w.f = v.f /\ w.samples = v.samples
        /\ w \in TabPayload /\ w # Refused
    <3>1. w.size = n /\ w.magic = TRUE /\ w.version = 1 /\ w.f = v.f /\ w.samples = v.samples
      BY <2>3
    <3>2. w \in TabPayload
      BY <2>1, <2>2, <2>3, TabPacked
    <3>3. [size |-> n, magic |-> TRUE, version |-> 1, f |-> v.f, samples |-> v.samples] # Refused
      BY DEF Refused
    <3> QED
      BY <2>3, <3>1, <3>2, <3>3, Zenon
  <2> HIDE DEF w
  <2>5. ~EncoderRefused("TabPacket", w) /\ Meaning("TabPacket", v) = v /\ v # Refused
    <3>1. [f |-> v.f, samples |-> v.samples] # Refused
      BY DEF Refused
    <3> QED
      BY <2>1, <2>4, <3>1, Refusals, Meanings
  <2>6. Decode("TabPacket", w) = IF good(v.f) /\ v.samples.finite THEN v ELSE Refused
    <3>1. decode_tab_capture_packet(w) =
             IF good(w.f) /\ w.samples.finite THEN [f |-> w.f, samples |-> w.samples] ELSE Refused
      <4>1. w.size >= 16 /\ w.magic /\ w.version = 1 /\ w.size = 16 + SampleBytes(w.f)
        BY <2>2, <2>4 DEF n
      <4> QED
        BY <4>1 DEF decode_tab_capture_packet
    <3> HIDE DEF good
    <3> QED
      BY <2>1, <2>4, <3>1, Readers
  <2> HIDE DEF V, good
  <2>7. CASE Decode("TabPacket", w) = v
    BY <1>1, <2>4, <2>5, <2>7, WrittenAndRead DEF w
  <2>8. CASE Decode("TabPacket", w) = Refused
    BY <1>1, <2>4, <2>5, <2>8, WrittenAndNotRead DEF w
  <2> QED
    BY <2>6, <2>7, <2>8
<1>3. ASSUME NEW p \in WireType("TabPacket") PROVE Stable("TabPacket", p)
  <2> DEFINE r == Decode("TabPacket", p)
  <2>1. CASE r = Refused
    BY <2>1, NotRead
  <2>2. CASE r # Refused
    <3>1. /\ r = [f |-> p.f, samples |-> p.samples] /\ p.magic /\ p.version = 1
          /\ p.size = 16 + SampleBytes(p.f)
      <4>1. r = decode_tab_capture_packet(p)
        BY Readers
      <4> HIDE DEF r
      <4> QED
        BY <2>2, <4>1 DEF decode_tab_capture_packet
    <3>2. p = [size |-> p.size, magic |-> TRUE, version |-> 1, f |-> p.f, samples |-> p.samples]
      BY <1>1, <3>1, TabUnpacked
    <3> HIDE DEF r
    <3>3. r.f = p.f /\ r.samples = p.samples
      BY <3>1
    <3>4. Encode("TabPacket", r) = [size |-> p.size, magic |-> TRUE, version |-> 1, f |-> p.f, samples |-> p.samples]
      <4>1. PacketizeTab(r) = [size |-> 16 + SampleBytes(p.f), magic |-> TRUE, version |-> 1,
                               f |-> p.f, samples |-> p.samples]
        BY <3>3, Zenon DEF PacketizeTab
      <4> QED
        BY <3>1, <4>1, Writers
    <3> QED
      BY <1>1, <3>2, <3>4, ReadAndWritten DEF r
  <2> QED
    BY <2>1, <2>2
<1> QED
  BY <1>1, <1>2, <1>3 DEF Agree

\* A NUL-terminated field: its length, and its copy with the rest cleared.
NulAt(body, n) == /\ n \in 0..TextCap /\ (n = TextCap \/ body[n + 1] = 0)
                  /\ \A i \in 1..n : body[i] # 0

\* A field ends at its first NUL, or is full.
LEMMA NulLengthIs ==
  ASSUME NEW body \in FieldBody
  PROVE  /\ NulAt(body, NulLength(body))
         /\ \A n : NulAt(body, n) => n = NulLength(body)
<1> DEFINE P(k) == k >= 1 /\ (k = TextCap + 1 \/ body[k] = 0)
           S == {k \in Nat : P(k)}
<1>1. \E n : NulAt(body, n)
  <2>1. TextCap + 1 \in S
    BY Sizes
  <2>2. PICK k \in S : \A j \in S : k <= j
    <3> HIDE DEF S
    <3>1. S \subseteq Nat
      BY DEF S
    <3> QED
      BY <2>1, <3>1, LeastNatural
  <2>3. k \in Nat /\ k >= 1 /\ k <= TextCap + 1 /\ (k = TextCap + 1 \/ body[k] = 0)
    BY <2>1, <2>2, Sizes
  <2>4. \A i \in 1..k - 1 : body[i] # 0
    <3> SUFFICES ASSUME NEW i \in 1..k - 1, body[i] = 0 PROVE FALSE
      OBVIOUS
    <3>1. i \in S /\ i < k
      BY <2>3
    <3> QED
      BY <2>2, <2>3, <3>1
  <2>5. NulAt(body, k - 1)
    BY <2>3, <2>4, Sizes DEF NulAt
  <2> QED
    BY <2>5
<1>2. ASSUME NEW n, NEW m, NulAt(body, n), NulAt(body, m) PROVE n = m
  <2>1. n \in Nat /\ m \in Nat /\ n <= TextCap /\ m <= TextCap
    BY <1>2, Sizes DEF NulAt
  <2>2. ~(n < m)
    <3> SUFFICES ASSUME n < m PROVE FALSE
      OBVIOUS
    <3>1. n + 1 \in 1..m /\ n # TextCap
      BY <2>1, Sizes
    <3> QED
      BY <1>2, <3>1 DEF NulAt
  <2>3. ~(m < n)
    <3> SUFFICES ASSUME m < n PROVE FALSE
      OBVIOUS
    <3>1. m + 1 \in 1..n /\ m # TextCap
      BY <2>1, Sizes
    <3> QED
      BY <1>2, <3>1 DEF NulAt
  <2> QED
    BY <2>1, <2>2, <2>3
<1>3. NulLength(body) = CHOOSE n : NulAt(body, n)
  BY DEF NulLength, NulAt
<1>4. NulAt(body, NulLength(body))
  BY <1>1, <1>3, Zenon
<1> QED
  BY <1>2, <1>4

\* Cutting a field at its NUL keeps its length, and cutting it again changes
\* nothing.
LEMMA UpToNulIs ==
  ASSUME NEW body \in FieldBody
  PROVE  /\ UpToNul(body) \in FieldBody /\ NulLength(UpToNul(body)) = NulLength(body)
         /\ UpToNul(UpToNul(body)) = UpToNul(body)
         /\ NulLength(body) \in 0..TextCap
         /\ \A i \in 1..TextCap : UpToNul(body)[i] = IF i <= NulLength(body) THEN body[i] ELSE 0
<1> DEFINE n == NulLength(body)
           u == UpToNul(body)
<1>1. NulAt(body, n) /\ n \in 0..TextCap
  BY NulLengthIs DEF NulAt
<1>2. \A i \in 1..TextCap : body[i] \in Byte
  BY DEF FieldBody
<1>3. u = [k \in 1..TextCap |-> IF k <= n THEN body[k] ELSE 0]
  BY Zenon DEF UpToNul
<1>4. 0 \in Byte
  BY SMT DEF Byte
<1> HIDE DEF n, u
<1>5. u \in FieldBody /\ \A i \in 1..TextCap : u[i] = IF i <= n THEN body[i] ELSE 0
  BY <1>2, <1>3, <1>4 DEF FieldBody
<1>6. NulAt(u, n)
  BY <1>1, <1>5, Sizes DEF NulAt
<1>7. NulLength(u) = n
  BY <1>5, <1>6, NulLengthIs, Zenon
<1>8. UpToNul(u) = u
  <2>1. UpToNul(u) = [k \in 1..TextCap |-> IF k <= n THEN u[k] ELSE 0]
    BY <1>7, Zenon DEF UpToNul
  <2>2. \A k \in 1..TextCap : (IF k <= n THEN u[k] ELSE 0) = IF k <= n THEN body[k] ELSE 0
    BY <1>5
  <2> QED
    BY <2>1, <2>2, <1>3, Zenon
<1> QED
  BY <1>1, <1>5, <1>7, <1>8, Zenon DEF n, u

\* The parts of a packet of a stream.
LEMMA StreamPacked ==
  /\ \A n \in Nat, f \in StreamHeader, s \in SampleRun :
        [size |-> n, declared |-> n, abi |-> TRUE, f |-> f, samples |-> s] \in StreamPacket
  /\ \A p \in StreamPacket : p.f \in StreamHeader /\ p.samples \in SampleRun
BY DEF StreamPacket

\* A packet of a driver stream is carried faithfully, and read stably.
LEMMA DriverStreamAgrees == Agree("DriverStream")
<1> DEFINE K == "DriverStream"
           V == [f : StreamHeader, samples : SampleRun]
           M(v) == [v EXCEPT !.f.guid = UpToNul(@)]
           ok(v) == StreamHeaderValid(v.f) /\ v.samples.finite
<1>1. /\ ValueType(K) = V /\ WireType(K) = StreamPacket /\ K \in LaxReaders
      /\ K # "SceneCatalog" /\ K \notin {"WorkerFrame", "WorkerAudio"}
  BY ValueTypes, WireTypes DEF LaxReaders
<1>2. \A v : Meaning(K, v) = M(v)
  BY Meanings
<1>3. ASSUME NEW v \in V, ok(v)
      PROVE  LET w == Encode(K, v)
             IN  w \in StreamPacket /\ w # Refused /\ Decode(K, w) = M(v) /\ M(v) # Refused /\ ~EncoderRefused(K, w)
  <2> DEFINE w == Encode(K, v)
             g == [v.f EXCEPT !.guid = UpToNul(@)]
             n == 80 + SampleBytes(v.f)
  <2>1. v.f \in StreamHeader /\ v.samples \in SampleRun /\ v = [f |-> v.f, samples |-> v.samples]
        /\ v.f.guid \in FieldBody
    BY DEF StreamHeader
  <2>2. M(v) = [f |-> g, samples |-> v.samples]
    <3>1. M(v) = [v EXCEPT !.f = g]
      BY <2>1
    <3> HIDE DEF g
    <3> QED
      BY <2>1, <3>1
  <2>3. UpToNul(v.f.guid) \in FieldBody /\ NulLength(UpToNul(v.f.guid)) = NulLength(v.f.guid)
    BY <2>1, UpToNulIs
  <2>4. /\ g \in StreamHeader /\ g.guid = UpToNul(v.f.guid) /\ g.type = v.f.type /\ g.sequence = v.f.sequence
        /\ g.channels = v.f.channels /\ g.rate = v.f.rate /\ g.frames = v.f.frames /\ g.flags = v.f.flags
        /\ g.generation = v.f.generation
    BY <2>1, <2>3 DEF StreamHeader
  <2>5. n \in Nat /\ n >= 80
    BY <2>1, SampleBytesNat DEF StreamHeader
  <2>6. w = [size |-> n, declared |-> n, abi |-> TRUE, f |-> g, samples |-> v.samples]
    BY <1>3, Writers DEF stream_packet_encode
  <2>7. SampleBytes(g) = SampleBytes(v.f)
    BY <2>4 DEF SampleBytes
  <2>8. StreamHeaderValid(g)
    <3> HIDE DEF g, w
    <3> QED
      BY <1>3, <2>3, <2>4 DEF StreamHeaderValid, valid_guid
  <2>9. n = 80 + SampleBytes(g)
    BY <2>7
  <2> HIDE DEF g, n, M
  <2>10. w.size = n /\ w.declared = n /\ w.abi = TRUE /\ w.f = g /\ w.samples = v.samples
    BY <2>6
  <2>11. w \in StreamPacket
    BY <2>1, <2>4, <2>5, <2>6, StreamPacked
  <2>12. [size |-> n, declared |-> n, abi |-> TRUE, f |-> g, samples |-> v.samples] # Refused
         /\ [f |-> g, samples |-> v.samples] # Refused
    BY DEF Refused
  <2>13. w # Refused
    BY <2>6, <2>12, Zenon
  <2> HIDE DEF w
  <2>14. stream_packet_validate(w)
    BY <2>5, <2>8, <2>9, <2>10 DEF stream_packet_validate
  <2>15. Decode(K, w) = M(v)
    BY <1>3, <2>2, <2>10, <2>14, Readers DEF decode_driver_stream_packet
  <2>16. ~EncoderRefused(K, w)
    BY <2>13, Refusals
  <2> QED
    BY <2>2, <2>11, <2>12, <2>13, <2>15, <2>16, Zenon DEF w
<1>4. ASSUME NEW v \in V PROVE Faithful(K, v)
  <2>1. CASE ok(v)
    BY <1>1, <1>2, <1>3, <2>1, WrittenAndRead
  <2>2. CASE ~ok(v)
    BY <2>2, Writers, NotWritten DEF stream_packet_encode
  <2> QED
    BY <2>1, <2>2
<1>5. ASSUME NEW p \in WireType(K) PROVE Stable(K, p)
  <2> DEFINE r == Decode(K, p)
  <2>1. CASE r = Refused
    BY <2>1, NotRead
  <2>2. CASE r # Refused
    <3>1. /\ r = [f |-> p.f, samples |-> p.samples] /\ StreamHeaderValid(p.f) /\ p.samples.finite
      BY <2>2, Readers DEF decode_driver_stream_packet, stream_packet_validate
    <3>2. p.f \in StreamHeader /\ p.samples \in SampleRun
      BY <1>1, StreamPacked
    <3>3. r \in V /\ ok(r)
      BY <3>1, <3>2
    <3> HIDE DEF r, V, M, ok, K
    <3>4. Encode(K, r) # Refused /\ Decode(K, Encode(K, r)) = M(r)
      BY <1>3, <3>3
    <3> QED
      BY <1>1, <1>2, <3>4, ReadAndUnderstood DEF r
  <2> QED
    BY <2>1, <2>2
<1> QED
  BY <1>1, <1>4, <1>5 DEF Agree

\* A frame of the browser: the length of a frame it writes has the shortest form.
LEMMA ClientFrames ==
  /\ \A f \in BrowserFields : BrowserFrame(f) \in ClientFrame /\ BrowserFrame(f).f = f /\ BrowserFrame(f) # Refused
  /\ \A w \in ClientFrame : read_ws_client_frame(w) # Refused =>
        read_ws_client_frame(w) = w.f /\ BrowserFrame(w.f) = w /\ w.f \in BrowserFields
<1>1. ASSUME NEW f \in BrowserFields
      PROVE  BrowserFrame(f) \in ClientFrame /\ BrowserFrame(f).f = f /\ BrowserFrame(f) # Refused
  <2> DEFINE c == CanonicalForm(f.length)
  <2>1. f.length \in Nat
    BY DEF BrowserFields
  <2>2. c \in {7, 16, 64} /\ (c = 7 => f.length < 126) /\ (c = 16 => f.length < 65536)
    BY <2>1, SMT DEF CanonicalForm
  <2> HIDE DEF c
  <2>3. BrowserFrame(f) = [fin |-> TRUE, rsv |-> 0, masked |-> TRUE, form |-> c, f |-> f]
    BY Zenon DEF BrowserFrame, c
  <2>4. [fin |-> TRUE, rsv |-> 0, masked |-> TRUE, form |-> c, f |-> f] \in ClientFrame
    BY <2>2, SMT DEF ClientFrame
  <2>5. [fin |-> TRUE, rsv |-> 0, masked |-> TRUE, form |-> c, f |-> f] # Refused
    BY DEF Refused
  <2> QED
    BY <2>3, <2>4, <2>5
<1>2. ASSUME NEW w \in ClientFrame, read_ws_client_frame(w) # Refused
      PROVE  read_ws_client_frame(w) = w.f /\ BrowserFrame(w.f) = w /\ w.f \in BrowserFields
  <2>1. /\ w.fin \in BOOLEAN /\ w.masked \in BOOLEAN /\ w.form \in {7, 16, 64} /\ w.f \in BrowserFields
        /\ w = [fin |-> w.fin, rsv |-> w.rsv, masked |-> w.masked, form |-> w.form, f |-> w.f]
        /\ (w.form = 7 => w.f.length < 126) /\ (w.form = 16 => w.f.length < 65536)
    BY SMT DEF ClientFrame
  <2>2. /\ read_ws_client_frame(w) = w.f /\ w.rsv = 0 /\ w.fin /\ w.masked
        /\ (w.form = 16 => w.f.length >= 126) /\ (w.form = 64 => w.f.length > 65535)
    BY <1>2, SMT DEF read_ws_client_frame
  <2>3. w.f.length \in Nat
    BY <2>1 DEF BrowserFields
  <2>4. CanonicalForm(w.f.length) = w.form
    BY <2>1, <2>2, <2>3, SMT DEF CanonicalForm
  <2>5. w.fin = TRUE /\ w.masked = TRUE
    BY <2>1, <2>2
  <2>6. BrowserFrame(w.f) = [fin |-> TRUE, rsv |-> 0, masked |-> TRUE, form |-> w.form, f |-> w.f]
    BY <2>4, Zenon DEF BrowserFrame
  <2>7. w.rsv = 0
    BY <2>2
  <2>8. [fin |-> TRUE, rsv |-> 0, masked |-> TRUE, form |-> w.form, f |-> w.f]
          = [fin |-> w.fin, rsv |-> w.rsv, masked |-> w.masked, form |-> w.form, f |-> w.f]
    BY <2>5, <2>7, Zenon
  <2>9. w = [fin |-> w.fin, rsv |-> w.rsv, masked |-> w.masked, form |-> w.form, f |-> w.f]
    BY <2>1
  <2>10. BrowserFrame(w.f) = w
    BY <2>6, <2>8, <2>9
  <2> QED
    BY <2>1, <2>2, <2>10
<1> QED
  BY <1>1, <1>2

\* A frame of the browser's WebSocket is carried faithfully, and read
\* stably.
LEMMA WebSocketAgrees == Agree("WebSocket")
<1> DEFINE K == "WebSocket"
           V == [f : BrowserFields]
<1>1. ValueType(K) = V /\ WireType(K) = ClientFrame /\ K \notin LaxReaders /\ K \in LaxWriters
  BY ValueTypes, WireTypes DEF LaxReaders, LaxWriters
<1>2. ASSUME NEW w, next_ws_binary_message(w) # Refused
      PROVE  LET f == read_ws_client_frame(w)
                 r == next_ws_binary_message(w)
             IN  /\ f # Refused /\ r.f = f
                 /\ r = [f |-> f, answer |-> CASE f.opcode = Opcodes.Ping -> [opcode |-> Opcodes.Pong, length |-> f.length]
                                               [] f.opcode = Opcodes.Close -> [opcode |-> Opcodes.Close, length |-> 0]
                                               [] OTHER -> Refused]
  <2> DEFINE f == read_ws_client_frame(w)
  <2>1. f # Refused
    BY <1>2 DEF next_ws_binary_message
  <2>2. /\ Opcodes.Close = 8 /\ Opcodes.Ping = 9 /\ Opcodes.Pong = 10 /\ Opcodes.Binary = 2
    BY DEF Opcodes
  <2> HIDE DEF f
  <2>3. next_ws_binary_message(w) =
          CASE f.opcode = Opcodes.Close ->
                    IF has_valid_ws_close_payload(f)
                    THEN [f |-> f, answer |-> [opcode |-> Opcodes.Close, length |-> 0]]
                    ELSE Refused
               [] f.opcode = Opcodes.Ping ->
                    [f |-> f, answer |-> [opcode |-> Opcodes.Pong, length |-> f.length]]
               [] f.opcode \in {Opcodes.Pong, Opcodes.Binary} -> [f |-> f, answer |-> Refused]
               [] OTHER -> Refused
    BY <2>1 DEF next_ws_binary_message, f
  <2>4. CASE f.opcode = Opcodes.Close
    <3>1. f.opcode # Opcodes.Ping /\ f.opcode \notin {Opcodes.Pong, Opcodes.Binary}
      BY <2>2, <2>4
    <3> QED
      BY <1>2, <2>1, <2>3, <2>4, <3>1 DEF f
  <2>5. CASE f.opcode = Opcodes.Ping
    <3>1. f.opcode # Opcodes.Close /\ f.opcode \notin {Opcodes.Pong, Opcodes.Binary}
      BY <2>2, <2>5
    <3> QED
      BY <1>2, <2>1, <2>3, <2>5, <3>1 DEF f
  <2>6. CASE f.opcode # Opcodes.Close /\ f.opcode # Opcodes.Ping
    BY <1>2, <2>1, <2>3, <2>6 DEF f
  <2> QED
    BY <2>4, <2>5, <2>6
<1>3. ASSUME NEW v \in V PROVE Faithful(K, v)
  <2> DEFINE w == Encode(K, v)
             r == next_ws_binary_message(w)
  <2>1. w \in ClientFrame /\ w.f = v.f /\ w # Refused
    BY Writers, ClientFrames, ZenonT(40)
  <2>2. Decode(K, w) = r
    BY Readers
  <2>3. ~EncoderRefused(K, w)
    BY <2>1, Refusals
  <2>4. CASE r = Refused
    BY <1>1, <2>1, <2>2, <2>3, <2>4, WrittenAndNotRead
  <2>5. CASE r # Refused
    <3> HIDE DEF w
    <3>1. read_ws_client_frame(w) # Refused
      BY <1>2, <2>5, Zenon
    <3>2. read_ws_client_frame(w) = v.f
      BY <2>1, <3>1, ClientFrames, Zenon
    <3>3. r = [f |-> v.f, answer |-> CASE v.f.opcode = Opcodes.Ping -> [opcode |-> Opcodes.Pong, length |-> v.f.length]
                                               [] v.f.opcode = Opcodes.Close -> [opcode |-> Opcodes.Close, length |-> 0]
                                               [] OTHER -> Refused]
      BY <1>2, <2>5, <3>2, Zenon
    <3>4. Meaning(K, v) = r
      BY <3>3, Zenon DEF Meaning, Scanned
    <3> QED
      BY <1>1, <2>1, <2>2, <2>3, <2>5, <3>4, WrittenAndRead, Zenon DEF w
  <2> QED
    BY <2>4, <2>5
<1>4. ASSUME NEW p \in WireType(K) PROVE Stable(K, p)
  <2> DEFINE r == Decode(K, p)
  <2>1. CASE r = Refused
    BY <2>1, NotRead
  <2>2. CASE r # Refused
    <3>1. r = next_ws_binary_message(p)
      BY Readers
    <3>2. read_ws_client_frame(p) # Refused /\ r.f = read_ws_client_frame(p)
      BY <1>2, <2>2, <3>1, Zenon
    <3>3. BrowserFrame(r.f) = p
      BY <1>1, <3>2, ClientFrames, Zenon
    <3> HIDE DEF r
    <3>4. Encode(K, r) = p
      BY <3>3, Writers
    <3> QED
      BY <1>1, <3>4, ReadAndWritten DEF r
  <2> QED
    BY <2>1, <2>2
<1> QED
  BY <1>1, <1>3, <1>4 DEF Agree

\* The frames of the worker's pipe: what its writer writes, and what it does not.
Encodable(f) ==
    /\ f.type \in WorkerTypes /\ f.payload <= MaxPayloadBytes
    /\ f.type = "ProcessBlock" => valid_audio_format(f)
    /\ f.type = "ProcessBlockWithParameters" => valid_audio_shape(f) /\ f.payload >= 8

\* What a frame the worker writes consists of.
LEMMA PipeFrames ==
  ASSUME NEW B
  PROVE  /\ \A f \in WorkerHeader, b \in B : WorkerFrame(f, b) \in PipeFrame(B)
         /\ \A p \in PipeFrame(B) : p.f \in WorkerHeader /\ p.body \in B
         /\ \A f, b : WorkerFrame(f, b).f = f /\ WorkerFrame(f, b).body = b /\ WorkerFrame(f, b) # Refused
<1>1. ASSUME NEW f \in WorkerHeader, NEW b \in B PROVE WorkerFrame(f, b) \in PipeFrame(B)
  <2> DEFINE n == 36 + f.payload
  <2>1. n \in Nat
    BY DEF WorkerHeader
  <2> HIDE DEF n
  <2>2. WorkerFrame(f, b) = [size |-> n, magic |-> TRUE, version |-> 1, reserved |-> 0, f |-> f, body |-> b]
    BY Zenon DEF WorkerFrame, n
  <2> QED
    BY <2>1, <2>2 DEF PipeFrame
<1>2. \A p \in PipeFrame(B) : p.f \in WorkerHeader /\ p.body \in B
  BY DEF PipeFrame
<1>3. \A f, b : WorkerFrame(f, b).f = f /\ WorkerFrame(f, b).body = b /\ WorkerFrame(f, b) # Refused
  BY DEF WorkerFrame, Refused
<1> QED
  BY <1>1, <1>2, <1>3

\* The worker writes a frame exactly when its header is encodable, and its
\* own reader accepts that frame.
LEMMA WorkerWrites ==
  ASSUME NEW c, c.f \in WorkerHeader
  PROVE  /\ encode_vst3_worker_frame(c) = IF Encodable(c.f) THEN WorkerFrame(c.f, c.body) ELSE Refused
         /\ Encodable(c.f) => worker_frame_accepted(WorkerFrame(c.f, c.body))
         /\ BeyondWriter(c.f) => ~Encodable(c.f)
<1>1. encode_vst3_worker_frame(c) = IF Encodable(c.f) THEN WorkerFrame(c.f, c.body) ELSE Refused
  BY DEF encode_vst3_worker_frame, Encodable
<1>2. ASSUME Encodable(c.f) PROVE worker_frame_accepted(WorkerFrame(c.f, c.body))
  <2> DEFINE w == WorkerFrame(c.f, c.body)
  <2>1. w.f = c.f /\ w.size = 36 + c.f.payload /\ w.magic /\ w.version = 1
    BY DEF WorkerFrame
  <2>2. c.f.payload \in Nat
    BY DEF WorkerHeader
  <2> HIDE DEF w
  <2>3. worker_frame_accepted(w)
    BY <1>2, <2>1, <2>2 DEF worker_frame_accepted, Encodable
  <2> QED
    BY <2>3 DEF w
<1>3. BeyondWriter(c.f) => ~Encodable(c.f)
  <2>1. c.f.payload \in Nat /\ MaxPayloadBytes \in Nat
    BY SMT DEF WorkerHeader, MaxPayloadBytes
  <2> QED
    BY <2>1 DEF BeyondWriter, Encodable
<1> QED
  BY <1>1, <1>2, <1>3

\* A frame its reader accepts can be written, unless it is beyond the
\* writer.
LEMMA WorkerReads ==
  ASSUME NEW B, NEW p \in PipeFrame(B), worker_frame_accepted(p), ~BeyondWriter(p.f)
  PROVE  Encodable(p.f)
<1>1. p.f.payload \in Nat /\ MaxPayloadBytes \in Nat
  BY PipeFrames, SMT DEF WorkerHeader, MaxPayloadBytes
<1> QED
  BY <1>1 DEF worker_frame_accepted, BeyondWriter, Encodable

\* A frame that is read and not rewritten is one BeyondWriter names.
LEMMA ReadBeyondWriter ==
  ASSUME NEW k \in {"WorkerFrame", "WorkerAudio"}, NEW p, BeyondWriter(Decode(k, p).f),
         Encode(k, Decode(k, p)) = Refused
  PROVE  Stable(k, p)
<1>1. k \in LaxReaders /\ k # "SceneCatalog"
  BY DEF LaxReaders
<1>2. \A r, again : BeyondWriter(r.f) /\ again = Refused => CanonicalFor(k, p, r, again)
  BY <1>1 DEF CanonicalFor
<1> QED
  BY <1>2, Zenon DEF Stable

\* A frame of the worker without body is carried faithfully, and read
\* stably.
LEMMA WorkerFrameAgrees == Agree("WorkerFrame")
<1> DEFINE K == "WorkerFrame"
           V == [f : WorkerHeader, body : SampleRun]
<1>1. ValueType(K) = V /\ WireType(K) = PipeFrame(SampleRun) /\ K \in LaxReaders /\ K # "SceneCatalog"
  BY ValueTypes, WireTypes DEF LaxReaders
<1>2. \A v : Meaning(K, v) = v
  BY Meanings
<1>3. \A v \in V : v # Refused /\ v.f \in WorkerHeader /\ v.body \in SampleRun /\ v = [f |-> v.f, body |-> v.body]
  BY DEF Refused
<1>4. ASSUME NEW v \in V, Encodable(v.f)
      PROVE  /\ Encode(K, v) \in WireType(K) /\ Encode(K, v) # Refused /\ ~EncoderRefused(K, Encode(K, v))
             /\ Decode(K, Encode(K, v)) = v
  <2> DEFINE w == Encode(K, v)
  <2>1. w = WorkerFrame(v.f, v.body) /\ worker_frame_accepted(WorkerFrame(v.f, v.body))
    BY <1>3, <1>4, WorkerWrites, Writers
  <2>2. w \in PipeFrame(SampleRun) /\ w.f = v.f /\ w.body = v.body /\ w # Refused
    <3>1. /\ WorkerFrame(v.f, v.body) \in PipeFrame(SampleRun) /\ WorkerFrame(v.f, v.body).f = v.f
          /\ WorkerFrame(v.f, v.body).body = v.body /\ WorkerFrame(v.f, v.body) # Refused
      <4> HIDE DEF V
      <4> QED
        BY <1>3, PipeFrames
    <3> QED
      BY <2>1, <3>1, Zenon
  <2>3. worker_frame_accepted(w)
    BY <2>1, Zenon
  <2> HIDE DEF w, V
  <2>4. Decode(K, w) = v
    BY <1>3, <2>2, <2>3, Readers DEF decode_vst3_worker_frame
  <2>5. ~EncoderRefused(K, w)
    BY <2>2, Refusals
  <2> QED
    BY <1>1, <2>2, <2>4, <2>5, Zenon DEF w
<1>5. ASSUME NEW v \in V, ~Encodable(v.f) PROVE Encode(K, v) = Refused
  BY <1>3, <1>5, WorkerWrites, Writers
<1>6. ASSUME NEW v \in V PROVE Faithful(K, v)
  <2> HIDE DEF V, K
  <2> QED
    BY <1>2, <1>3, <1>4, <1>5, WrittenAndRead, NotWritten, Zenon
<1>7. ASSUME NEW p \in WireType(K) PROVE Stable(K, p)
  <2> DEFINE r == Decode(K, p)
  <2>1. CASE r = Refused
    BY <2>1, NotRead
  <2>2. CASE r # Refused
    <3>1. r = [f |-> p.f, body |-> p.body] /\ worker_frame_accepted(p)
      BY <2>2, Readers DEF decode_vst3_worker_frame
    <3>2. p.f \in WorkerHeader /\ p.body \in SampleRun /\ p \in PipeFrame(SampleRun)
      BY <1>1, PipeFrames
    <3>3. r \in V /\ r.f = p.f
      BY <3>1, <3>2
    <3>4. CASE BeyondWriter(p.f)
      <4>1. Encode(K, r) = Refused
        BY <1>5, <3>3, <3>4, <3>2, WorkerWrites
      <4> QED
        BY <3>3, <3>4, <4>1, ReadBeyondWriter
    <3>5. CASE ~BeyondWriter(p.f)
      <4>1. Encodable(p.f)
        BY <3>1, <3>2, <3>5, WorkerReads
      <4> HIDE DEF r, V, K
      <4>2. Encode(K, r) # Refused /\ Decode(K, Encode(K, r)) = r
        BY <1>4, <3>3, <4>1
      <4> QED
        BY <1>1, <1>2, <3>3, <3>5, <4>2, ReadAndUnderstood DEF r
    <3> QED
      BY <3>4, <3>5
  <2> QED
    BY <2>1, <2>2
<1> QED
  BY <1>1, <1>6, <1>7 DEF Agree

\* An audio block of the worker is carried faithfully, and read stably.
LEMMA WorkerAudioAgrees == Agree("WorkerAudio")
<1> DEFINE K == "WorkerAudio"
           V == {c \in [f : WorkerHeader, body : SampleRun] : c.body.n = c.f.channels * c.f.frames}
           ok(v) == v.f.type \in AudioTypes /\ v.body.finite
<1>1. /\ ValueType(K) = V /\ WireType(K) = PipeFrame(SampleRun) /\ K \in LaxReaders /\ K # "SceneCatalog"
      /\ K \in LaxWriters
  BY ValueTypes, WireTypes DEF LaxReaders, LaxWriters
<1>2. \A v : Meaning(K, v) = v
  BY Meanings
<1>3. ASSUME NEW v \in V
      PROVE  /\ v # Refused /\ v.f \in WorkerHeader /\ v.body \in SampleRun /\ v = [f |-> v.f, body |-> v.body]
             /\ v.body = [v.body EXCEPT !.n = v.f.channels * v.f.frames]
  <2>1. v \in [f : WorkerHeader, body : SampleRun] /\ v.body.n = v.f.channels * v.f.frames
    OBVIOUS
  <2>2. v # Refused /\ v.f \in WorkerHeader /\ v.body \in SampleRun /\ v = [f |-> v.f, body |-> v.body]
    BY <2>1 DEF Refused
  <2>3. [v.body EXCEPT !.n = v.body.n] = v.body
    BY <2>2 DEF SampleRun
  <2> QED
    BY <2>1, <2>2, <2>3
<1>4. ASSUME NEW v \in V, Encodable(v.f)
      PROVE  /\ Encode(K, v) \in WireType(K) /\ Encode(K, v) # Refused /\ ~EncoderRefused(K, Encode(K, v))
             /\ Decode(K, Encode(K, v)) = IF ok(v) THEN v ELSE Refused
  <2> DEFINE w == Encode(K, v)
  <2>1. w = WorkerFrame(v.f, v.body) /\ worker_frame_accepted(WorkerFrame(v.f, v.body))
    BY <1>3, <1>4, WorkerWrites, Writers
  <2>2. w \in PipeFrame(SampleRun) /\ w.f = v.f /\ w.body = v.body /\ w # Refused
    <3>1. /\ WorkerFrame(v.f, v.body) \in PipeFrame(SampleRun) /\ WorkerFrame(v.f, v.body).f = v.f
          /\ WorkerFrame(v.f, v.body).body = v.body /\ WorkerFrame(v.f, v.body) # Refused
      <4> HIDE DEF V
      <4> QED
        BY <1>3, PipeFrames, ZenonT(40)
    <3> QED
      BY <2>1, <3>1, Zenon
  <2>3. worker_frame_accepted(w)
    BY <2>1, Zenon
  <2> HIDE DEF w, V
  <2>4. Decode(K, w) = IF v.f.type \in AudioTypes /\ v.body.finite
                       THEN [f |-> v.f, body |-> [v.body EXCEPT !.n = v.f.channels * v.f.frames]] ELSE Refused
    BY <2>2, <2>3, Readers DEF validate_vst3_worker_audio_frame
  <2>5. [f |-> v.f, body |-> [v.body EXCEPT !.n = v.f.channels * v.f.frames]] = v
    BY <1>3, Zenon
  <2>6. ~EncoderRefused(K, w)
    BY <2>2, Refusals
  <2>7. Decode(K, w) = IF ok(v) THEN v ELSE Refused
    BY <2>4, <2>5, Zenon
  <2> HIDE DEF ok
  <2> QED
    BY <1>1, <2>2, <2>6, <2>7, Zenon DEF w
<1>5. ASSUME NEW v \in V, ~Encodable(v.f) PROVE Encode(K, v) = Refused
  BY <1>3, <1>5, WorkerWrites, Writers
<1>6. ASSUME NEW v \in V PROVE Faithful(K, v)
  <2> HIDE DEF V, ok
  <2>1. CASE ~Encodable(v.f)
    BY <1>5, <2>1, NotWritten
  <2>2. CASE Encodable(v.f) /\ ok(v)
    BY <1>2, <1>3, <1>4, <2>2, WrittenAndRead
  <2>3. CASE Encodable(v.f) /\ ~ok(v)
    BY <1>1, <1>3, <1>4, <2>3, WrittenAndNotRead
  <2> QED
    BY <2>1, <2>2, <2>3
<1>7. ASSUME NEW p \in WireType(K) PROVE Stable(K, p)
  <2> DEFINE r == Decode(K, p)
             b == [p.body EXCEPT !.n = p.f.channels * p.f.frames]
  <2>1. CASE r = Refused
    BY <2>1, NotRead
  <2>2. CASE r # Refused
    <3>1. r = [f |-> p.f, body |-> b] /\ worker_frame_accepted(p) /\ p.f.type \in AudioTypes /\ p.body.finite
      BY <2>2, Readers DEF validate_vst3_worker_audio_frame
    <3>2. p.f \in WorkerHeader /\ p.body \in SampleRun /\ p \in PipeFrame(SampleRun)
      BY <1>1, PipeFrames
    <3>3. p.f.channels * p.f.frames \in Nat
      BY <3>2, SampleBytesNat DEF WorkerHeader
    <3>4. b \in SampleRun /\ b.n = p.f.channels * p.f.frames /\ b.finite = p.body.finite
      BY <3>2, <3>3 DEF SampleRun
    <3> HIDE DEF b
    <3>5. r \in V /\ r.f = p.f /\ ok(r)
      <4>1. r.f = p.f /\ r.body = b
        BY <3>1
      <4>2. r \in [f : WorkerHeader, body : SampleRun]
        BY <3>1, <3>2, <3>4
      <4> HIDE DEF r
      <4>3. r.body.n = r.f.channels * r.f.frames
        BY <3>4, <4>1, Zenon
      <4> QED
        BY <3>1, <3>4, <4>1, <4>2, <4>3
    <3>6. CASE BeyondWriter(p.f)
      <4>1. Encode(K, r) = Refused
        BY <1>5, <3>5, <3>6, <3>2, WorkerWrites
      <4> QED
        BY <3>5, <3>6, <4>1, ReadBeyondWriter
    <3>7. CASE ~BeyondWriter(p.f)
      <4>1. Encodable(p.f)
        BY <3>1, <3>2, <3>7, WorkerReads
      <4> HIDE DEF r, V, K, ok
      <4>2. Encode(K, r) # Refused /\ Decode(K, Encode(K, r)) = r
        BY <1>4, <3>5, <4>1
      <4> QED
        BY <1>1, <1>2, <3>5, <3>7, <4>2, ReadAndUnderstood DEF r
    <3> QED
      BY <3>6, <3>7
  <2> QED
    BY <2>1, <2>2
<1> QED
  BY <1>1, <1>6, <1>7 DEF Agree

\* A parameter change of the worker is carried faithfully, and read stably.
LEMMA WorkerParametersAgrees == Agree("WorkerParameters")
<1> DEFINE K == "WorkerParameters"
           T == "ProcessBlockWithParameters"
           V == [f : WorkerHeader, body : [points : Seq(PointRecord), samples : SampleRun]]
           W == [count : Nat, reserved : Nat, points : Seq(PointRecord), samples : SampleRun]
           ok(v) == /\ v.f.type = T /\ valid_audio_shape(v.f) /\ v.body.samples.n = v.f.channels * v.f.frames
                    /\ valid_parameter_points(v.body.points, v.f.frames)
                    /\ v.f.payload = ParameterBytes(v.f, Len(v.body.points)) /\ v.body.samples.finite
           B(v) == [count |-> Len(v.body.points), reserved |-> 0, points |-> v.body.points, samples |-> v.body.samples]
<1>1. /\ ValueType(K) = V /\ WireType(K) = ParameterFrame /\ K \in LaxReaders /\ K # "SceneCatalog"
      /\ K \notin {"WorkerFrame", "WorkerAudio"}
  BY ValueTypes, WireTypes DEF LaxReaders
<1>2. \A v : Meaning(K, v) = v
  BY Meanings
<1>3. \A v \in V : /\ v # Refused /\ v.f \in WorkerHeader /\ v.body.points \in Seq(PointRecord) /\ v.body.samples \in SampleRun
                   /\ v = [f |-> v.f, body |-> [points |-> v.body.points, samples |-> v.body.samples]]
                   /\ Len(v.body.points) \in Nat
  BY DEF Refused
<1>4. ASSUME NEW v \in V
      PROVE  Encode(K, v) = IF ok(v) /\ Encodable(v.f) THEN WorkerFrame(v.f, B(v)) ELSE Refused
  <2> DEFINE c == [v EXCEPT !.body = B(v)]
  <2>1. Encode(K, v) = IF ok(v) THEN encode_vst3_worker_frame(c) ELSE Refused
    BY Writers DEF encode_vst3_worker_parameter_frame
  <2>2. c.f = v.f /\ c.body = B(v)
    OBVIOUS
  <2> HIDE DEF c, B, ok
  <2>3. encode_vst3_worker_frame(c) = IF Encodable(v.f) THEN WorkerFrame(v.f, B(v)) ELSE Refused
    BY <1>3, <2>2, WorkerWrites
  <2> QED
    BY <2>1, <2>3
<1>5. ASSUME NEW v \in V, ok(v), Encodable(v.f)
      PROVE  /\ Encode(K, v) \in WireType(K) /\ Encode(K, v) # Refused /\ ~EncoderRefused(K, Encode(K, v))
             /\ Decode(K, Encode(K, v)) = v
  <2> DEFINE w == Encode(K, v)
             b == B(v)
  <2>1. w = WorkerFrame(v.f, b)
    BY <1>4, <1>5
  <2>2. /\ b.count = Len(v.body.points) /\ b.reserved = 0 /\ b.points = v.body.points /\ b.samples = v.body.samples
        /\ b \in W
    BY <1>3
  <2> HIDE DEF b, B, W
  <2>3. worker_frame_accepted(WorkerFrame(v.f, b))
    <3> DEFINE c == [f |-> v.f, body |-> b]
    <3>1. c.f = v.f /\ c.body = b
      OBVIOUS
    <3> HIDE DEF c
    <3> QED
      BY <1>3, <1>5, <3>1, WorkerWrites
  <2>4. /\ WorkerFrame(v.f, b) \in PipeFrame(W) /\ WorkerFrame(v.f, b).f = v.f /\ WorkerFrame(v.f, b).body = b
        /\ WorkerFrame(v.f, b) # Refused
    <3> HIDE DEF V
    <3> QED
      BY <1>3, <2>2, PipeFrames
  <2>5. w \in PipeFrame(W) /\ w.f = v.f /\ w.body = b /\ w # Refused /\ worker_frame_accepted(w)
    BY <2>1, <2>3, <2>4, Zenon
  <2> HIDE DEF w, V
  <2>6. w \in ParameterFrame
    BY <1>5, <2>2, <2>5 DEF ParameterFrame, W
  <2>7. v.f.payload >= 8 /\ Len(v.body.points) <= 64
    BY <1>5 DEF Encodable, valid_parameter_points
  <2>8. Decode(K, w) = [f |-> v.f, body |-> [points |-> v.body.points, samples |-> v.body.samples]]
    <3>1. validate_vst3_worker_parameter_frame(w) = [f |-> w.f, body |-> [points |-> w.body.points, samples |-> w.body.samples]]
      BY <1>5, <2>2, <2>5, <2>7 DEF validate_vst3_worker_parameter_frame
    <3> QED
      BY <2>2, <2>5, <3>1, Readers
  <2>9. ~EncoderRefused(K, w)
    BY <2>5, Refusals
  <2> QED
    BY <1>1, <1>3, <2>5, <2>6, <2>8, <2>9, Zenon DEF w
<1>6. ASSUME NEW v \in V PROVE Faithful(K, v)
  <2>1. CASE ok(v) /\ Encodable(v.f)
    <3> HIDE DEF V, K, ok
    <3> QED
      BY <1>2, <1>3, <1>5, <2>1, WrittenAndRead, Zenon
  <2>2. CASE ~(ok(v) /\ Encodable(v.f))
    BY <1>4, <2>2, NotWritten
  <2> QED
    BY <2>1, <2>2
<1>7. ASSUME NEW p \in WireType(K) PROVE Stable(K, p)
  <2> DEFINE r == Decode(K, p)
  <2>1. CASE r = Refused
    BY <2>1, NotRead
  <2>2. CASE r # Refused
    <3>1. /\ r = [f |-> p.f, body |-> [points |-> p.body.points, samples |-> p.body.samples]]
          /\ worker_frame_accepted(p) /\ p.f.type = T /\ p.f.payload >= 8
          /\ p.f.payload = ParameterBytes(p.f, p.body.count)
          /\ valid_parameter_points(p.body.points, p.f.frames) /\ p.body.samples.finite
      BY <2>2, Readers DEF validate_vst3_worker_parameter_frame
    <3>2. p \in PipeFrame(W) /\ p.body.count = Len(p.body.points) /\ p.body.samples.n = p.f.channels * p.f.frames
      BY <1>1, <3>1 DEF ParameterFrame
    <3>3. p.f \in WorkerHeader /\ p.body \in W
      <4> HIDE DEF W
      <4> QED
        BY <3>2, PipeFrames
    <3>4. p.body.points \in Seq(PointRecord) /\ p.body.samples \in SampleRun
      BY <3>3
    <3>5. valid_audio_shape(p.f) /\ Encodable(p.f)
      BY <3>1 DEF worker_frame_accepted, Encodable
    <3>6. r.f = p.f /\ r.body.points = p.body.points /\ r.body.samples = p.body.samples
      BY <3>1
    <3>7. r \in V
      BY <3>1, <3>3, <3>4
    <3> HIDE DEF r
    <3>8. ok(r) /\ Encodable(r.f)
      BY <3>1, <3>2, <3>5, <3>6
    <3> HIDE DEF V, K, ok
    <3>9. Encode(K, r) # Refused /\ Decode(K, Encode(K, r)) = r
      BY <1>5, <3>7, <3>8
    <3> QED
      BY <1>1, <1>2, <3>9, ReadAndUnderstood DEF r
  <2> QED
    BY <2>1, <2>2
<1> QED
  BY <1>1, <1>6, <1>7 DEF Agree

-------------------------------------------------------------------------------
(* The snapshots.                                                             *)

\* A catalog of n entries on the wire.
LEMMA ListWritten ==
  ASSUME NEW E, NEW F, NEW h \in Nat, NEW e \in Nat, NEW s \in Seq(E), NEW f \in F, NEW w,
         w = Sized(h, e, s, f)
  PROVE  /\ w \in WireList(E, F) /\ w.f = f /\ w.entries = s /\ w.count = Len(s) /\ w # Refused
         /\ Len(s) <= MaxEntries => SizeAgrees(w, h, e)
<1> DEFINE n == h + e * Len(s)
<1>1. n \in Nat /\ Len(s) \in Nat
  <2>1. \A a, b, c \in Nat : c + a * b \in Nat
    BY SMT
  <2> QED
    BY <2>1
<1>2. w = [size |-> n, reservedZero |-> TRUE, count |-> Len(s), entries |-> s, f |-> f]
  BY Zenon DEF Sized
<1>3. /\ w.size = n /\ w.reservedZero = TRUE /\ w.count = Len(s) /\ w.entries = s /\ w.f = f
  BY <1>2
<1>4. SizeAgrees(w, h, e) <=> Len(s) <= MaxEntries
  BY <1>3 DEF SizeAgrees
<1> HIDE DEF n
<1>5. w \in WireList(E, F)
  BY <1>1, <1>2 DEF WireList
<1>6. [size |-> n, reservedZero |-> TRUE, count |-> Len(s), entries |-> s, f |-> f] # Refused
  BY DEF Refused
<1> QED
  BY <1>2, <1>3, <1>4, <1>5, <1>6, Zenon

\* A catalog of the right size is that of its entries, within the bound.
LEMMA ListRead ==
  ASSUME NEW E, NEW F, NEW h, NEW e, NEW p \in WireList(E, F), SizeAgrees(p, h, e)
  PROVE  /\ p = Sized(h, e, p.entries, p.f) /\ p.entries \in Seq(E) /\ p.f \in F
         /\ p.count = Len(p.entries) /\ Len(p.entries) <= MaxEntries
<1>1. /\ p = [size |-> p.size, reservedZero |-> p.reservedZero, count |-> p.count, entries |-> p.entries, f |-> p.f]
      /\ p.reservedZero \in BOOLEAN /\ p.entries \in Seq(E) /\ p.f \in F /\ p.count = Len(p.entries)
  BY DEF WireList
<1>2. p.size = h + e * Len(p.entries) /\ p.reservedZero = TRUE /\ Len(p.entries) <= MaxEntries
  BY <1>1 DEF SizeAgrees
<1>3. [size |-> p.size, reservedZero |-> p.reservedZero, count |-> p.count, entries |-> p.entries, f |-> p.f]
        = Sized(h, e, p.entries, p.f)
  BY <1>1, <1>2, Zenon DEF Sized
<1> QED
  BY <1>1, <1>2, <1>3, Zenon

\* A list whose entries are copied one by one.
LEMMA MappedList ==
  ASSUME NEW n \in Nat, NEW S, NEW m, m = [i \in 1..n |-> m[i]], \A i \in 1..n : m[i] \in S
  PROVE  m \in Seq(S) /\ Len(m) = n /\ DOMAIN m = 1..n
OBVIOUS

\* The entries of a device catalog: what they are when their texts are copied.
DeviceClean(e) == DeviceEntryValid(e) /\ TailZero(e.endpoint) /\ TailZero(e.name)

\* A copied device entry is one its reader takes, and clean entries stay as
\* they are.
LEMMA DeviceEntryCleaned ==
  ASSUME NEW e \in DeviceEntry, DeviceEntryValid(e)
  PROVE  /\ CopiedDevice(e) \in DeviceEntry /\ DeviceClean(CopiedDevice(e))
         /\ Used(CopiedDevice(e).endpoint) = Used(e.endpoint)
         /\ CopiedDevice(e).flags = e.flags /\ CopiedDevice(e).flow = e.flow
         /\ DeviceClean(e) => CopiedDevice(e) = e
<1> DEFINE a == Copied(e.endpoint)
           b == Copied(e.name)
           c == CopiedDevice(e)
<1>1. e.endpoint \in TextField /\ e.name \in TextField /\ GoodText(e.endpoint) /\ GoodText(e.name)
  BY DEF DeviceEntry, DeviceEntryValid
<1>2. a \in TextField /\ b \in TextField /\ PaddedText(a) /\ PaddedText(b)
  BY <1>1, CopiedText, GoodCopied
<1>3. Used(a) = Used(e.endpoint)
  BY <1>1, CopiedText, Sizes DEF GoodText
<1>4. TailZero(e.endpoint) /\ TailZero(e.name) => a = e.endpoint /\ b = e.name
  BY <1>1, CopiedText
<1>5. c = [e EXCEPT !.endpoint = a, !.name = b]
  BY Zenon DEF CopiedDevice
<1> HIDE DEF a, b, c
<1>6. /\ c \in DeviceEntry /\ c.endpoint = a /\ c.name = b /\ c.flow = e.flow /\ c.availability = e.availability
      /\ c.flags = e.flags /\ c.channels = e.channels /\ c.rate = e.rate /\ c.frames = e.frames
  BY <1>2, <1>5 DEF DeviceEntry
<1>0. StreamFormatValid(e)
  BY DEF DeviceEntryValid
<1>7. StreamFormatValid(c)
  BY <1>0, <1>6 DEF StreamFormatValid
<1>8. DeviceClean(c)
  BY <1>2, <1>6, <1>7 DEF DeviceEntryValid, DeviceClean, PaddedText
<1>9. a = e.endpoint /\ b = e.name => c = e
  BY <1>5 DEF DeviceEntry
<1> QED
  BY <1>3, <1>4, <1>6, <1>8, <1>9 DEF c, DeviceClean

\* A device catalog is carried faithfully, and read stably.
LEMMA DeviceCatalogAgrees == Agree("DeviceCatalog")
<1> DEFINE K == "DeviceCatalog"
           F == [sequence : Nat]
           V == [sequence : Nat, entries : Seq(DeviceEntry)]
           C(es) == [i \in 1..Len(es) |-> CopiedDevice(es[i])]
           ok(v) == /\ Len(v.entries) <= MaxEntries /\ v.sequence # 0
                    /\ \A i \in 1..Len(v.entries) : DeviceEntryValid(v.entries[i])
                    /\ DevicesDistinct(v.entries)
           M(v) == [sequence |-> v.sequence, entries |-> C(v.entries)]
<1>1. ValueType(K) = V /\ WireType(K) = WireList(DeviceEntry, F) /\ K \notin LaxReaders
  BY ValueTypes, WireTypes DEF LaxReaders
<1>2. ASSUME NEW v \in V
      PROVE  /\ Meaning(K, v) = M(v) /\ v.sequence \in Nat /\ v.entries \in Seq(DeviceEntry)
             /\ v = [sequence |-> v.sequence, entries |-> v.entries] /\ Len(v.entries) \in Nat
  <2> DEFINE c == C(v.entries)
  <2>1. v.sequence \in Nat /\ v.entries \in Seq(DeviceEntry) /\ Len(v.entries) \in Nat
        /\ v = [sequence |-> v.sequence, entries |-> v.entries]
    OBVIOUS
  <2>2. [i \in DOMAIN v.entries |-> CopiedDevice(v.entries[i])] = c
    <3>1. DOMAIN v.entries = 1..Len(v.entries)
      BY <2>1
    <3> QED
      BY <3>1, Zenon
  <2>3. Meaning(K, v) = [v EXCEPT !.entries = c]
    <3> DEFINE m == Meaning(K, v)
               d == [v EXCEPT !.entries = [i \in DOMAIN @ |-> CopiedDevice(@[i])]]
    <3>1. m = d
      BY Meanings
    <3> HIDE DEF m, c, C, K
    <3>2. d = [v EXCEPT !.entries = c]
      BY <2>2, Zenon
    <3> QED
      BY <3>1, <3>2 DEF m
  <2> HIDE DEF c
  <2>4. [v EXCEPT !.entries = c] = [sequence |-> v.sequence, entries |-> c]
    OBVIOUS
  <2> QED
    BY <2>1, <2>3, <2>4 DEF c
<1>3. ASSUME NEW es \in Seq(DeviceEntry), NEW i \in 1..Len(es) PROVE es[i] \in DeviceEntry /\ C(es)[i] = CopiedDevice(es[i])
  OBVIOUS
<1>4. ASSUME NEW es \in Seq(DeviceEntry), \A i \in 1..Len(es) : DeviceEntryValid(es[i])
      PROVE  /\ C(es) \in Seq(DeviceEntry) /\ Len(C(es)) = Len(es)
             /\ \A i \in 1..Len(es) : DeviceClean(C(es)[i])
             /\ DevicesDistinct(es) => DevicesDistinct(C(es))
             /\ (\A i \in 1..Len(es) : DeviceClean(es[i])) => C(es) = es
  <2> DEFINE c == C(es)
  <2>1. ASSUME NEW i \in 1..Len(es)
        PROVE  /\ c[i] \in DeviceEntry /\ DeviceClean(c[i]) /\ c[i] = CopiedDevice(es[i])
               /\ Used(c[i].endpoint) = Used(es[i].endpoint) /\ c[i].flags = es[i].flags /\ c[i].flow = es[i].flow
               /\ DeviceClean(es[i]) => c[i] = es[i]
    BY <1>3, <1>4, DeviceEntryCleaned
  <2>2. Len(es) \in Nat /\ c = [i \in 1..Len(es) |-> c[i]]
    BY <2>1
  <2> HIDE DEF c
  <2>3. c \in Seq(DeviceEntry) /\ Len(c) = Len(es)
    BY <2>1, <2>2, MappedList
  <2>4. DevicesDistinct(es) => DevicesDistinct(c)
    BY <2>1, <2>3 DEF DevicesDistinct
  <2>5. (\A i \in 1..Len(es) : DeviceClean(es[i])) => c = es
    <3> HAVE \A i \in 1..Len(es) : DeviceClean(es[i])
    <3>1. \A i \in 1..Len(es) : c[i] = es[i]
      BY <2>1
    <3>2. es = [i \in 1..Len(es) |-> es[i]]
      OBVIOUS
    <3> QED
      BY <2>2, <3>1, <3>2, Zenon
  <2> QED
    BY <2>1, <2>3, <2>4, <2>5 DEF c
<1>5. ASSUME NEW v \in V
      PROVE  Encode(K, v) = IF ok(v) THEN Sized(16, 416, C(v.entries), [sequence |-> v.sequence]) ELSE Refused
  <2>1. C(v.entries) = [i \in 1..Len(v.entries) |-> CopiedDevice(v.entries[i])]
    BY Zenon
  <2> HIDE DEF C
  <2>2. encode_device_catalog_snapshot(v) = IF ok(v) THEN Sized(16, 416, C(v.entries), [sequence |-> v.sequence]) ELSE Refused
    BY <2>1, Zenon DEF encode_device_catalog_snapshot
  <2> QED
    BY <2>2, Writers, ZenonT(40)
<1>6. ASSUME NEW v \in V PROVE Faithful(K, v)
  <2>1. CASE ~ok(v)
    BY <1>5, <2>1, NotWritten
  <2>2. CASE ok(v)
    <3> DEFINE w == Encode(K, v)
               c == C(v.entries)
               f == [sequence |-> v.sequence]
    <3>1. w = Sized(16, 416, c, f)
      BY <1>5, <2>2
    <3>2. c \in Seq(DeviceEntry) /\ Len(c) = Len(v.entries) /\ (\A i \in 1..Len(c) : DeviceClean(c[i])) /\ DevicesDistinct(c)
      BY <1>2, <1>4, <2>2
    <3>3. f \in F /\ f.sequence = v.sequence
      BY <1>2
    <3>4. v.sequence # 0 /\ Len(c) <= MaxEntries
      BY <2>2, <3>2
    <3> HIDE DEF c, f, w, C, F, ok
    <3>5. /\ w \in WireList(DeviceEntry, F) /\ w.f = f /\ w.entries = c /\ w.count = Len(c) /\ w # Refused
          /\ SizeAgrees(w, 16, 416)
      <4>1. 16 \in Nat /\ 416 \in Nat
        OBVIOUS
      <4>2. c \in Seq(DeviceEntry) /\ f \in F /\ w = Sized(16, 416, c, f) /\ Len(c) <= MaxEntries
        BY <3>1, <3>2, <3>3, <3>4
      <4> QED
        BY ONLY <4>1, <4>2, ListWritten
    <3>6. decode_device_catalog_snapshot(w) = [sequence |-> w.f.sequence, entries |-> w.entries]
      BY <3>2, <3>3, <3>4, <3>5 DEF decode_device_catalog_snapshot, DeviceClean
    <3>7. Decode(K, w) = [sequence |-> v.sequence, entries |-> c]
      BY <3>3, <3>5, <3>6, Readers
    <3>8. [sequence |-> v.sequence, entries |-> c] # Refused
      BY DEF Refused
    <3>9. ~EncoderRefused(K, w)
      BY <3>5, Refusals
    <3> QED
      BY <1>1, <1>2, <3>5, <3>7, <3>8, <3>9, WrittenAndRead DEF w, c
  <2> QED
    BY <2>1, <2>2
<1>7. ASSUME NEW p \in WireType(K) PROVE Stable(K, p)
  <2> DEFINE r == Decode(K, p)
  <2>1. CASE r = Refused
    BY <2>1, NotRead
  <2>2. CASE r # Refused
    <3>1. /\ r = [sequence |-> p.f.sequence, entries |-> p.entries] /\ SizeAgrees(p, 16, 416) /\ p.f.sequence # 0
          /\ DevicesDistinct(p.entries) /\ \A i \in 1..p.count : DeviceClean(p.entries[i])
      BY <2>2, Readers DEF decode_device_catalog_snapshot, DeviceClean
    <3>2. p = Sized(16, 416, p.entries, p.f) /\ p.entries \in Seq(DeviceEntry) /\ p.f \in F /\ p.count = Len(p.entries)
          /\ Len(p.entries) <= MaxEntries
      <4> HIDE DEF F
      <4> QED
        BY <1>1, <3>1, ListRead
    <3>3. r.sequence = p.f.sequence /\ r.entries = p.entries /\ r \in V /\ [sequence |-> p.f.sequence] = p.f
      BY <3>1, <3>2
    <3>4. \A i \in 1..Len(p.entries) : DeviceClean(p.entries[i]) /\ DeviceEntryValid(p.entries[i])
      BY <3>1, <3>2 DEF DeviceClean
    <3>5. C(p.entries) = p.entries
      <4> HIDE DEF C
      <4> QED
        BY <1>4, <3>2, <3>4
    <3> HIDE DEF r
    <3>6. ok(r)
      BY <3>1, <3>2, <3>3, <3>4
    <3> HIDE DEF ok, C, V
    <3>7. Encode(K, r) = p
      BY <1>5, <3>2, <3>3, <3>5, <3>6
    <3> QED
      BY <1>1, <3>7, ReadAndWritten DEF r
  <2> QED
    BY <2>1, <2>2
<1> QED
  BY <1>1, <1>6, <1>7 DEF Agree

\* A session catalog is carried faithfully, and read stably.
LEMMA SessionCatalogAgrees == Agree("SessionCatalog")
<1> DEFINE K == "SessionCatalog"
           F == [sequence : Nat, generation : Nat]
           V == [sequence : Nat, generation : Nat, entries : Seq(SessionEntry)]
           f(v) == [sequence |-> v.sequence, generation |-> v.generation]
           ok(v) == /\ v.sequence # 0 /\ v.generation # 0 /\ Len(v.entries) <= MaxEntries
                    /\ SessionsValid(v.generation, v.entries)
<1>1. ValueType(K) = V /\ WireType(K) = WireList(SessionEntry, F) /\ K \notin LaxReaders
  BY ValueTypes, WireTypes DEF LaxReaders
<1>2. ASSUME NEW v \in V
      PROVE  /\ Meaning(K, v) = v /\ v.entries \in Seq(SessionEntry) /\ f(v) \in F /\ v # Refused
             /\ v = [sequence |-> v.sequence, generation |-> v.generation, entries |-> v.entries]
             /\ Encode(K, v) = IF ok(v) THEN Sized(24, 256, v.entries, f(v)) ELSE Refused
  <2>1. Meaning(K, v) = v
    BY Meanings
  <2>2. Encode(K, v) = IF ok(v) THEN Sized(24, 256, v.entries, f(v)) ELSE Refused
    BY Writers DEF encode_session_catalog_snapshot
  <2> QED
    BY <2>1, <2>2 DEF Refused
<1>3. ASSUME NEW v \in V PROVE Faithful(K, v)
  <2>1. CASE ~ok(v)
    BY <1>2, <2>1, NotWritten
  <2>2. CASE ok(v)
    <3> DEFINE w == Encode(K, v)
               g == f(v)
    <3>1. g.sequence = v.sequence /\ g.generation = v.generation
      OBVIOUS
    <3>2. v.entries \in Seq(SessionEntry) /\ g \in F /\ w = Sized(24, 256, v.entries, g) /\ Len(v.entries) <= MaxEntries
      BY <1>2, <2>2
    <3> HIDE DEF g, w, F
    <3>3. /\ w \in WireList(SessionEntry, F) /\ w.f = g /\ w.entries = v.entries /\ w # Refused
          /\ SizeAgrees(w, 24, 256)
      <4>1. 24 \in Nat /\ 256 \in Nat
        OBVIOUS
      <4> QED
        BY ONLY <3>2, <4>1, ListWritten
    <3>4. decode_session_catalog_snapshot(w) = [sequence |-> v.sequence, generation |-> v.generation, entries |-> v.entries]
      BY <2>2, <3>1, <3>3 DEF decode_session_catalog_snapshot
    <3>5. Decode(K, w) = v
      BY <1>2, <3>4, Readers
    <3>6. ~EncoderRefused(K, w)
      BY <3>3, Refusals
    <3>7. Meaning(K, v) = v /\ v # Refused /\ w \in WireType(K)
      BY <1>1, <1>2, <3>3
    <3> HIDE DEF K
    <3> QED
      BY <3>5, <3>6, <3>7, WrittenAndRead, Zenon DEF w
  <2> QED
    BY <2>1, <2>2
<1>4. ASSUME NEW p \in WireType(K) PROVE Stable(K, p)
  <2> DEFINE r == Decode(K, p)
  <2>1. CASE r = Refused
    BY <2>1, NotRead
  <2>2. CASE r # Refused
    <3>1. /\ r = [sequence |-> p.f.sequence, generation |-> p.f.generation, entries |-> p.entries]
          /\ SizeAgrees(p, 24, 256) /\ p.f.sequence # 0 /\ p.f.generation # 0
          /\ SessionsValid(p.f.generation, p.entries)
      BY <2>2, Readers DEF decode_session_catalog_snapshot
    <3>2. /\ p = Sized(24, 256, p.entries, p.f) /\ p.entries \in Seq(SessionEntry) /\ p.f \in F
          /\ Len(p.entries) <= MaxEntries
      <4> HIDE DEF F
      <4> QED
        BY <1>1, <3>1, ListRead
    <3>3. r.sequence = p.f.sequence /\ r.generation = p.f.generation /\ r.entries = p.entries /\ r \in V
          /\ f(r) = p.f
      BY <3>1, <3>2
    <3> HIDE DEF r
    <3>4. ok(r)
      BY <3>1, <3>2, <3>3
    <3> HIDE DEF ok, f, V
    <3>5. Encode(K, r) = p
      BY <1>2, <3>2, <3>3, <3>4
    <3> QED
      BY <1>1, <3>5, ReadAndWritten DEF r
  <2> QED
    BY <2>1, <2>2
<1> QED
  BY <1>1, <1>3, <1>4 DEF Agree

\* The routes of a control status: what they are when their texts are copied.
RouteClean(r) == valid_route(r) /\ TailZero(r.id) /\ TailZero(r.name) /\ TailZero(r.detail)

\* A text of a status, copied, is one again.
LEMMA StatusCopied ==
  ASSUME NEW t \in TextField, StatusText(t)
  PROVE  /\ Copied(t) \in TextField /\ StatusText(Copied(t)) /\ TailZero(Copied(t))
         /\ Used(Copied(t)) = Used(t) /\ (TailZero(t) => Copied(t) = t)
<1>1. GoodText(t) /\ t.n < TextCap /\ t.n \in Nat
  BY DEF StatusText, TextField
<1>2. PaddedText(Copied(t)) /\ Copied(t).n = t.n /\ Copied(t) \in TextField
  BY <1>1, GoodCopied, CopiedText
<1> QED
  BY <1>1, <1>2, CopiedText, Sizes DEF StatusText, PaddedText

\* A copied route is one its reader takes, and clean routes stay as they
\* are.
LEMMA RouteCleaned ==
  ASSUME NEW e \in RouteStatus, valid_route(e)
  PROVE  /\ CopiedRoute(e) \in RouteStatus /\ RouteClean(CopiedRoute(e))
         /\ Used(CopiedRoute(e).id) = Used(e.id)
         /\ RouteClean(e) => CopiedRoute(e) = e
<1> DEFINE a == Copied(e.id)
           b == Copied(e.name)
           d == Copied(e.detail)
           c == CopiedRoute(e)
<1>1. /\ e.id \in TextField /\ e.name \in TextField /\ e.detail \in TextField
      /\ StatusText(e.id) /\ StatusText(e.name) /\ StatusText(e.detail)
  BY DEF RouteStatus, valid_route
<1>2. /\ a \in TextField /\ b \in TextField /\ d \in TextField
      /\ StatusText(a) /\ StatusText(b) /\ StatusText(d) /\ TailZero(a) /\ TailZero(b) /\ TailZero(d)
      /\ Used(a) = Used(e.id)
      /\ TailZero(e.id) /\ TailZero(e.name) /\ TailZero(e.detail) => a = e.id /\ b = e.name /\ d = e.detail
  BY <1>1, StatusCopied
<1>3. c = [e EXCEPT !.id = a, !.name = b, !.detail = d]
  BY Zenon DEF CopiedRoute
<1> HIDE DEF a, b, c, d
<1>4. c \in RouteStatus /\ c.id = a /\ c.name = b /\ c.detail = d /\ c.state = e.state /\ c.flags = e.flags
  BY <1>2, <1>3 DEF RouteStatus
<1>5. RouteClean(c)
  BY <1>2, <1>4 DEF valid_route, RouteClean
<1>6. a = e.id /\ b = e.name /\ d = e.detail => c = e
  BY <1>3 DEF RouteStatus
<1> QED
  BY <1>2, <1>4, <1>5, <1>6 DEF c, RouteClean

\* A list of routes copied one by one keeps its length and its distinctness.
LEMMA RoutesCopied ==
  ASSUME NEW es \in Seq(RouteStatus), \A i \in 1..Len(es) : valid_route(es[i]),
         NEW c, c = [i \in 1..Len(es) |-> CopiedRoute(es[i])]
  PROVE  /\ c \in Seq(RouteStatus) /\ Len(c) = Len(es)
         /\ \A i \in 1..Len(c) : RouteClean(c[i])
         /\ RoutesDistinct(es) => RoutesDistinct(c)
         /\ (\A i \in 1..Len(es) : RouteClean(es[i])) => c = es
<1>1. ASSUME NEW i \in 1..Len(es)
      PROVE  /\ c[i] = CopiedRoute(es[i]) /\ c[i] \in RouteStatus /\ RouteClean(c[i])
             /\ Used(c[i].id) = Used(es[i].id)
             /\ RouteClean(es[i]) => c[i] = es[i]
  <2>1. es[i] \in RouteStatus /\ valid_route(es[i]) /\ c[i] = CopiedRoute(es[i])
    OBVIOUS
  <2> QED
    BY <2>1, RouteCleaned
<1>2. Len(es) \in Nat /\ c = [i \in 1..Len(es) |-> c[i]]
  BY <1>1
<1>3. c \in Seq(RouteStatus) /\ Len(c) = Len(es)
  BY ONLY <1>1, <1>2, MappedList
<1>4. RoutesDistinct(es) => RoutesDistinct(c)
  BY ONLY <1>1, <1>3 DEF RoutesDistinct
<1>5. (\A i \in 1..Len(es) : RouteClean(es[i])) => c = es
  <2> HAVE \A i \in 1..Len(es) : RouteClean(es[i])
  <2>1. \A i \in 1..Len(es) : c[i] = es[i]
    BY <1>1
  <2>2. es = [i \in 1..Len(es) |-> es[i]]
    OBVIOUS
  <2> QED
    BY ONLY <1>2, <2>1, <2>2, Zenon
<1> QED
  BY ONLY <1>1, <1>3, <1>4, <1>5

\* The levels of a status on the wire, and read back.
Written3(l) == [x \in DOMAIN l |-> db_to_q16_16(l[x])]
Read3(l) == [x \in DOMAIN l |-> q16_16_to_db(l[x])]

\* Every raw level reads as one within the range, which rounding leaves
\* alone.
LEMMA RangeOfDecibels ==
  /\ Db(-144) \in Int /\ Db(12) \in Int /\ Tolerance \in Nat
  /\ \A raw \in Int : /\ q16_16_to_db(raw) \in Int
                      /\ Db(-144) <= q16_16_to_db(raw) /\ q16_16_to_db(raw) <= Db(12)
  /\ \A raw \in Int : Quantised(q16_16_to_db(raw)) = q16_16_to_db(raw)
<1>1. QuantaPerDb \in Nat
  BY Sizes
<1>2. Db(-144) = -288 * QuantaPerDb /\ Db(12) = 24 * QuantaPerDb /\ Db(1) = 2 * QuantaPerDb
  BY <1>1 DEF Db
<1>3. Tolerance \in Nat
  <2>1. \A n \in Nat : n \div 20 \in Nat
    OBVIOUS
  <2> QED
    BY <1>1, <1>2, <2>1 DEF Tolerance
<1>4. ASSUME NEW raw \in Int
      PROVE  \E k : InRaw(k) /\ q16_16_to_db(raw) = 2 * k
  <2> DEFINE k == IF raw < -144 * QuantaPerDb THEN -144 * QuantaPerDb
                  ELSE IF raw > 12 * QuantaPerDb THEN 12 * QuantaPerDb ELSE raw
  <2>1. InRaw(k)
    BY <1>1 DEF InRaw
  <2>2. q16_16_to_db(raw) = 2 * k
    BY <1>1, <1>2 DEF q16_16_to_db, Clamp
  <2> QED
    BY <2>1, <2>2
<1>5. ASSUME NEW raw \in Int
      PROVE  /\ q16_16_to_db(raw) \in Int /\ Db(-144) <= q16_16_to_db(raw) /\ q16_16_to_db(raw) <= Db(12)
             /\ Quantised(q16_16_to_db(raw)) = q16_16_to_db(raw)
  <2>1. PICK k : InRaw(k) /\ q16_16_to_db(raw) = 2 * k
    BY <1>4
  <2>2. /\ q16_16_to_db(k) = 2 * k /\ db_to_q16_16(2 * k) = k /\ Db(-144) <= 2 * k /\ 2 * k <= Db(12)
    BY <2>1, RawReadBack
  <2>3. 2 * k \in Int
    BY <2>1 DEF InRaw
  <2> QED
    BY <2>1, <2>2, <2>3 DEF Quantised
<1> QED
  BY <1>1, <1>2, <1>3, <1>5

\* The three levels of a status are written, read and rounded one by one.
LEMMA LevelsCarried ==
  ASSUME NEW l \in LevelsOf
  PROVE  /\ Written3(l) = [requested |-> db_to_q16_16(l.requested), ceiling |-> db_to_q16_16(l.ceiling),
                           effective |-> db_to_q16_16(l.effective)]
         /\ Written3(l) \in LevelsOf
         /\ Read3(l) = [requested |-> q16_16_to_db(l.requested), ceiling |-> q16_16_to_db(l.ceiling),
                        effective |-> q16_16_to_db(l.effective)]
         /\ Read3(l) \in LevelsOf
         /\ [x \in DOMAIN l |-> Quantised(l[x])] = Read3(Written3(l))
<1> DEFINE a == db_to_q16_16(l.requested)
           b == db_to_q16_16(l.ceiling)
           c == db_to_q16_16(l.effective)
           a2 == q16_16_to_db(l.requested)
           b2 == q16_16_to_db(l.ceiling)
           c2 == q16_16_to_db(l.effective)
<1>0. DOMAIN l = {"requested", "ceiling", "effective"}
  BY DEF LevelsOf
<1>1. l.requested \in Int /\ l.ceiling \in Int /\ l.effective \in Int
  BY DEF LevelsOf
<1>2. a \in Int /\ b \in Int /\ c \in Int
  BY <1>1, DbWritten DEF InRaw
<1>3. a2 \in Int /\ b2 \in Int /\ c2 \in Int
  BY <1>1, RangeOfDecibels
<1>4. Written3(l) = [x \in {"requested", "ceiling", "effective"} |-> db_to_q16_16(l[x])]
  BY <1>0 DEF Written3
<1>5. Read3(l) = [x \in {"requested", "ceiling", "effective"} |-> q16_16_to_db(l[x])]
  BY <1>0 DEF Read3
<1>6. Written3(l) = [requested |-> a, ceiling |-> b, effective |-> c]
  BY <1>4
<1>7. Read3(l) = [requested |-> a2, ceiling |-> b2, effective |-> c2]
  BY <1>5
<1>8. Read3(Written3(l)) = [x \in DOMAIN l |-> Quantised(l[x])]
  <2>1. DOMAIN Written3(l) = DOMAIN l /\ \A x \in DOMAIN l : Written3(l)[x] = db_to_q16_16(l[x])
    BY DEF Written3
  <2>2. Read3(Written3(l)) = [x \in DOMAIN l |-> q16_16_to_db(Written3(l)[x])]
    BY <2>1 DEF Read3
  <2> QED
    BY <2>1, <2>2, Zenon DEF Quantised
<1> HIDE DEF a, b, c, a2, b2, c2
<1>9. Written3(l) \in LevelsOf /\ Read3(l) \in LevelsOf
  BY <1>2, <1>3, <1>6, <1>7 DEF LevelsOf
<1> QED
  BY <1>6, <1>7, <1>8, <1>9 DEF a, b, c, a2, b2, c2

\* Levels that fit stay fitting when rounded, unless the tolerance was used.
LEMMA SettledSurvives ==
  ASSUME NEW l \in LevelsOf, valid_volume(l), Settled(l)
  PROVE  valid_volume(Read3(Written3(l)))
<1> DEFINE w == Written3(l)
           a == w.requested
           b == w.ceiling
           c == w.effective
           m == Read3(w)
<1>1. l.requested \in Int /\ l.ceiling \in Int /\ l.effective \in Int
  BY DEF LevelsOf
<1>2. /\ Db(-144) <= l.requested /\ l.requested <= Db(12) /\ Db(-144) <= l.ceiling /\ l.ceiling <= Db(12)
      /\ Db(-144) <= l.effective /\ l.effective <= Db(12)
      /\ l.effective <= l.requested /\ l.effective <= l.ceiling
  BY <1>1, RangeOfDecibels DEF valid_volume, Settled
<1>3. /\ a = db_to_q16_16(l.requested) /\ b = db_to_q16_16(l.ceiling) /\ c = db_to_q16_16(l.effective)
      /\ w \in LevelsOf
  BY LevelsCarried
<1>4. InRaw(a) /\ InRaw(b) /\ InRaw(c) /\ c <= a /\ c <= b
  BY <1>1, <1>2, <1>3, DbWritten, RoundingIsMonotone
<1> HIDE DEF w
<1>5. /\ m.requested = 2 * a /\ m.ceiling = 2 * b /\ m.effective = 2 * c
  BY <1>3, <1>4, LevelsCarried, RawReadBack
<1>6. /\ Finite(2 * a) /\ Db(-144) <= 2 * a /\ 2 * a <= Db(12) /\ Finite(2 * b) /\ Db(-144) <= 2 * b /\ 2 * b <= Db(12)
      /\ Finite(2 * c) /\ Db(-144) <= 2 * c /\ 2 * c <= Db(12) /\ a \in Int /\ b \in Int /\ c \in Int
  BY <1>4, RawReadBack DEF InRaw
<1> HIDE DEF a, b, c, m
<1>7. {2 * a, 2 * b, 2 * c} \subseteq Db(-144)..Db(12)
  BY <1>6, RangeOfDecibels
<1>8. 2 * c <= 2 * a + Tolerance /\ 2 * c <= 2 * b + Tolerance
  BY <1>4, <1>6, RangeOfDecibels
<1>9. valid_volume(m)
  BY <1>5, <1>6, <1>7, <1>8 DEF valid_volume
<1> QED
  BY <1>9 DEF m, w

\* Levels read are levels that rounding leaves alone.
LEMMA ReadLevels ==
  ASSUME NEW l \in LevelsOf
  PROVE  Read3(Written3(Read3(l))) = Read3(l)
<1> DEFINE m == Read3(l)
<1>1. m \in LevelsOf
  BY LevelsCarried
<1>2. DOMAIN m = DOMAIN l /\ \A x \in DOMAIN l : m[x] = q16_16_to_db(l[x])
  BY DEF Read3
<1>3. \A x \in DOMAIN l : l[x] \in Int
  BY DEF LevelsOf
<1>4. \A x \in DOMAIN m : Quantised(m[x]) = m[x]
  BY <1>2, <1>3, RangeOfDecibels
<1>5. m = [x \in DOMAIN m |-> m[x]]
  BY <1>2 DEF Read3
<1>6. [x \in DOMAIN m |-> Quantised(m[x])] = Read3(Written3(m))
  BY <1>1, LevelsCarried
<1> HIDE DEF m
<1>7. [x \in DOMAIN m |-> Quantised(m[x])] = m
  BY <1>4, <1>5, Zenon
<1> QED
  BY <1>6, <1>7 DEF m

\* A control status is carried faithfully, and read stably.
LEMMA ControlStatusAgrees == Agree("ControlStatus")
<1> DEFINE K == "ControlStatus"
           F == [sequence : Nat, volume : LevelsOf]
           V == [sequence : Nat, volume : LevelsOf, entries : Seq(RouteStatus)]
           C(es) == [i \in 1..Len(es) |-> CopiedRoute(es[i])]
           f(v) == [sequence |-> v.sequence, volume |-> Written3(v.volume)]
           ok(v) == /\ v.sequence # 0 /\ Len(v.entries) <= MaxEntries /\ valid_volume(v.volume)
                    /\ \A i \in 1..Len(v.entries) : valid_route(v.entries[i])
                    /\ RoutesDistinct(v.entries)
           M(v) == [sequence |-> v.sequence, volume |-> Read3(Written3(v.volume)), entries |-> C(v.entries)]
<1>1. ValueType(K) = V /\ WireType(K) = WireList(RouteStatus, F) /\ K \in LaxReaders
  BY ValueTypes, WireTypes DEF LaxReaders
<1>2. ASSUME NEW v \in V
      PROVE  /\ v.sequence \in Nat /\ v.volume \in LevelsOf /\ v.entries \in Seq(RouteStatus)
             /\ v = [sequence |-> v.sequence, volume |-> v.volume, entries |-> v.entries]
  OBVIOUS
<1>3. ASSUME NEW v \in V PROVE Meaning(K, v) = M(v) /\ M(v) # Refused
  <2> DEFINE m == Meaning(K, v)
             c == C(v.entries)
             l == Read3(Written3(v.volume))
             d == [v EXCEPT !.volume = [x \in DOMAIN @ |-> Quantised(@[x])],
                            !.entries = [i \in DOMAIN @ |-> CopiedRoute(@[i])]]
  <2>1. m = d
    BY Meanings
  <2>2. [i \in DOMAIN v.entries |-> CopiedRoute(v.entries[i])] = c
    <3>1. DOMAIN v.entries = 1..Len(v.entries)
      BY <1>2
    <3> QED
      BY <3>1, Zenon
  <2>3. [x \in DOMAIN v.volume |-> Quantised(v.volume[x])] = l
    BY <1>2, LevelsCarried
  <2> HIDE DEF m, c, C, K, l, V
  <2>4. d = [v EXCEPT !.volume = l, !.entries = c]
    BY <2>2, <2>3, Zenon
  <2>5. [v EXCEPT !.volume = l, !.entries = c] = [sequence |-> v.sequence, volume |-> l, entries |-> c]
    <3>1. DOMAIN v = {"sequence", "volume", "entries"}
      BY <1>2
    <3>2. [v EXCEPT !.volume = l, !.entries = c] =
            [x \in {"sequence", "volume", "entries"} |->
               IF x = "entries" THEN c ELSE IF x = "volume" THEN l ELSE v[x]]
      BY ONLY <3>1
    <3> QED
      BY ONLY <3>2
  <2>6. [sequence |-> v.sequence, volume |-> l, entries |-> c] # Refused
    BY DEF Refused
  <2> QED
    BY <2>1, <2>4, <2>5, <2>6 DEF m, c, l
<1>4. ASSUME NEW v \in V
      PROVE  Encode(K, v) = IF ok(v) THEN Sized(40, 224, C(v.entries), f(v)) ELSE Refused
  <2>1. C(v.entries) = [i \in 1..Len(v.entries) |-> CopiedRoute(v.entries[i])]
    BY Zenon
  <2>2. f(v) = [sequence |-> v.sequence, volume |-> [x \in DOMAIN v.volume |-> db_to_q16_16(v.volume[x])]]
    BY Zenon DEF Written3
  <2> HIDE DEF C, f
  <2>3. encode_control_status_snapshot(v) = IF ok(v) THEN Sized(40, 224, C(v.entries), f(v)) ELSE Refused
    BY <2>1, <2>2, Zenon DEF encode_control_status_snapshot
  <2> QED
    BY <2>3, Writers
<1>5. ASSUME NEW v \in V, ok(v)
      PROVE  LET w == Encode(K, v)
             IN  /\ w # Refused /\ w \in WireType(K)
                 /\ Decode(K, w) = IF valid_volume(Read3(Written3(v.volume))) THEN M(v) ELSE Refused
  <2> DEFINE w == Encode(K, v)
             c == C(v.entries)
             g == f(v)
  <2>1. w = Sized(40, 224, c, g)
    BY <1>4, <1>5
  <2>2. c \in Seq(RouteStatus) /\ Len(c) = Len(v.entries) /\ (\A i \in 1..Len(c) : RouteClean(c[i])) /\ RoutesDistinct(c)
    <3>1. v.entries \in Seq(RouteStatus) /\ (\A i \in 1..Len(v.entries) : valid_route(v.entries[i])) /\ RoutesDistinct(v.entries)
      BY <1>2, <1>5
    <3>2. c = [i \in 1..Len(v.entries) |-> CopiedRoute(v.entries[i])]
      BY Zenon
    <3> HIDE DEF c
    <3> QED
      BY ONLY <3>1, <3>2, RoutesCopied
  <2>3. g \in F /\ g.sequence = v.sequence /\ g.volume = Written3(v.volume)
    BY <1>2, LevelsCarried
  <2>4. v.sequence # 0 /\ Len(c) <= MaxEntries
    BY <1>5, <2>2
  <2> HIDE DEF c, g, w, C, F, f, ok, V
  <2>5. /\ w \in WireList(RouteStatus, F) /\ w.f = g /\ w.entries = c /\ w.count = Len(c) /\ w # Refused
        /\ SizeAgrees(w, 40, 224)
    <3>1. 40 \in Nat /\ 224 \in Nat
      OBVIOUS
    <3> QED
      <4>1. c \in Seq(RouteStatus) /\ Len(c) <= MaxEntries /\ g \in F /\ w = Sized(40, 224, c, g)
        BY <2>1, <2>2, <2>3, <2>4
      <4> QED
        BY ONLY <3>1, <4>1, ListWritten
  <2>6. decode_control_status_snapshot(w) =
          IF valid_volume(Read3(Written3(v.volume)))
          THEN [sequence |-> v.sequence, volume |-> Read3(Written3(v.volume)), entries |-> c] ELSE Refused
    <3> DEFINE l == Read3(Written3(v.volume))
    <3>1. [x \in DOMAIN w.f.volume |-> q16_16_to_db(w.f.volume[x])] = l
      BY <2>3, <2>5, Zenon DEF Read3
    <3>2. \A i \in 1..w.count : /\ valid_route(w.entries[i])
                                /\ TailZero(w.entries[i].id)
                                /\ TailZero(w.entries[i].name)
                                /\ TailZero(w.entries[i].detail)
      BY <2>2, <2>5 DEF RouteClean
    <3> HIDE DEF l
    <3> QED
      BY <2>2, <2>3, <2>4, <2>5, <3>1, <3>2 DEF decode_control_status_snapshot, l
  <2> QED
    BY <1>1, <2>5, <2>6, Readers DEF w, c
<1>6. ASSUME NEW v \in V PROVE Faithful(K, v)
  <2> DEFINE w == Encode(K, v)
  <2>1. CASE ~ok(v)
    BY <1>4, <2>1, NotWritten
  <2>2. CASE ok(v)
    <3>1. /\ w # Refused /\ w \in WireType(K)
          /\ Decode(K, w) = IF valid_volume(Read3(Written3(v.volume))) THEN M(v) ELSE Refused
      BY <1>5, <2>2
    <3>2. ~EncoderRefused(K, w)
      BY <3>1, Refusals
    <3>3. Meaning(K, v) = M(v) /\ M(v) # Refused
      BY <1>3
    <3>4. Settled(v.volume) => valid_volume(Read3(Written3(v.volume)))
      BY <1>2, <2>2, SettledSurvives
    <3> HIDE DEF M, ok, V
    <3>5. CASE valid_volume(Read3(Written3(v.volume)))
      BY <3>1, <3>2, <3>3, <3>5, WrittenAndRead
    <3>6. CASE ~valid_volume(Read3(Written3(v.volume)))
      BY <3>1, <3>2, <3>4, <3>6, WrittenAndNotRead
    <3> QED
      BY <3>5, <3>6
  <2> QED
    BY <2>1, <2>2
<1>7. ASSUME NEW p \in WireType(K) PROVE Stable(K, p)
  <2> DEFINE r == Decode(K, p)
  <2>1. CASE r = Refused
    BY <2>1, NotRead
  <2>2. CASE r # Refused
    <3> DEFINE l == Read3(p.f.volume)
    <3>0. [x \in DOMAIN p.f.volume |-> q16_16_to_db(p.f.volume[x])] = l
      BY Zenon DEF Read3
    <3>1. /\ r = [sequence |-> p.f.sequence, volume |-> l, entries |-> p.entries] /\ SizeAgrees(p, 40, 224)
          /\ p.f.sequence # 0 /\ valid_volume(l)
          /\ RoutesDistinct(p.entries) /\ \A i \in 1..p.count : RouteClean(p.entries[i])
      <4> HIDE DEF l
      <4> QED
        BY <2>2, <3>0, Readers DEF decode_control_status_snapshot, RouteClean
    <3>2. p.entries \in Seq(RouteStatus) /\ p.f \in F /\ p.count = Len(p.entries) /\ Len(p.entries) <= MaxEntries
      <4> HIDE DEF F
      <4> QED
        BY <1>1, <3>1, ListRead
    <3>3. p.f.volume \in LevelsOf /\ p.f.sequence \in Nat
      BY <3>2
    <3>4. l \in LevelsOf /\ Read3(Written3(l)) = l
      BY <3>3, LevelsCarried, ReadLevels
    <3> HIDE DEF l
    <3>5. r.sequence = p.f.sequence /\ r.entries = p.entries /\ r.volume = l /\ r \in V
      BY <3>1, <3>2, <3>3, <3>4
    <3> HIDE DEF r
    <3>6. ok(r)
      BY <3>1, <3>2, <3>5 DEF RouteClean
    <3> HIDE DEF ok, V, K, M
    <3>7. Encode(K, r) # Refused /\ Decode(K, Encode(K, r)) = M(r)
      BY <1>5, <3>1, <3>4, <3>5, <3>6
    <3>8. Decode(K, Encode(K, r)) = Meaning(K, r)
      BY <1>3, <3>5, <3>7
    <3>9. K # "SceneCatalog" /\ K \notin {"WorkerFrame", "WorkerAudio"}
      BY DEF K
    <3> QED
      BY <1>1, <3>7, <3>8, <3>9, ReadAndUnderstood DEF r
  <2> QED
    BY <2>1, <2>2
<1> QED
  BY <1>1, <1>6, <1>7 DEF Agree

\* The points of a curve before the first all-zero pair.
PointsEnd(ps, n) == /\ n \in 0..MaxPoints /\ (n = MaxPoints \/ ps[n + 1] = ZeroPoint)
                    /\ \A i \in 1..n : ps[i] # ZeroPoint

\* The points of a curve end where the count says, and nowhere else.
LEMMA PointCountIs ==
  ASSUME NEW ps
  PROVE  /\ PointsEnd(ps, PointCount(ps))
         /\ \A n : PointsEnd(ps, n) => n = PointCount(ps)
<1> DEFINE P(k) == k >= 1 /\ (k = MaxPoints + 1 \/ ps[k] = ZeroPoint)
           S == {k \in Nat : P(k)}
<1>0. MaxPoints \in Nat /\ MaxPoints >= 1
  BY WireAssumption
<1>1. \E n : PointsEnd(ps, n)
  <2>1. MaxPoints + 1 \in S
    BY <1>0
  <2>2. PICK k \in S : \A j \in S : k <= j
    <3> HIDE DEF S
    <3>1. S \subseteq Nat
      BY DEF S
    <3> QED
      BY <2>1, <3>1, LeastNatural
  <2>3. k \in Nat /\ k >= 1 /\ k <= MaxPoints + 1 /\ (k = MaxPoints + 1 \/ ps[k] = ZeroPoint)
    BY <2>1, <2>2, <1>0
  <2>4. \A i \in 1..k - 1 : ps[i] # ZeroPoint
    <3> SUFFICES ASSUME NEW i \in 1..k - 1, ps[i] = ZeroPoint PROVE FALSE
      OBVIOUS
    <3>1. i \in S /\ i < k
      BY <2>3
    <3> QED
      BY <2>2, <2>3, <3>1
  <2>5. PointsEnd(ps, k - 1)
    BY <2>3, <2>4, <1>0 DEF PointsEnd
  <2> QED
    BY <2>5
<1>2. ASSUME NEW n, NEW m, PointsEnd(ps, n), PointsEnd(ps, m) PROVE n = m
  <2>1. n \in Nat /\ m \in Nat /\ n <= MaxPoints /\ m <= MaxPoints
    BY <1>2, <1>0 DEF PointsEnd
  <2>2. ~(n < m)
    <3> SUFFICES ASSUME n < m PROVE FALSE
      OBVIOUS
    <3>1. n + 1 \in 1..m /\ n # MaxPoints
      BY <2>1, <1>0
    <3> QED
      BY <1>2, <3>1 DEF PointsEnd
  <2>3. ~(m < n)
    <3> SUFFICES ASSUME m < n PROVE FALSE
      OBVIOUS
    <3>1. m + 1 \in 1..n /\ m # MaxPoints
      BY <2>1, <1>0
    <3> QED
      BY <1>2, <3>1 DEF PointsEnd
  <2> QED
    BY <2>1, <2>2, <2>3
<1>3. PointCount(ps) = CHOOSE n : PointsEnd(ps, n)
  BY DEF PointCount, PointsEnd
<1>4. PointsEnd(ps, PointCount(ps))
  BY <1>1, <1>3, Zenon
<1> QED
  BY <1>2, <1>4

Curve(ps, n) ==
    /\ \A i \in 1..n : PointValid(ps[i])
    /\ \A i \in 2..n : ps[i - 1][1] < ps[i][1]
Padded(ps, n) == [i \in 1..MaxPoints |-> IF i <= n THEN ps[i] ELSE ZeroPoint]

\* A valid point is not the all-zero pair that ends a curve.
LEMMA ValidPoint == \A q : PointValid(q) => q # ZeroPoint
<1>1. ZeroPoint[1] = 0
  BY DEF ZeroPoint
<1> QED
  BY <1>1 DEF PointValid

\* The first points of a curve.
LEMMA CurveCut ==
  ASSUME NEW ps \in [1..MaxPoints -> Int \X Int], NEW n \in 0..MaxPoints, NEW s, s = SubSeq(ps, 1, n)
  PROVE  s \in Seq(Int \X Int) /\ Len(s) = n /\ \A i \in 1..n : s[i] = ps[i]
<1>0. MaxPoints \in Nat
  BY WireAssumption
<1>1. ps \in Seq(Int \X Int) /\ Len(ps) = MaxPoints
  BY <1>0
<1> QED
  BY <1>0, <1>1, SubSeqProperties

\* Two curves with the same points are the same.
LEMMA SameCurve ==
  ASSUME NEW n \in Nat, NEW a, NEW b, \A i \in 1..n : a[i] = b[i], Curve(a, n)
  PROVE  Curve(b, n)
<1>1. \A i \in 1..n : PointValid(b[i])
  BY DEF Curve
<1>2. ASSUME NEW i \in 2..n PROVE b[i - 1][1] < b[i][1]
  <2>1. i \in 1..n /\ i - 1 \in 1..n
    OBVIOUS
  <2>2. a[i] = b[i] /\ a[i - 1] = b[i - 1]
    BY <2>1
  <2>3. a[i - 1][1] < a[i][1]
    BY DEF Curve
  <2> QED
    BY <2>2, <2>3
<1> QED
  BY <1>1, <1>2 DEF Curve

\* An equaliser curve is carried faithfully, and read stably.
LEMMA EqVisualAgrees == Agree("EqVisual")
<1> DEFINE K == "EqVisual"
           V == [sequence : Nat, source : Nat, points : [1..MaxPoints -> Int \X Int]]
           N(v) == PointCount(v.points)
           ok(v) == /\ v.sequence # 0 /\ v.source \in {1, 2} /\ Curve(v.points, N(v))
                    /\ \A i \in N(v) + 1..MaxPoints : v.points[i] = ZeroPoint
                    /\ N(v) >= MinPoints
           W(v) == [size |-> 10 + 16 * N(v), sequence |-> v.sequence, source |-> v.source,
                    count |-> N(v), points |-> SubSeq(v.points, 1, N(v))]
<1>0. MaxPoints \in Nat /\ MinPoints \in Nat /\ ZeroPoint \in Int \X Int
  BY WireAssumption DEF ZeroPoint
<1>1. ValueType(K) = V /\ WireType(K) = CurvePayload /\ K \notin LaxReaders
  BY ValueTypes, WireTypes DEF LaxReaders
<1>2. ASSUME NEW v \in V
      PROVE  /\ Meaning(K, v) = v /\ v # Refused /\ v.points \in [1..MaxPoints -> Int \X Int]
             /\ v = [sequence |-> v.sequence, source |-> v.source, points |-> v.points]
             /\ v.sequence \in Nat /\ v.source \in Nat
             /\ Encode(K, v) = IF ok(v) THEN W(v) ELSE Refused
  <2>1. Meaning(K, v) = v
    BY Meanings
  <2>2. Encode(K, v) = IF ok(v) THEN W(v) ELSE Refused
    BY Writers DEF encode_eq_visual_snapshot, Curve
  <2> QED
    BY <2>1, <2>2 DEF Refused
<1>3. ASSUME NEW v \in V PROVE Faithful(K, v)
  <2> DEFINE w == Encode(K, v)
             n == N(v)
             s == SubSeq(v.points, 1, n)
  <2>1. CASE ~ok(v)
    BY <1>2, <2>1, NotWritten
  <2>2. CASE ok(v)
    <3>1. w = [size |-> 10 + 16 * n, sequence |-> v.sequence, source |-> v.source, count |-> n, points |-> s]
      BY <1>2, <2>2
    <3>2. n \in 0..MaxPoints /\ n >= MinPoints /\ Curve(v.points, n) /\ v.sequence # 0 /\ v.source \in {1, 2}
          /\ \A i \in n + 1..MaxPoints : v.points[i] = ZeroPoint
      BY <2>2, PointCountIs DEF PointsEnd
    <3> HIDE DEF n
    <3>3. s \in Seq(Int \X Int) /\ Len(s) = n /\ \A i \in 1..n : s[i] = v.points[i]
      <4>1. s = SubSeq(v.points, 1, n) /\ n \in 0..MaxPoints /\ v.points \in [1..MaxPoints -> Int \X Int]
        BY <1>2, <3>2
      <4> QED
        BY ONLY <4>1, CurveCut
    <3> HIDE DEF s, w, V, W, N, ok
    <3>4. /\ w.size = 10 + 16 * n /\ w.sequence = v.sequence /\ w.source = v.source /\ w.count = n /\ w.points = s
          /\ w # Refused
      BY <3>1 DEF Refused
    <3>5. w \in CurvePayload
      BY <1>0, <1>2, <3>1, <3>2, <3>3, <3>4 DEF CurvePayload
    <3>6. Curve(s, n)
      <4>1. n \in Nat /\ Curve(v.points, n) /\ \A i \in 1..n : v.points[i] = s[i]
        BY <1>0, <3>2, <3>3
      <4> QED
        BY ONLY <4>1, SameCurve
    <3>7. Padded(s, n) = v.points
      <4>1. \A i \in 1..MaxPoints : (IF i <= n THEN s[i] ELSE ZeroPoint) = v.points[i]
        BY <1>0, <3>2, <3>3
      <4>2. v.points = [i \in 1..MaxPoints |-> v.points[i]]
        BY <1>2
      <4> QED
        BY <4>1, <4>2, Zenon DEF Padded
    <3>8. decode_eq_visual_snapshot(w) = [sequence |-> v.sequence, source |-> v.source, points |-> Padded(s, n)]
      BY <1>0, <3>2, <3>4, <3>6 DEF decode_eq_visual_snapshot, Curve, Padded
    <3>9. Decode(K, w) = v
      BY <1>2, <3>7, <3>8, Readers
    <3>10. ~EncoderRefused(K, w)
      BY <3>4, Refusals
    <3>11. Meaning(K, v) = v /\ v # Refused /\ w \in WireType(K)
      BY <1>1, <1>2, <3>5
    <3> HIDE DEF K
    <3> QED
      BY <3>9, <3>10, <3>11, WrittenAndRead, Zenon DEF w
  <2> QED
    BY <2>1, <2>2
<1>4. ASSUME NEW p \in WireType(K) PROVE Stable(K, p)
  <2> DEFINE r == Decode(K, p)
  <2>1. CASE r = Refused
    BY <2>1, NotRead
  <2>2. CASE r # Refused
    <3> DEFINE n == p.count
               q == Padded(p.points, n)
    <3>1. /\ r = [sequence |-> p.sequence, source |-> p.source, points |-> q]
          /\ p.size <= 10 + 16 * MaxPoints /\ p.size = 10 + 16 * n /\ p.sequence # 0 /\ p.source \in {1, 2}
          /\ n >= MinPoints /\ Curve(p.points, n)
      BY <2>2, Readers DEF decode_eq_visual_snapshot, Curve, Padded
    <3>2. /\ p = [size |-> p.size, sequence |-> p.sequence, source |-> p.source, count |-> n, points |-> p.points]
          /\ p.sequence \in Nat /\ p.source \in Nat /\ n \in Nat /\ p.points \in Seq(Int \X Int) /\ n = Len(p.points)
      BY <1>1 DEF CurvePayload
    <3> HIDE DEF n, q
    <3>3. n \in 0..MaxPoints
      BY <1>0, <3>1, <3>2
    <3>4. /\ q \in [1..MaxPoints -> Int \X Int]
          /\ \A i \in 1..MaxPoints : q[i] = IF i <= n THEN p.points[i] ELSE ZeroPoint
      <4>1. q = [i \in 1..MaxPoints |-> IF i <= n THEN p.points[i] ELSE ZeroPoint]
        BY Zenon DEF q, Padded
      <4>2. \A i \in 1..n : p.points[i] \in Int \X Int
        BY <3>2
      <4> QED
        BY <1>0, <3>3, <4>1, <4>2
    <3>5. PointsEnd(q, n)
      <4>1. \A i \in 1..n : q[i] # ZeroPoint
        <5>1. \A i \in 1..n : i \in 1..MaxPoints /\ q[i] = p.points[i]
          BY <1>0, <3>3, <3>4
        <5>2. \A i \in 1..n : PointValid(p.points[i])
          BY <3>1 DEF Curve
        <5> QED
          BY ONLY <5>1, <5>2, ValidPoint
      <4>2. n = MaxPoints \/ q[n + 1] = ZeroPoint
        BY <1>0, <3>3, <3>4
      <4> QED
        BY <3>3, <4>1, <4>2 DEF PointsEnd
    <3>6. n = PointCount(q)
      BY <3>5, PointCountIs
    <3>7. SubSeq(q, 1, n) = p.points
      <4> DEFINE s == SubSeq(q, 1, n)
      <4>1. s \in Seq(Int \X Int) /\ Len(s) = n /\ \A i \in 1..n : s[i] = q[i]
        BY <3>3, <3>4, CurveCut, ZenonT(40)
      <4> HIDE DEF s
      <4>2. \A i \in 1..n : s[i] = p.points[i]
        BY <1>0, <3>3, <3>4, <4>1, SMTT(40)
      <4>3. s = [i \in 1..n |-> s[i]] /\ p.points = [i \in 1..n |-> p.points[i]]
        BY <3>2, <4>1
      <4>4. s = p.points
        BY <4>2, <4>3, Zenon
      <4> QED
        BY <4>4 DEF s
    <3>8. r.sequence = p.sequence /\ r.source = p.source /\ r.points = q /\ r \in V
      BY <3>1, <3>2, <3>4
    <3> HIDE DEF r
    <3>9. Curve(q, n)
      <4>1. \A i \in 1..n : p.points[i] = q[i]
        BY <1>0, <3>3, <3>4
      <4>2. n \in Nat
        BY <3>2
      <4>3. Curve(p.points, n)
        BY <3>1
      <4> QED
        BY ONLY <4>1, <4>2, <4>3, SameCurve
    <3>10. ok(r)
      <4>1. N(r) = n /\ r.points = q
        BY <3>6, <3>8
      <4>2. n >= MinPoints /\ r.sequence # 0 /\ r.source \in {1, 2}
        BY <3>1, <3>8
      <4>3. \A i \in n + 1..MaxPoints : q[i] = ZeroPoint
        BY <1>0, <3>3, <3>4
      <4> HIDE DEF N
      <4> QED
        BY <3>9, <4>1, <4>2, <4>3
    <3>11. W(r) = p
      BY <3>1, <3>2, <3>6, <3>7, <3>8
    <3> HIDE DEF ok, W, N, V
    <3>12. Encode(K, r) = p
      BY <1>2, <3>8, <3>10, <3>11
    <3> QED
      BY <1>1, <3>12, ReadAndWritten DEF r
  <2> QED
    BY <2>1, <2>2
<1> QED
  BY <1>1, <1>3, <1>4 DEF Agree

\* A route rule whose texts are cleaned one by one.
RuleFields ==
    [schema : Nat, operation : Nat, enabled : Nat, owner : Nat, sequence : Nat, makeup : Int,
     rule : TextField, app : TextField, name : TextField, lane : TextField, group : TextField]
RuleShape(c) ==
    CASE c.operation = Upsert ->
           /\ GoodText(c.rule) /\ GoodText(c.lane) /\ GoodText(c.group)
           /\ GoodText(c.app) \/ GoodText(c.name)
      [] c.operation = Remove ->
           GoodText(c.rule) /\ \A t \in RuleTexts \ {"rule"} : c[t].n = 0
      [] OTHER -> \A t \in RuleTexts : c[t].n = 0
RuleValid(c) ==
    /\ c.schema = 1 /\ c.sequence # 0 /\ c.operation \in {Upsert, Remove, Clear}
    /\ c.enabled <= 1 /\ c.owner \in {0, 1}
    /\ c.makeup \in -144 * QuantaPerDb..12 * QuantaPerDb
    /\ \A t \in RuleTexts : c[t].n <= TextCap
ReadShape(c) ==
    CASE c.operation = Upsert ->
           /\ c.rule.n # 0 /\ c.lane.n # 0 /\ c.group.n # 0
           /\ c.app.n # 0 \/ c.name.n # 0
      [] c.operation = Remove ->
           c.rule.n # 0 /\ \A t \in RuleTexts \ {"rule"} : c[t].n = 0
      [] OTHER -> \A t \in RuleTexts : c[t].n = 0
RuleRead(c) ==
    /\ c.schema = 1 /\ c.operation \in {Upsert, Remove, Clear} /\ c.enabled <= 1
    /\ c.owner \in {0, 1} /\ c.sequence # 0
    /\ \A t \in RuleTexts : OptionalText(c[t])
    /\ c.makeup \in -144 * QuantaPerDb..12 * QuantaPerDb
    /\ ReadShape(c)
CleanRule(c) == [x \in DOMAIN c |-> IF x \in RuleTexts THEN Copied(c[x]) ELSE c[x]]
NoRule == [schema |-> 0, operation |-> 0, enabled |-> 0, owner |-> 0, sequence |-> 0, makeup |-> 0,
           rule |-> NoText, app |-> NoText, name |-> NoText, lane |-> NoText, group |-> NoText]

\* The texts of a rule that are carried as texts.
LEMMA RuleTextsOf ==
  ASSUME NEW c \in RuleFields
  PROVE  /\ \A t \in RuleTexts : c[t] \in TextField
         /\ CleanRule(c) = [schema |-> c.schema, operation |-> c.operation, enabled |-> c.enabled,
                            owner |-> c.owner, sequence |-> c.sequence, makeup |-> c.makeup,
                            rule |-> Copied(c.rule), app |-> Copied(c.app), name |-> Copied(c.name),
                            lane |-> Copied(c.lane), group |-> Copied(c.group)]
<1>1. DOMAIN c = {"schema", "operation", "enabled", "owner", "sequence", "makeup",
                  "rule", "app", "name", "lane", "group"}
  BY DEF RuleFields
<1>2. /\ c.rule \in TextField /\ c.app \in TextField /\ c.name \in TextField
      /\ c.lane \in TextField /\ c.group \in TextField
  BY DEF RuleFields
<1> QED
  BY <1>1, <1>2 DEF CleanRule, RuleTexts

\* A rule whose texts are copied is one that decodes.
LEMMA RuleCleaned ==
  ASSUME NEW c \in RuleFields, NEW m, m = CleanRule(c)
  PROVE  /\ m \in RuleFields /\ m.sequence = c.sequence
         /\ (\A t \in RuleTexts : OptionalText(c[t])) => m = c
<1> DEFINE a == Copied(c.rule)
           b == Copied(c.app)
           d == Copied(c.name)
           e == Copied(c.lane)
           f == Copied(c.group)
<1>1. /\ c.rule \in TextField /\ c.app \in TextField /\ c.name \in TextField
      /\ c.lane \in TextField /\ c.group \in TextField
      /\ c.schema \in Nat /\ c.operation \in Nat /\ c.enabled \in Nat /\ c.owner \in Nat /\ c.sequence \in Nat
      /\ c.makeup \in Int
      /\ c = [schema |-> c.schema, operation |-> c.operation, enabled |-> c.enabled,
              owner |-> c.owner, sequence |-> c.sequence, makeup |-> c.makeup,
              rule |-> c.rule, app |-> c.app, name |-> c.name, lane |-> c.lane, group |-> c.group]
  BY DEF RuleFields
<1>2. a \in TextField /\ b \in TextField /\ d \in TextField /\ e \in TextField /\ f \in TextField
  BY <1>1, CopiedText
<1>3. m = [schema |-> c.schema, operation |-> c.operation, enabled |-> c.enabled,
           owner |-> c.owner, sequence |-> c.sequence, makeup |-> c.makeup,
           rule |-> a, app |-> b, name |-> d, lane |-> e, group |-> f]
  BY RuleTextsOf
<1>4. (\A t \in RuleTexts : OptionalText(c[t])) => a = c.rule /\ b = c.app /\ d = c.name /\ e = c.lane /\ f = c.group
  BY <1>1, OptionalCopied DEF RuleTexts
<1> HIDE DEF a, b, d, e, f
<1>5. m \in RuleFields
  BY <1>1, <1>2, <1>3 DEF RuleFields
<1> QED
  BY <1>1, <1>3, <1>4, <1>5

\* A rule that decodes is copied as it is.
LEMMA RuleReadBack ==
  ASSUME NEW c \in RuleFields, RuleRead(c)
  PROVE  RuleValid(c) /\ RuleShape(c) /\ CleanRule(c) = c
<1>1. \A t \in RuleTexts : c[t] \in TextField /\ OptionalText(c[t])
  BY RuleTextsOf DEF RuleRead
<1>2. \A t \in RuleTexts : c[t].n <= TextCap /\ (c[t].n # 0 => GoodText(c[t]))
  BY <1>1, OptionalCopied, PaddedCopied
<1>3. RuleValid(c)
  BY <1>2 DEF RuleRead, RuleValid
<1>4. /\ c.rule.n # 0 => GoodText(c.rule)
      /\ c.app.n # 0 => GoodText(c.app)
      /\ c.name.n # 0 => GoodText(c.name)
      /\ c.lane.n # 0 => GoodText(c.lane)
      /\ c.group.n # 0 => GoodText(c.group)
  BY <1>2 DEF RuleTexts
<1>5. RuleShape(c)
  BY <1>4 DEF RuleRead, ReadShape, RuleShape
<1>6. CleanRule(c) = c
  BY <1>1, RuleCleaned
<1> QED
  BY <1>3, <1>5, <1>6

\* A session route rule is carried faithfully, and read stably.
LEMMA RouteRuleAgrees == Agree("RouteRule")
<1> DEFINE K == "RouteRule"
           F == RuleFields
           Ok == {c \in F : RuleValid(c) /\ RuleShape(c)}
           Good == {c \in F : RuleRead(c)}
           z == NoRule
<1>1. /\ ValueType(K) = F /\ WireType(K) = WirePayload(F)
      /\ K \in CommandKinds /\ K \notin LaxReaders /\ K \in LaxWriters
  BY ValueTypes, WireTypes, Fields DEF CommandKinds, LaxReaders, LaxWriters, RuleFields
<1>2. Refused \notin F /\ z \in F /\ z \notin Good /\ z.sequence = 0
  BY Empty DEF Refused, RuleFields, NoRule, RuleRead
<1>3. \A v : Meaning(K, v) = CleanRule(v)
  BY Meanings DEF CleanRule
<1>4. ASSUME NEW v \in F
      PROVE  Encode(K, v) = IF v \in Ok THEN Payload(480, CleanRule(v)) ELSE Payload(480, z)
  <2>1. Encode(K, v) = encode_session_route_rule_command(v)
    BY Writers
  <2>2. encode_session_route_rule_command(v) =
          Payload(480, [x \in DOMAIN v |->
             IF ~(RuleValid(v) /\ RuleShape(v)) THEN IF x \in RuleTexts THEN NoText ELSE 0
             ELSE IF x \in RuleTexts THEN Copied(v[x]) ELSE v[x]])
    BY Zenon DEF encode_session_route_rule_command, RuleValid, RuleShape
  <2>3. CASE RuleValid(v) /\ RuleShape(v)
    BY <2>1, <2>2, <2>3 DEF CleanRule
  <2>4. CASE ~(RuleValid(v) /\ RuleShape(v))
    <3>1. [x \in DOMAIN v |-> IF x \in RuleTexts THEN NoText ELSE 0] = z
      BY DEF NoRule, RuleTexts, RuleFields
    <3> QED
      BY <2>1, <2>2, <2>4, <3>1
  <2> QED
    BY <2>3, <2>4
<1>5. ASSUME NEW p \in WirePayload(F)
      PROVE  DecodePayload(MessageType[K], p) =
                IF p.size = 480 /\ p.reservedZero /\ p.f \in Good THEN p.f ELSE Refused
  <2>1. p.f \in F
    BY Unpacked
  <2>2. decode_session_route_rule_command(p) =
           IF p.size = 480 /\ p.reservedZero /\ RuleRead(p.f) THEN p.f ELSE Refused
    BY ZenonT(40) DEF decode_session_route_rule_command, RuleRead, ReadShape
  <2> QED
    BY <2>1, <2>2, CommandReaders
<1>6. \A f : EncoderRefused(K, Payload(480, f)) <=> f.sequence = 0
  BY Written, Refusals
<1>7. \A v \in Ok : CleanRule(v) \in F /\ CleanRule(v).sequence # 0
  BY RuleCleaned DEF RuleValid
<1>8. \A v \in Good : v \in Ok /\ CleanRule(v) = v
  BY RuleReadBack
<1>9. Good \subseteq F
  OBVIOUS
<1> HIDE DEF F, Ok, Good, z, K
<1>10. 480 \in Nat /\ 480 <= 4096 /\ \A f \in F : Payload(480, f) \in WirePayload(F)
  BY Packed
<1>11. CommandForm(K, 480, F, Ok, Good, Payload(480, z))
  BY <1>1, <1>2, <1>3, <1>4, <1>5, <1>6, <1>7, <1>8, <1>9, <1>10 DEF CommandForm
<1> QED
  BY <1>11, CommandAgrees DEF K

-------------------------------------------------------------------------------
(* Scene catalog commands.                                                    *)

Lane == [id : TextField, group : TextField, channels : Nat, makeup : Int,
         enabled : Nat, matrix : Nat, tail : Nat]
Lanes == [1..MaxLanes -> Lane]
Timeline == [1..MaxTimeline -> FieldBody]
Policies == [1..7 -> Int]

\* The command c with other texts, policies, timeline and lanes.
Scene(c, schema, id, name, group, ir, anchor, policies, timeline, lanes) ==
    [schema |-> schema, operation |-> c.operation, latency |-> c.latency, irPhase |-> c.irPhase,
     loudness |-> c.loudness, policies |-> policies, autoAttenuate |-> c.autoAttenuate,
     strictDirect |-> c.strictDirect, calibrated |-> c.calibrated, liveUpdate |-> c.liveUpdate,
     channels |-> c.channels, standard |-> c.standard, laneCount |-> c.laneCount,
     timelineCount |-> c.timelineCount, id |-> id, name |-> name, group |-> group, ir |-> ir,
     anchor |-> anchor, timeline |-> timeline, lanes |-> lanes]
SceneDomain ==
    {"schema", "operation", "latency", "irPhase", "loudness", "policies", "autoAttenuate",
     "strictDirect", "calibrated", "liveUpdate", "channels", "standard", "laneCount",
     "timelineCount", "id", "name", "group", "ir", "anchor", "timeline", "lanes"}
SameSettings(a, b) ==
    /\ a.operation = b.operation /\ a.latency = b.latency /\ a.irPhase = b.irPhase
    /\ a.loudness = b.loudness /\ a.autoAttenuate = b.autoAttenuate
    /\ a.strictDirect = b.strictDirect /\ a.calibrated = b.calibrated
    /\ a.liveUpdate = b.liveUpdate /\ a.channels = b.channels /\ a.standard = b.standard
    /\ a.laneCount = b.laneCount /\ a.timelineCount = b.timelineCount

\* The fields of a scene command.
LEMMA SceneIs ==
  ASSUME NEW c \in SceneCommand
  PROVE  /\ DOMAIN c = SceneDomain
         /\ c = Scene(c, c.schema, c.id, c.name, c.group, c.ir, c.anchor, c.policies, c.timeline, c.lanes)
         /\ c.id \in TextField /\ c.name \in TextField /\ c.group \in TextField /\ c.ir \in TextField
         /\ c.anchor \in TextField /\ c.policies \in Policies /\ c.timeline \in Timeline /\ c.lanes \in Lanes
         /\ c.schema \in Nat /\ c.laneCount \in Nat /\ c.timelineCount \in Nat /\ c # Refused
<1>1. DOMAIN c = SceneDomain
  BY DEF SceneCommand, SceneDomain
<1>2. c = Scene(c, c.schema, c.id, c.name, c.group, c.ir, c.anchor, c.policies, c.timeline, c.lanes)
  BY DEF SceneCommand, Scene
<1>3. /\ c.id \in TextField /\ c.name \in TextField /\ c.group \in TextField /\ c.ir \in TextField
      /\ c.anchor \in TextField /\ c.policies \in Policies /\ c.timeline \in Timeline /\ c.lanes \in Lanes
      /\ c.schema \in Nat /\ c.laneCount \in Nat /\ c.timelineCount \in Nat
  BY DEF SceneCommand, Lanes, Lane, Timeline, Policies
<1>4. c # Refused
  <2>1. DOMAIN Refused = {"refused"}
    BY DEF Refused
  <2>2. "id" \in SceneDomain
    BY DEF SceneDomain
  <2> QED
    BY <1>1, <2>1, <2>2
<1> QED
  BY <1>1, <1>2, <1>3, <1>4, Zenon

\* Every field of a scene command but the settings it keeps.
HasParts(d, c, schema, id, name, group, ir, anchor, policies, timeline, lanes) ==
    /\ d \in SceneCommand /\ SameSettings(d, c)
    /\ d.schema = schema /\ d.id = id /\ d.name = name /\ d.group = group /\ d.ir = ir /\ d.anchor = anchor
    /\ d.policies = policies /\ d.timeline = timeline /\ d.lanes = lanes

\* A scene command with other parts has those parts, and its settings.
LEMMA SceneOf ==
  ASSUME NEW c \in SceneCommand, NEW schema \in Nat, NEW id \in TextField, NEW name \in TextField,
         NEW group \in TextField, NEW ir \in TextField, NEW anchor \in TextField,
         NEW policies \in Policies, NEW timeline \in Timeline, NEW lanes \in Lanes,
         NEW d, d = Scene(c, schema, id, name, group, ir, anchor, policies, timeline, lanes)
  PROVE  HasParts(d, c, schema, id, name, group, ir, anchor, policies, timeline, lanes)
BY DEF HasParts, SceneCommand, Scene, SameSettings, Lanes, Lane, Timeline, Policies

\* Two scene commands with the same fields are the same.
LEMMA SameScene ==
  ASSUME NEW a, NEW b, SameSettings(a, b), NEW schema, NEW id, NEW name, NEW group, NEW ir, NEW anchor,
         NEW policies, NEW timeline, NEW lanes
  PROVE  Scene(a, schema, id, name, group, ir, anchor, policies, timeline, lanes)
           = Scene(b, schema, id, name, group, ir, anchor, policies, timeline, lanes)
BY DEF SameSettings, Scene

\* A lane on the wire, and read back.
LEMMA LaneCarried ==
  ASSUME NEW l \in Lane
  PROVE  /\ WrittenLane(l) \in Lane /\ WrittenLane(l).tail = 0 /\ (LaneValid(l) => LaneValid(WrittenLane(l)))
         /\ ReadLane(l) \in Lane /\ ReadLane(l).tail = l.tail /\ (LaneValid(l) => LaneValid(ReadLane(l)))
         /\ l.tail = 0 => ReadLane(WrittenLane(l)) = MeantLane(l)
<1> DEFINE a == db_to_q16_16(l.makeup)
           b == q16_16_to_db(l.makeup)
           q == Quantised(l.makeup)
           w == WrittenLane(l)
           r == ReadLane(l)
<1>0. l.makeup \in Int
  BY DEF Lane
<1>1. a \in Int /\ b \in Int /\ q16_16_to_db(a) = q
  BY <1>0, DbWritten, RangeOfDecibels DEF InRaw, Quantised
<1>2. w = [l EXCEPT !.makeup = a, !.tail = 0]
  BY Zenon DEF WrittenLane
<1>3. r = [l EXCEPT !.makeup = b]
  BY Zenon DEF ReadLane
<1>4. MeantLane(l) = [l EXCEPT !.makeup = q]
  BY Zenon DEF MeantLane
<1>5. ReadLane(w) = [w EXCEPT !.makeup = q16_16_to_db(w.makeup)]
  BY Zenon DEF ReadLane
<1> HIDE DEF a, b, q, w, r
<1>6. w = [id |-> l.id, group |-> l.group, channels |-> l.channels, makeup |-> a, enabled |-> l.enabled,
           matrix |-> l.matrix, tail |-> 0]
  BY <1>2 DEF Lane
<1>7. /\ r = [id |-> l.id, group |-> l.group, channels |-> l.channels, makeup |-> b, enabled |-> l.enabled,
              matrix |-> l.matrix, tail |-> l.tail]
      /\ l.id \in TextField /\ l.group \in TextField /\ l.channels \in Nat /\ l.enabled \in Nat
      /\ l.matrix \in Nat /\ l.tail \in Nat
  BY <1>3 DEF Lane
<1>8. MeantLane(l) = [id |-> l.id, group |-> l.group, channels |-> l.channels, makeup |-> q, enabled |-> l.enabled,
                     matrix |-> l.matrix, tail |-> l.tail]
  BY <1>4 DEF Lane
<1>9. ReadLane(w) = [id |-> l.id, group |-> l.group, channels |-> l.channels, makeup |-> q, enabled |-> l.enabled,
                     matrix |-> l.matrix, tail |-> 0]
  BY <1>1, <1>5, <1>6
<1>10. w \in Lane /\ w.tail = 0 /\ r \in Lane /\ r.tail = l.tail
  BY <1>1, <1>6, <1>7 DEF Lane
<1>11. LaneValid(l) => LaneValid(w) /\ LaneValid(r)
  BY <1>6, <1>7 DEF LaneValid
<1> QED
  BY <1>8, <1>9, <1>10, <1>11 DEF w, r

\* The lane that stands for none.
LEMMA NoLaneIs == NoLane \in Lane /\ NoLane.tail = 0
BY Empty DEF NoLane, Lane

\* The entries of a timeline: cut at their NUL, cleared behind the count.
CutTimeline(t, n) == [i \in 1..MaxTimeline |-> IF i <= n THEN UpToNul(t[i]) ELSE ZeroBytes]
AllCut(t) == [i \in 1..MaxTimeline |-> UpToNul(t[i])]
TimelineOk(t, n) ==
    \A i \in 1..MaxTimeline :
        IF i <= n
        THEN /\ NulLength(t[i]) \in 1..TextCap - 1
             /\ is_printable_utf8(SubSeq(t[i], 1, NulLength(t[i])))
        ELSE NulLength(t[i]) = 0

\* A body of zeros is one, and is cut as it is.
LEMMA ZeroBytesAre ==
  /\ ZeroBytes \in FieldBody /\ NulLength(ZeroBytes) = 0 /\ UpToNul(ZeroBytes) = ZeroBytes
  /\ \A b \in FieldBody : NulLength(b) = 0 => UpToNul(b) = ZeroBytes
<1>1. ZeroBytes \in FieldBody /\ \A i \in 1..TextCap : ZeroBytes[i] = 0
  BY Sizes DEF ZeroBytes, FieldBody, Byte
<1>2. NulAt(ZeroBytes, 0)
  BY <1>1, Sizes DEF NulAt
<1>3. NulLength(ZeroBytes) = 0
  BY <1>1, <1>2, NulLengthIs, Zenon
<1>4. ASSUME NEW b \in FieldBody, NulLength(b) = 0 PROVE UpToNul(b) = ZeroBytes
  <2>1. \A i \in 1..TextCap : (IF i <= NulLength(b) THEN b[i] ELSE 0) = 0
    BY <1>4, Sizes
  <2> QED
    BY <2>1, Zenon DEF UpToNul, ZeroBytes
<1> QED
  BY <1>1, <1>3, <1>4

\* Cutting an entry at its NUL keeps what is before it.
LEMMA CutBody ==
  ASSUME NEW b \in FieldBody
  PROVE  SubSeq(UpToNul(b), 1, NulLength(b)) = SubSeq(b, 1, NulLength(b))
<1> DEFINE u == UpToNul(b)
           n == NulLength(b)
<1>1. u \in FieldBody /\ n \in 0..TextCap /\ \A i \in 1..TextCap : u[i] = IF i <= n THEN b[i] ELSE 0
  BY UpToNulIs, Zenon
<1> HIDE DEF u, n
<1>2. u \in Seq(Byte) /\ Len(u) = TextCap /\ b \in Seq(Byte) /\ Len(b) = TextCap
  BY <1>1, Sizes DEF FieldBody
<1>3. n \in Nat /\ n <= TextCap
  BY <1>1, Sizes
<1>4. SubSeq(u, 1, n) = [i \in 1..n |-> u[i]] /\ SubSeq(b, 1, n) = [i \in 1..n |-> b[i]]
  BY <1>2, <1>3, Sizes, SubSeqProperties
<1>5. \A i \in 1..n : u[i] = b[i]
  BY <1>1, <1>3, Sizes
<1>6. SubSeq(u, 1, n) = SubSeq(b, 1, n)
  BY <1>4, <1>5, Zenon
<1> QED
  BY <1>6 DEF u, n

\* A timeline that is cut is one its reader takes.
LEMMA TimelineCut ==
  ASSUME NEW t \in Timeline, NEW n \in Nat
  PROVE  /\ CutTimeline(t, n) \in Timeline /\ AllCut(t) \in Timeline
         /\ AllCut(CutTimeline(t, n)) = CutTimeline(t, n)
         /\ TimelineOk(t, n) => /\ CutTimeline(t, n) = AllCut(t)
                                /\ TimelineOk(AllCut(t), n)
<1>0. \A i \in 1..MaxTimeline : t[i] \in FieldBody
  BY DEF Timeline
<1>1. /\ \A i \in 1..MaxTimeline : CutTimeline(t, n)[i] = IF i <= n THEN UpToNul(t[i]) ELSE ZeroBytes
      /\ \A i \in 1..MaxTimeline : AllCut(t)[i] = UpToNul(t[i])
  BY DEF CutTimeline, AllCut
<1>2. \A i \in 1..MaxTimeline : UpToNul(t[i]) \in FieldBody
  BY <1>0, UpToNulIs
<1>3. CutTimeline(t, n) \in Timeline /\ AllCut(t) \in Timeline
  BY <1>2, ZeroBytesAre DEF Timeline, CutTimeline, AllCut
<1>4. AllCut(CutTimeline(t, n)) = CutTimeline(t, n)
  <2>1. \A i \in 1..MaxTimeline : UpToNul(CutTimeline(t, n)[i]) = IF i <= n THEN UpToNul(t[i]) ELSE ZeroBytes
    BY <1>0, <1>1, UpToNulIs, ZeroBytesAre
  <2>2. AllCut(CutTimeline(t, n)) = [i \in 1..MaxTimeline |-> UpToNul(CutTimeline(t, n)[i])]
    BY Zenon DEF AllCut
  <2> QED
    BY <2>1, <2>2, Zenon DEF CutTimeline
<1>5. ASSUME TimelineOk(t, n) PROVE CutTimeline(t, n) = AllCut(t) /\ TimelineOk(AllCut(t), n)
  <2>1. \A i \in 1..MaxTimeline : ~(i <= n) => UpToNul(t[i]) = ZeroBytes
    BY <1>0, <1>5, ZeroBytesAre DEF TimelineOk
  <2>2. \A i \in 1..MaxTimeline : (IF i <= n THEN UpToNul(t[i]) ELSE ZeroBytes) = UpToNul(t[i])
    BY <2>1
  <2>3. CutTimeline(t, n) = AllCut(t)
    BY <2>2, Zenon DEF CutTimeline, AllCut
  <2>4. ASSUME NEW i \in 1..MaxTimeline
        PROVE  IF i <= n
               THEN /\ NulLength(AllCut(t)[i]) \in 1..TextCap - 1
                    /\ is_printable_utf8(SubSeq(AllCut(t)[i], 1, NulLength(AllCut(t)[i])))
               ELSE NulLength(AllCut(t)[i]) = 0
    <3>1. AllCut(t)[i] = UpToNul(t[i]) /\ NulLength(UpToNul(t[i])) = NulLength(t[i])
      BY <1>0, <1>1, UpToNulIs
    <3>2. SubSeq(UpToNul(t[i]), 1, NulLength(t[i])) = SubSeq(t[i], 1, NulLength(t[i]))
      BY <1>0, CutBody
    <3> QED
      BY <1>5, <3>1, <3>2 DEF TimelineOk
  <2> QED
    BY <2>3, <2>4 DEF TimelineOk
<1> QED
  BY <1>3, <1>4, <1>5

\* What the writer checks and what it puts into each field.
UpsertOk(c) ==
    /\ CountsValid(c) /\ TimelineValid(c)
    /\ \A t \in {"id", "name", "group"} : PaddedText(c[t])
    /\ \A t \in {"ir", "anchor"} : c[t].n = 0 \/ PaddedText(c[t])
    /\ \A i \in 1..c.laneCount : LaneValid(c.lanes[i])
SceneOk(c) ==
    CASE c.operation = Clear ->
           c.laneCount = 0 /\ c.timelineCount = 0 /\ \A t \in SceneTexts : c[t].n = 0
      [] c.operation = Remove ->
           /\ c.laneCount = 0 /\ c.timelineCount = 0 /\ PaddedText(c.id)
           /\ \A t \in SceneTexts \ {"id"} : c[t].n = 0
      [] OTHER -> UpsertOk(c)
WrittenLanes(c) == [i \in 1..MaxLanes |-> IF i <= c.laneCount THEN WrittenLane(c.lanes[i]) ELSE NoLane]
ReadLanes(c) == [i \in 1..MaxLanes |-> IF i <= c.laneCount THEN ReadLane(c.lanes[i]) ELSE NoLane]
MeantLanes(c) == [i \in 1..MaxLanes |-> IF i <= c.laneCount THEN MeantLane(c.lanes[i]) ELSE NoLane]
SceneField(c, x) ==
    LET upsert == c.operation = Upsert
    IN  CASE x = "operation" -> c[x]
          [] x = "schema" -> 0
          [] x = "id" -> IF c.operation = Clear THEN NoText ELSE Copied(c[x])
          [] x \in SceneTexts \ {"id"} -> IF upsert THEN Copied(c[x]) ELSE NoText
          [] x = "policies" -> [k \in 1..7 |-> IF upsert THEN c.policies[k] ELSE 0]
          [] x = "timeline" -> [i \in 1..MaxTimeline |->
               IF upsert /\ i <= c.timelineCount
               THEN UpToNul(c.timeline[i]) ELSE ZeroBytes]
          [] x = "lanes" -> [i \in 1..MaxLanes |->
               IF upsert /\ i <= c.laneCount THEN WrittenLane(c.lanes[i]) ELSE NoLane]
          [] OTHER -> IF upsert THEN c[x] ELSE 0
SceneFields(c) == [x \in DOMAIN c |-> SceneField(c, x)]

\* What the writer of a scene command writes, operation by operation.
LEMMA SceneWriter ==
  ASSUME NEW c
  PROVE  Encode("SceneCatalog", c) =
           IF c.schema = 1 /\ c.operation \in {Upsert, Remove, Clear} /\ SceneOk(c)
           THEN Payload(3260, SceneFields(c)) ELSE Refused
<1>1. encode_scene_catalog_command(c) =
           IF c.schema = 1 /\ c.operation \in {Upsert, Remove, Clear} /\ SceneOk(c)
           THEN Payload(3260, SceneFields(c)) ELSE Refused
  BY DEF encode_scene_catalog_command, SceneOk, UpsertOk, SceneFields, SceneField
<1> QED
  BY <1>1, Writers

\* The operations are three numbers.
LEMMA Operations == Upsert = 1 /\ Remove = 2 /\ Clear = 3
BY DEF Upsert, Remove, Clear

\* The lanes of a scene command.
LEMMA LanesOf ==
  ASSUME NEW c \in SceneCommand
  PROVE  /\ WrittenLanes(c) \in Lanes /\ ReadLanes(c) \in Lanes
         /\ \A i \in 1..MaxLanes :
               /\ c.lanes[i] \in Lane
               /\ WrittenLanes(c)[i] = IF i <= c.laneCount THEN WrittenLane(c.lanes[i]) ELSE NoLane
               /\ ReadLanes(c)[i] = IF i <= c.laneCount THEN ReadLane(c.lanes[i]) ELSE NoLane
         /\ [i \in 1..MaxLanes |-> NoLane] \in Lanes
<1>1. \A i \in 1..MaxLanes : c.lanes[i] \in Lane
  <2>1. c.lanes \in Lanes
    BY SceneIs
  <2> QED
    BY <2>1 DEF Lanes
<1>2. \A i \in 1..MaxLanes : WrittenLane(c.lanes[i]) \in Lane /\ ReadLane(c.lanes[i]) \in Lane
  BY <1>1, LaneCarried
<1> QED
  BY <1>1, <1>2, NoLaneIs DEF WrittenLanes, ReadLanes, Lanes

\* What the writer puts into each field is a scene command.
LEMMA SceneFieldsOf ==
  ASSUME NEW c \in SceneCommand
  PROVE  /\ SceneFields(c) \in SceneCommand /\ SceneFields(c).operation = c.operation
         /\ c.operation = Remove => SceneFields(c).id = Copied(c.id)
<1> DEFINE f(x) == SceneField(c, x)
<1>1. f("operation") = c.operation /\ f("schema") = 0
  BY DEF SceneField, SceneTexts
<1>2. /\ f("id") = IF c.operation = Clear THEN NoText ELSE Copied(c.id)
      /\ f("name") = IF c.operation = Upsert THEN Copied(c.name) ELSE NoText
      /\ f("group") = IF c.operation = Upsert THEN Copied(c.group) ELSE NoText
      /\ f("ir") = IF c.operation = Upsert THEN Copied(c.ir) ELSE NoText
      /\ f("anchor") = IF c.operation = Upsert THEN Copied(c.anchor) ELSE NoText
  BY DEF SceneField, SceneTexts
<1>3. /\ f("id") \in TextField /\ f("name") \in TextField /\ f("group") \in TextField
      /\ f("ir") \in TextField /\ f("anchor") \in TextField
  BY <1>2, SceneIs, CopiedText, Empty
<1>4. f("policies") \in Policies
  <2>1. f("policies") = [k \in 1..7 |-> IF c.operation = Upsert THEN c.policies[k] ELSE 0]
    BY DEF SceneField, SceneTexts
  <2>2. \A k \in 1..7 : c.policies[k] \in Int
    BY SceneIs DEF Policies
  <2> HIDE DEF f
  <2> QED
    BY <2>1, <2>2 DEF Policies
<1>5. f("timeline") \in Timeline
  <2>1. f("timeline") = [i \in 1..MaxTimeline |->
               IF c.operation = Upsert /\ i <= c.timelineCount
               THEN UpToNul(c.timeline[i]) ELSE ZeroBytes]
    BY DEF SceneField, SceneTexts
  <2>2. \A i \in 1..MaxTimeline : UpToNul(c.timeline[i]) \in FieldBody
    BY SceneIs, UpToNulIs DEF Timeline
  <2> HIDE DEF f
  <2> QED
    BY <2>1, <2>2, ZeroBytesAre DEF Timeline
<1>6. f("lanes") \in Lanes
  <2>1. f("lanes") = [i \in 1..MaxLanes |->
               IF c.operation = Upsert /\ i <= c.laneCount THEN WrittenLane(c.lanes[i]) ELSE NoLane]
    BY DEF SceneField, SceneTexts
  <2>2. \A i \in 1..MaxLanes : WrittenLane(c.lanes[i]) \in Lane
    BY LanesOf, LaneCarried
  <2> HIDE DEF f
  <2> QED
    BY <2>1, <2>2, NoLaneIs DEF Lanes
<1>7. \A x \in {"latency", "irPhase", "loudness", "autoAttenuate", "strictDirect", "calibrated",
                "liveUpdate", "channels", "standard", "laneCount", "timelineCount"} :
         f(x) = IF c.operation = Upsert THEN c[x] ELSE 0
  BY DEF SceneField, SceneTexts
<1>8. \A x \in {"operation", "latency", "irPhase", "loudness", "autoAttenuate", "strictDirect", "calibrated",
                "liveUpdate", "channels", "standard", "laneCount", "timelineCount"} : c[x] \in Nat
  BY DEF SceneCommand
<1>9. SceneFields(c) = [x \in SceneDomain |-> f(x)]
  BY SceneIs, Zenon DEF SceneFields
<1> HIDE DEF f
<1>10. \A x \in {"schema", "operation", "latency", "irPhase", "loudness", "autoAttenuate", "strictDirect", "calibrated",
                "liveUpdate", "channels", "standard", "laneCount", "timelineCount"} : f(x) \in Nat
  BY <1>1, <1>7, <1>8
<1>11. SceneFields(c) \in SceneCommand
  <2>1. SceneFields(c) = [schema |-> f("schema"), operation |-> f("operation"), latency |-> f("latency"),
     irPhase |-> f("irPhase"),
     loudness |-> f("loudness"), policies |-> f("policies"), autoAttenuate |-> f("autoAttenuate"),
     strictDirect |-> f("strictDirect"), calibrated |-> f("calibrated"), liveUpdate |-> f("liveUpdate"),
     channels |-> f("channels"), standard |-> f("standard"), laneCount |-> f("laneCount"),
     timelineCount |-> f("timelineCount"), id |-> f("id"), name |-> f("name"), group |-> f("group"), ir |-> f("ir"),
     anchor |-> f("anchor"), timeline |-> f("timeline"), lanes |-> f("lanes")]
    BY <1>9 DEF SceneDomain
  <2>2. /\ f("schema") \in Nat /\ f("operation") \in Nat /\ f("latency") \in Nat /\ f("irPhase") \in Nat
        /\ f("loudness") \in Nat /\ f("autoAttenuate") \in Nat /\ f("strictDirect") \in Nat
        /\ f("calibrated") \in Nat /\ f("liveUpdate") \in Nat /\ f("channels") \in Nat
        /\ f("standard") \in Nat /\ f("laneCount") \in Nat /\ f("timelineCount") \in Nat
    BY <1>10
  <2>3. SceneCommand =
           [schema : Nat, operation : Nat, latency : Nat, irPhase : Nat, loudness : Nat,
            policies : Policies, autoAttenuate : Nat, strictDirect : Nat, calibrated : Nat,
            liveUpdate : Nat, channels : Nat, standard : Nat, laneCount : Nat, timelineCount : Nat,
            id : TextField, name : TextField, group : TextField, ir : TextField, anchor : TextField,
            timeline : Timeline, lanes : Lanes]
    BY Zenon DEF SceneCommand, Policies, Timeline, Lanes, Lane
  <2> QED
    BY ONLY <1>3, <1>4, <1>5, <1>6, <2>1, <2>2, <2>3
<1>12. SceneFields(c).operation = c.operation /\ (c.operation = Remove => SceneFields(c).id = Copied(c.id))
  BY <1>1, <1>2, <1>9, Operations DEF SceneDomain
<1> QED
  BY <1>11, <1>12

\* The scene command an upsert is written as.
LEMMA UpsertFields ==
  ASSUME NEW c \in SceneCommand, c.operation = Upsert
  PROVE  SceneFields(c) = Scene(c, 0, Copied(c.id), Copied(c.name), Copied(c.group), Copied(c.ir), Copied(c.anchor),
                                c.policies, CutTimeline(c.timeline, c.timelineCount), WrittenLanes(c))
<1> DEFINE f(x) == SceneField(c, x)
<1>1. f("operation") = c.operation /\ f("schema") = 0
  BY DEF SceneField, SceneTexts
<1>2. /\ f("id") = Copied(c.id) /\ f("name") = Copied(c.name) /\ f("group") = Copied(c.group)
      /\ f("ir") = Copied(c.ir) /\ f("anchor") = Copied(c.anchor)
  BY Operations DEF SceneField, SceneTexts
<1>3. f("policies") = c.policies
  <2>1. f("policies") = [k \in 1..7 |-> c.policies[k]]
    BY DEF SceneField, SceneTexts
  <2>2. c.policies \in [1..7 -> Int]
    BY SceneIs DEF Policies
  <2> HIDE DEF f
  <2> QED
    BY <2>1, <2>2
<1>4. f("timeline") = CutTimeline(c.timeline, c.timelineCount)
  BY DEF SceneField, SceneTexts, CutTimeline
<1>5. f("lanes") = WrittenLanes(c)
  BY DEF SceneField, SceneTexts, WrittenLanes
<1>6. /\ f("latency") = c.latency /\ f("irPhase") = c.irPhase /\ f("loudness") = c.loudness
      /\ f("autoAttenuate") = c.autoAttenuate /\ f("strictDirect") = c.strictDirect
      /\ f("calibrated") = c.calibrated /\ f("liveUpdate") = c.liveUpdate /\ f("channels") = c.channels
      /\ f("standard") = c.standard /\ f("laneCount") = c.laneCount /\ f("timelineCount") = c.timelineCount
  BY DEF SceneField, SceneTexts
<1>7. SceneFields(c) = [x \in SceneDomain |-> f(x)]
  BY SceneIs, Zenon DEF SceneFields
<1> HIDE DEF f
<1>8. SceneFields(c) = [schema |-> f("schema"), operation |-> f("operation"), latency |-> f("latency"),
     irPhase |-> f("irPhase"),
     loudness |-> f("loudness"), policies |-> f("policies"), autoAttenuate |-> f("autoAttenuate"),
     strictDirect |-> f("strictDirect"), calibrated |-> f("calibrated"), liveUpdate |-> f("liveUpdate"),
     channels |-> f("channels"), standard |-> f("standard"), laneCount |-> f("laneCount"),
     timelineCount |-> f("timelineCount"), id |-> f("id"), name |-> f("name"), group |-> f("group"), ir |-> f("ir"),
     anchor |-> f("anchor"), timeline |-> f("timeline"), lanes |-> f("lanes")]
  BY <1>7 DEF SceneDomain
<1> QED
  BY <1>1, <1>2, <1>3, <1>4, <1>5, <1>6, <1>8 DEF Scene

\* What the reader checks of a scene.
UpsertRead(f) ==
    /\ f.latency <= 3 /\ f.irPhase <= 3 /\ f.loudness <= 2
    /\ CountsValid(f) /\ TimelineValid(f)
    /\ \A k \in 1..7 : Finite(f.policies[k])
    /\ PaddedText(f.name) /\ PaddedText(f.group)
    /\ OptionalText(f.ir) /\ OptionalText(f.anchor)
    /\ \A i \in 1..f.laneCount : LaneValid(f.lanes[i]) /\ f.lanes[i].tail = 0
    /\ \A i \in f.laneCount + 1..MaxLanes : f.lanes[i] = NoLane

\* What the reader of a scene command returns, operation by operation.
LEMMA SceneReader ==
  ASSUME NEW p, p.f \in SceneCommand, NEW r, r = decode_scene_catalog_command(p)
  PROVE  /\ p.f.operation = Upsert =>
              r = IF p.size = 3260 /\ p.reservedZero /\ p.f.schema = 0 /\ PaddedText(p.f.id) /\ UpsertRead(p.f)
                  THEN Scene(p.f, 1, p.f.id, p.f.name, p.f.group, p.f.ir, p.f.anchor, p.f.policies,
                             AllCut(p.f.timeline), ReadLanes(p.f))
                  ELSE Refused
         /\ p.f.operation = Clear => r \in {Refused, [SceneDefaults EXCEPT !.operation = Clear]}
         /\ p.f.operation = Remove =>
              r \in {Refused, [SceneDefaults EXCEPT !.operation = Remove, !.id = p.f.id]}
         /\ p.f.operation \notin {Upsert, Remove, Clear} => r = Refused
<1> DEFINE f == p.f
           x == [f EXCEPT !.schema = 1,
                          !.timeline = [i \in 1..MaxTimeline |-> UpToNul(@[i])],
                          !.lanes = [i \in 1..MaxLanes |->
                            IF i <= f.laneCount THEN ReadLane(@[i]) ELSE NoLane]]
           t == AllCut(f.timeline)
           l == ReadLanes(f)
           s == Scene(f, 1, f.id, f.name, f.group, f.ir, f.anchor, f.policies, t, l)
<1>1. x = [f EXCEPT !.schema = 1, !.timeline = t, !.lanes = l]
  BY Zenon DEF AllCut, ReadLanes
<1>2. x = s
  <2> HIDE DEF f, t, l, x
  <2>1. f \in SceneCommand
    BY DEF f
  <2>2. DOMAIN f = SceneDomain
    BY <2>1, SceneIs
  <2>3. x = [y \in SceneDomain |-> IF y = "lanes" THEN l ELSE IF y = "timeline" THEN t
                                   ELSE IF y = "schema" THEN 1 ELSE f[y]]
    BY <1>1, <2>2
  <2> QED
    BY ONLY <2>3 DEF SceneDomain, Scene
<1>3. f.operation = Upsert =>
        r = IF p.size = 3260 /\ p.reservedZero /\ f.schema = 0 /\ PaddedText(f.id) /\ UpsertRead(f)
            THEN x ELSE Refused
  BY Operations DEF decode_scene_catalog_command, UpsertRead
<1> HIDE DEF x, s
<1>4. f.operation = Clear => r \in {Refused, [SceneDefaults EXCEPT !.operation = Clear]}
  BY Operations DEF decode_scene_catalog_command
<1>5. f.operation = Remove => r \in {Refused, [SceneDefaults EXCEPT !.operation = Remove, !.id = f.id]}
  BY Operations DEF decode_scene_catalog_command
<1>6. f.operation \notin {Upsert, Remove, Clear} => r = Refused
  <2>1. f.operation # Upsert /\ f.operation # Remove /\ f.operation # Clear => r = Refused
    BY Operations DEF decode_scene_catalog_command
  <2> QED
    BY <2>1
<1> QED
  BY <1>2, <1>3, <1>4, <1>5, <1>6 DEF s

\* What a scene command means, operation by operation.
LEMMA SceneMeaning ==
  ASSUME NEW v \in SceneCommand
  PROVE  /\ v.operation = Upsert =>
              Meaning("SceneCatalog", v) =
                 Scene(v, v.schema, v.id, v.name, v.group, Copied(v.ir), Copied(v.anchor), v.policies,
                       AllCut(v.timeline), MeantLanes(v))
         /\ v.operation = Remove =>
              Meaning("SceneCatalog", v) = [SceneDefaults EXCEPT !.operation = Remove, !.id = v.id]
         /\ v.operation = Clear =>
              Meaning("SceneCatalog", v) = [SceneDefaults EXCEPT !.operation = Clear]
<1> DEFINE m == Meaning("SceneCatalog", v)
           a == Copied(v.ir)
           b == Copied(v.anchor)
           t == AllCut(v.timeline)
           l == MeantLanes(v)
           d == [v EXCEPT !.ir = Copied(@), !.anchor = Copied(@),
                          !.timeline = [i \in 1..MaxTimeline |-> UpToNul(@[i])],
                          !.lanes = [i \in 1..MaxLanes |->
                            IF i <= v.laneCount THEN MeantLane(@[i]) ELSE NoLane]]
<1>1. m = IF v.operation # Upsert
          THEN [SceneDefaults EXCEPT !.operation = v.operation,
                                     !.id = IF v.operation = Remove THEN v.id ELSE NoText]
          ELSE d
  BY DEF Meaning, Scanned
<1>2. d = [v EXCEPT !.ir = a, !.anchor = b, !.timeline = t, !.lanes = l]
  BY Zenon DEF AllCut, MeantLanes
<1>3. d = Scene(v, v.schema, v.id, v.name, v.group, a, b, v.policies, t, l)
  <2> HIDE DEF a, b, t, l, d
  <2>1. DOMAIN v = SceneDomain
    BY SceneIs
  <2>2. d = [y \in SceneDomain |-> IF y = "lanes" THEN l ELSE IF y = "timeline" THEN t
                                   ELSE IF y = "anchor" THEN b ELSE IF y = "ir" THEN a ELSE v[y]]
    BY <1>2, <2>1
  <2> QED
    BY ONLY <2>2 DEF SceneDomain, Scene
<1>4. v.operation = Remove => m = [SceneDefaults EXCEPT !.operation = Remove, !.id = v.id]
  <2> HIDE DEF d, m
  <2> QED
    BY <1>1, Operations
<1>5. v.operation = Clear => m = [SceneDefaults EXCEPT !.operation = Clear]
  <2>1. v.operation = Clear => m = [SceneDefaults EXCEPT !.operation = Clear, !.id = NoText]
    <3> HIDE DEF d, m
    <3> QED
      BY <1>1, Operations
  <2>2. [SceneDefaults EXCEPT !.operation = Clear, !.id = NoText] = [SceneDefaults EXCEPT !.operation = Clear]
    <3>1. SceneDefaults.id = NoText
      BY DEF SceneDefaults
    <3> HIDE DEF d, m
    <3> QED
      BY <3>1
  <2> QED
    BY <2>1, <2>2, Zenon
<1> HIDE DEF d
<1>6. v.operation = Upsert => m = d
  BY <1>1
<1> QED
  BY <1>3, <1>4, <1>5, <1>6

\* A timeline is valid when its entries are.
LEMMA TimelineOkIs == \A c : TimelineValid(c) <=> TimelineOk(c.timeline, c.timelineCount)
BY DEF TimelineValid, TimelineOk

\* A scene that the writer wrote is read as it was meant, if it is read.
LEMMA UpsertCarried ==
  ASSUME NEW v \in SceneCommand, \A i \in 1..MaxLanes : v.lanes[i].tail = 0,
         v.schema = 1, v.operation = Upsert, UpsertOk(v), NEW g, g = SceneFields(v)
  PROVE  /\ g \in SceneCommand /\ g.operation = Upsert /\ SameSettings(g, v) /\ g.schema = 0
         /\ g.id = v.id /\ g.name = v.name /\ g.group = v.group /\ g.policies = v.policies
         /\ g.ir = Copied(v.ir) /\ g.anchor = Copied(v.anchor)
         /\ g.timeline = AllCut(v.timeline) /\ g.lanes = WrittenLanes(v)
         /\ Scene(g, 1, g.id, g.name, g.group, g.ir, g.anchor, g.policies, AllCut(g.timeline), ReadLanes(g))
              = Meaning("SceneCatalog", v)
<1> DEFINE t == AllCut(v.timeline)
           l == WrittenLanes(v)
           n == v.timelineCount
<1>1. PaddedText(v.id) /\ PaddedText(v.name) /\ PaddedText(v.group) /\ TimelineOk(v.timeline, n)
  BY TimelineOkIs DEF UpsertOk
<1>2. Copied(v.id) = v.id /\ Copied(v.name) = v.name /\ Copied(v.group) = v.group
  BY <1>1, SceneIs, PaddedCopied
<1>3. CutTimeline(v.timeline, n) = t /\ t \in Timeline /\ AllCut(t) = t
  <2>1. v.timeline \in Timeline /\ n \in Nat
    BY SceneIs
  <2> QED
    BY <1>1, <2>1, TimelineCut
<1>4. g = Scene(v, 0, v.id, v.name, v.group, Copied(v.ir), Copied(v.anchor), v.policies, t, l)
  BY <1>2, <1>3, UpsertFields
<1>5. /\ v.id \in TextField /\ v.name \in TextField /\ v.group \in TextField /\ Copied(v.ir) \in TextField
      /\ Copied(v.anchor) \in TextField /\ v.policies \in Policies /\ l \in Lanes
  BY SceneIs, CopiedText, LanesOf
<1> HIDE DEF t, l
<1>6. /\ g \in SceneCommand /\ SameSettings(g, v) /\ g.schema = 0
      /\ g.id = v.id /\ g.name = v.name /\ g.group = v.group /\ g.ir = Copied(v.ir) /\ g.anchor = Copied(v.anchor)
      /\ g.policies = v.policies /\ g.timeline = t /\ g.lanes = l
  <2>1. 0 \in Nat /\ v \in SceneCommand
    OBVIOUS
  <2>2. HasParts(g, v, 0, v.id, v.name, v.group, Copied(v.ir), Copied(v.anchor), v.policies, t, l)
    BY ONLY <1>3, <1>4, <1>5, <2>1, SceneOf, Zenon
  <2> QED
    BY ONLY <2>2 DEF HasParts
<1>7. g.operation = Upsert /\ g.laneCount = v.laneCount
  BY <1>6 DEF SameSettings
<1>8. ReadLanes(g) = MeantLanes(v)
  <2>1. ASSUME NEW i \in 1..MaxLanes
        PROVE  (IF i <= v.laneCount THEN ReadLane(l[i]) ELSE NoLane) = (IF i <= v.laneCount THEN MeantLane(v.lanes[i]) ELSE NoLane)
    <3>1. v.lanes[i] \in Lane /\ v.lanes[i].tail = 0 /\ l[i] = IF i <= v.laneCount THEN WrittenLane(v.lanes[i]) ELSE NoLane
      BY LanesOf DEF l
    <3> QED
      BY <3>1, LaneCarried
  <2>2. ReadLanes(g) = [i \in 1..MaxLanes |-> IF i <= v.laneCount THEN ReadLane(l[i]) ELSE NoLane]
    BY <1>6, <1>7, Zenon DEF ReadLanes
  <2> QED
    BY <2>1, <2>2, Zenon DEF MeantLanes
<1>9. Meaning("SceneCatalog", v) =
         Scene(v, 1, v.id, v.name, v.group, Copied(v.ir), Copied(v.anchor), v.policies, t, MeantLanes(v))
  BY SceneMeaning DEF t
<1>10. Scene(g, 1, v.id, v.name, v.group, Copied(v.ir), Copied(v.anchor), v.policies, t, MeantLanes(v))
        = Scene(v, 1, v.id, v.name, v.group, Copied(v.ir), Copied(v.anchor), v.policies, t, MeantLanes(v))
  BY <1>6, SameScene
<1> QED
  BY <1>3, <1>6, <1>7, <1>8, <1>9, <1>10 DEF t, l

\* A scene that was read is one the writer writes and the reader reads again.
LEMMA UpsertReadAgain ==
  ASSUME NEW f \in SceneCommand, f.operation = Upsert, PaddedText(f.id), UpsertRead(f),
         NEW r, r = Scene(f, 1, f.id, f.name, f.group, f.ir, f.anchor, f.policies, AllCut(f.timeline), ReadLanes(f))
  PROVE  /\ r \in SceneCommand /\ (\A i \in 1..MaxLanes : r.lanes[i].tail = 0) /\ r.schema = 1
         /\ r.operation = Upsert /\ UpsertOk(r)
         /\ PaddedText(SceneFields(r).id) /\ UpsertRead(SceneFields(r))
<1> DEFINE t == AllCut(f.timeline)
           l == ReadLanes(f)
           g == SceneFields(r)
<1>0. f.laneCount \in Nat /\ f.timelineCount \in Nat /\ f.timeline \in Timeline /\ f.laneCount <= MaxLanes
  BY SceneIs DEF UpsertRead, CountsValid
<1>1. TimelineOk(f.timeline, f.timelineCount)
  BY TimelineOkIs DEF UpsertRead
<1>2. t \in Timeline /\ AllCut(t) = t /\ TimelineOk(t, f.timelineCount)
  <2>1. CutTimeline(f.timeline, f.timelineCount) = t /\ TimelineOk(t, f.timelineCount)
    BY <1>0, <1>1, TimelineCut
  <2>2. t \in Timeline /\ AllCut(CutTimeline(f.timeline, f.timelineCount)) = CutTimeline(f.timeline, f.timelineCount)
    BY <1>0, TimelineCut
  <2> QED
    BY <2>1, <2>2
<1>3. l \in Lanes
  BY LanesOf
<1>4. ASSUME NEW i \in 1..MaxLanes
      PROVE  /\ l[i].tail = 0 /\ l[i] \in Lane
             /\ i <= f.laneCount => LaneValid(l[i])
             /\ ~(i <= f.laneCount) => l[i] = NoLane
  <2>1. f.lanes[i] \in Lane /\ l[i] = IF i <= f.laneCount THEN ReadLane(f.lanes[i]) ELSE NoLane
    BY LanesOf
  <2>2. i <= f.laneCount => LaneValid(f.lanes[i]) /\ f.lanes[i].tail = 0
    BY <1>0 DEF UpsertRead
  <2> QED
    BY <2>1, <2>2, LaneCarried, NoLaneIs
<1>5. /\ f.id \in TextField /\ f.name \in TextField /\ f.group \in TextField /\ f.ir \in TextField
      /\ f.anchor \in TextField /\ f.policies \in Policies
  BY SceneIs
<1> HIDE DEF t, l, g
<1>6. /\ r \in SceneCommand /\ SameSettings(r, f) /\ r.schema = 1
      /\ r.id = f.id /\ r.name = f.name /\ r.group = f.group /\ r.ir = f.ir /\ r.anchor = f.anchor
      /\ r.policies = f.policies /\ r.timeline = t /\ r.lanes = l
  <2>1. r = Scene(f, 1, f.id, f.name, f.group, f.ir, f.anchor, f.policies, t, l)
    BY DEF t, l
  <2>2. 1 \in Nat /\ f \in SceneCommand
    OBVIOUS
  <2>3. HasParts(r, f, 1, f.id, f.name, f.group, f.ir, f.anchor, f.policies, t, l)
    BY ONLY <1>2, <1>3, <1>5, <2>1, <2>2, SceneOf, Zenon
  <2> QED
    BY ONLY <2>3 DEF HasParts
<1>7. /\ r.operation = Upsert /\ r.laneCount = f.laneCount /\ r.timelineCount = f.timelineCount
      /\ r.latency = f.latency /\ r.irPhase = f.irPhase /\ r.loudness = f.loudness
  BY <1>6 DEF SameSettings
<1>8. CountsValid(f) => CountsValid(r)
  BY <1>6 DEF CountsValid, SameSettings, SceneFlags
<1>9. PaddedText(f.name) /\ PaddedText(f.group) /\ OptionalText(f.ir) /\ OptionalText(f.anchor)
  BY DEF UpsertRead
<1>10. /\ f.ir.n = 0 \/ PaddedText(f.ir)
       /\ f.anchor.n = 0 \/ PaddedText(f.anchor)
       /\ Copied(f.ir) = f.ir /\ Copied(f.anchor) = f.anchor
  BY <1>5, <1>9, OptionalCopied
<1>11. UpsertOk(r)
  <2>1. CountsValid(r)
    BY <1>8 DEF UpsertRead
  <2>2. TimelineValid(r)
    BY <1>2, <1>6, <1>7, TimelineOkIs
  <2>3. ASSUME NEW i \in 1..r.laneCount PROVE LaneValid(r.lanes[i])
    <3>1. MaxLanes \in Nat
      BY WireAssumption
    <3>2. i \in 1..MaxLanes /\ i <= f.laneCount
      BY <1>0, <1>7, <3>1
    <3>3. LaneValid(l[i])
      BY <1>4, <3>2
    <3> QED
      BY <1>6, <3>3
  <2> QED
    BY <1>6, <1>9, <1>10, <2>1, <2>2, <2>3 DEF UpsertOk
<1>12. \A i \in 1..MaxLanes : r.lanes[i].tail = 0
  BY <1>4, <1>6
<1>13. /\ g \in SceneCommand /\ SameSettings(g, r) /\ g.id = r.id /\ g.name = r.name /\ g.group = r.group
       /\ g.policies = r.policies /\ g.ir = Copied(r.ir) /\ g.anchor = Copied(r.anchor)
       /\ g.timeline = AllCut(r.timeline) /\ g.lanes = WrittenLanes(r)
  <2>1. r \in SceneCommand /\ r.schema = 1 /\ r.operation = Upsert
    BY <1>6, <1>7
  <2>2. g = SceneFields(r)
    BY DEF g
  <2> QED
    BY ONLY <1>11, <1>12, <2>1, <2>2, UpsertCarried
<1>14. /\ g.laneCount = f.laneCount /\ g.timelineCount = f.timelineCount /\ g.latency = f.latency
       /\ g.irPhase = f.irPhase /\ g.loudness = f.loudness
       /\ g.id = f.id /\ g.name = f.name /\ g.group = f.group /\ g.ir = f.ir /\ g.anchor = f.anchor
       /\ g.policies = f.policies /\ g.timeline = t
  BY <1>2, <1>6, <1>7, <1>10, <1>13 DEF SameSettings
<1>15. CountsValid(g)
  <2>1. CountsValid(r)
    BY <1>8 DEF UpsertRead
  <2>2. g.ir = r.ir
    BY <1>6, <1>14
  <2> QED
    BY <1>13, <2>1, <2>2 DEF CountsValid, SameSettings, SceneFlags
<1>16. TimelineValid(g)
  BY <1>2, <1>14, TimelineOkIs
<1>17. ASSUME NEW i \in 1..MaxLanes
       PROVE  /\ i <= g.laneCount => LaneValid(g.lanes[i]) /\ g.lanes[i].tail = 0
              /\ ~(i <= g.laneCount) => g.lanes[i] = NoLane
  <2>1. g.lanes[i] = IF i <= f.laneCount THEN WrittenLane(l[i]) ELSE NoLane
    BY <1>6, <1>7, <1>13, LanesOf
  <2> QED
    BY <1>4, <1>14, <2>1, LaneCarried
<1>18. /\ \A i \in 1..g.laneCount : LaneValid(g.lanes[i]) /\ g.lanes[i].tail = 0
       /\ \A i \in g.laneCount + 1..MaxLanes : g.lanes[i] = NoLane
  <2>1. MaxLanes \in Nat
    BY WireAssumption
  <2> QED
    BY <1>0, <1>14, <1>17, <2>1
<1>19. UpsertRead(g)
  BY <1>9, <1>14, <1>15, <1>16, <1>18 DEF UpsertRead
<1> QED
  BY <1>6, <1>7, <1>11, <1>12, <1>14, <1>19 DEF g

\* The same of every payload.
LEMMA SceneRead ==
  \A p : p.f \in SceneCommand =>
    /\ p.f.operation = Upsert =>
         decode_scene_catalog_command(p)
           = IF p.size = 3260 /\ p.reservedZero /\ p.f.schema = 0 /\ PaddedText(p.f.id) /\ UpsertRead(p.f)
             THEN Scene(p.f, 1, p.f.id, p.f.name, p.f.group, p.f.ir, p.f.anchor, p.f.policies,
                        AllCut(p.f.timeline), ReadLanes(p.f))
             ELSE Refused
    /\ p.f.operation = Clear =>
         decode_scene_catalog_command(p) \in {Refused, [SceneDefaults EXCEPT !.operation = Clear]}
    /\ p.f.operation = Remove =>
         decode_scene_catalog_command(p) \in {Refused, [SceneDefaults EXCEPT !.operation = Remove, !.id = p.f.id]}
    /\ p.f.operation \notin {Upsert, Remove, Clear} => decode_scene_catalog_command(p) = Refused
BY SceneReader

\* A scene catalog command is carried faithfully, and read stably.
LEMMA SceneCatalogAgrees == Agree("SceneCatalog")
<1> DEFINE K == "SceneCatalog"
           V == {c \in SceneCommand : \A i \in 1..MaxLanes : c.lanes[i].tail = 0}
           ok(c) == c.schema = 1 /\ c.operation \in {Upsert, Remove, Clear} /\ SceneOk(c)
<1>1. /\ ValueType(K) = V /\ WireType(K) = WirePayload(SceneCommand)
      /\ K \in CommandKinds /\ K \in LaxReaders /\ K \in LaxWriters
  BY ValueTypes, WireTypes, Fields DEF CommandKinds, LaxReaders, LaxWriters
<1>2. ASSUME NEW p \in WireType(K)
      PROVE  /\ p.f \in SceneCommand
             /\ Decode(K, p) = IF p.size > kIpcMaxPayloadBytes THEN Refused ELSE decode_scene_catalog_command(p)
  <2>1. p.f \in SceneCommand /\ p.size \in Nat
    BY <1>1, Unpacked
  <2> QED
    BY <1>1, <2>1, CommandRead, CommandReaders
<1>3. ASSUME NEW v \in V, ok(v), NEW w, w = Encode(K, v)
      PROVE  /\ w \in WireType(K) /\ w # Refused /\ ~EncoderRefused(K, w)
             /\ w.f = SceneFields(v) /\ w.size = 3260 /\ w.reservedZero
             /\ Decode(K, w) = decode_scene_catalog_command(w)
             /\ w.f \in SceneCommand /\ w.f.operation = v.operation
             /\ v.operation = Remove => w.f.id = Copied(v.id)
  <2> DEFINE g == SceneFields(v)
  <2>1. w = Payload(3260, g)
    BY <1>3, SceneWriter
  <2>2. g \in SceneCommand /\ g.operation = v.operation /\ (v.operation = Remove => g.id = Copied(v.id))
    BY SceneFieldsOf
  <2> HIDE DEF g
  <2>3. 3260 \in Nat /\ 3260 <= 4096
    BY SMT
  <2>4. w.size = 3260 /\ w.reservedZero /\ w.f = g /\ w # Refused /\ ~(w.size > kIpcMaxPayloadBytes)
    BY <2>1, <2>3, Written
  <2>5. w \in WireType(K)
    BY <1>1, <2>1, <2>2, <2>3, Packed
  <2>6. ~EncoderRefused(K, w)
    BY <2>4, Refusals
  <2> QED
    BY <1>2, <2>2, <2>4, <2>5, <2>6 DEF g
<1>4. ASSUME NEW v \in V, ok(v), v.operation = Upsert, NEW w, w = Encode(K, v)
      PROVE  /\ Decode(K, w) \in {Refused, Meaning(K, v)}
             /\ PaddedText(w.f.id) /\ UpsertRead(w.f) => Decode(K, w) = Meaning(K, v)
  <2> DEFINE g == SceneFields(v)
             s == Scene(g, 1, g.id, g.name, g.group, g.ir, g.anchor, g.policies, AllCut(g.timeline), ReadLanes(g))
  <2>1. UpsertOk(v) /\ v.schema = 1 /\ v \in SceneCommand /\ \A i \in 1..MaxLanes : v.lanes[i].tail = 0
    BY <1>4, Operations DEF SceneOk
  <2>2. g \in SceneCommand /\ g.operation = Upsert /\ g.schema = 0 /\ s = Meaning(K, v)
    BY <1>4, <2>1, UpsertCarried
  <2>3. w.f = g /\ w.size = 3260 /\ w.reservedZero /\ Decode(K, w) = decode_scene_catalog_command(w)
    BY <1>3, <1>4
  <2> HIDE DEF g
  <2>4. Decode(K, w) = IF PaddedText(g.id) /\ UpsertRead(g) THEN s ELSE Refused
    <3>1. w.f \in SceneCommand /\ w.f.operation = Upsert /\ w.f.schema = 0 /\ w.size = 3260 /\ w.reservedZero
      BY <2>2, <2>3
    <3>2. decode_scene_catalog_command(w)
            = IF w.size = 3260 /\ w.reservedZero /\ w.f.schema = 0 /\ PaddedText(w.f.id) /\ UpsertRead(w.f)
              THEN Scene(w.f, 1, w.f.id, w.f.name, w.f.group, w.f.ir, w.f.anchor, w.f.policies,
                         AllCut(w.f.timeline), ReadLanes(w.f))
              ELSE Refused
      <4>1. w.f \in SceneCommand /\ w.f.operation = Upsert
        BY <3>1
      <4> QED
        BY ONLY <4>1, SceneRead
    <3> QED
      BY ONLY <2>3, <3>1, <3>2 DEF s
  <2> HIDE DEF s
  <2> QED
    BY <2>2, <2>3, <2>4
<1>5. ASSUME NEW v \in V, ok(v), v.operation # Upsert, NEW w, w = Encode(K, v)
      PROVE  Decode(K, w) \in {Refused, Meaning(K, v)}
  <2>1. /\ Decode(K, w) = decode_scene_catalog_command(w) /\ w.f \in SceneCommand /\ w.f.operation = v.operation
        /\ v.operation = Remove => w.f.id = Copied(v.id)
    BY <1>3, <1>5
  <2>2. CASE v.operation = Remove
    <3>1. PaddedText(v.id) /\ v.id \in TextField
      BY <1>5, <2>2, SceneIs, Operations DEF SceneOk
    <3>2. w.f.id = v.id
      BY <2>1, <2>2, <3>1, PaddedCopied
    <3>3. decode_scene_catalog_command(w) \in {Refused, [SceneDefaults EXCEPT !.operation = Remove, !.id = w.f.id]}
      <4>1. w.f \in SceneCommand /\ w.f.operation = Remove
        BY <2>1, <2>2
      <4> QED
        BY ONLY <4>1, SceneRead
    <3>4. Meaning(K, v) = [SceneDefaults EXCEPT !.operation = Remove, !.id = v.id]
      BY <2>2, SceneMeaning
    <3> HIDE DEF K
    <3> QED
      BY <2>1, <3>2, <3>3, <3>4, Zenon
  <2>3. CASE v.operation = Clear
    <3>1. decode_scene_catalog_command(w) \in {Refused, [SceneDefaults EXCEPT !.operation = Clear]}
      <4>1. w.f \in SceneCommand /\ w.f.operation = Clear
        BY <2>1, <2>3
      <4> QED
        BY ONLY <4>1, SceneRead
    <3>2. Meaning(K, v) = [SceneDefaults EXCEPT !.operation = Clear]
      BY <2>3, SceneMeaning
    <3> HIDE DEF K
    <3> QED
      BY <2>1, <3>1, <3>2, Zenon
  <2> QED
    BY <1>5, <2>2, <2>3
<1>6. ASSUME NEW v \in V PROVE Faithful(K, v)
  <2> DEFINE w == Encode(K, v)
  <2>1. CASE ~ok(v)
    <3>1. Encode(K, v) = Refused
      BY <2>1, SceneWriter
    <3> QED
      BY <3>1, NotWritten
  <2>2. CASE ok(v)
    <3>1. w \in WireType(K) /\ w # Refused /\ ~EncoderRefused(K, w)
      BY <1>3, <2>2
    <3>2. Decode(K, w) \in {Refused, Meaning(K, v)}
      BY <1>4, <1>5, <2>2
    <3> HIDE DEF ok, V
    <3>3. CASE Decode(K, w) = Refused
      BY <1>1, <3>1, <3>3, WrittenAndNotRead
    <3>4. CASE Decode(K, w) # Refused
      BY <3>1, <3>2, <3>4, WrittenAndRead
    <3> QED
      BY <3>3, <3>4
  <2> QED
    BY <2>1, <2>2
<1>7. ASSUME NEW p \in WireType(K) PROVE Stable(K, p)
  <2> DEFINE r == Decode(K, p)
             f == p.f
  <2>1. CASE r = Refused
    BY <2>1, NotRead
  <2>2. CASE r # Refused /\ f.operation = Upsert
    <3>1. f \in SceneCommand /\ r = decode_scene_catalog_command(p)
      BY <1>2, <2>2
    <3>2. /\ PaddedText(f.id) /\ UpsertRead(f)
          /\ r = Scene(f, 1, f.id, f.name, f.group, f.ir, f.anchor, f.policies, AllCut(f.timeline), ReadLanes(f))
      <4> HIDE DEF r, f
      <4>1. r # Refused /\ f.operation = Upsert
        BY <2>2
      <4>2. p.f = f
        BY DEF f
      <4>3. r = IF p.size = 3260 /\ p.reservedZero /\ f.schema = 0 /\ PaddedText(f.id) /\ UpsertRead(f)
                THEN Scene(f, 1, f.id, f.name, f.group, f.ir, f.anchor, f.policies, AllCut(f.timeline), ReadLanes(f))
                ELSE Refused
        <5>1. p.f \in SceneCommand /\ p.f.operation = Upsert
          BY ONLY <3>1, <4>1, <4>2
        <5>2. decode_scene_catalog_command(p)
                = IF p.size = 3260 /\ p.reservedZero /\ p.f.schema = 0 /\ PaddedText(p.f.id) /\ UpsertRead(p.f)
                  THEN Scene(p.f, 1, p.f.id, p.f.name, p.f.group, p.f.ir, p.f.anchor, p.f.policies,
                             AllCut(p.f.timeline), ReadLanes(p.f))
                  ELSE Refused
          BY ONLY <5>1, SceneRead
        <5> QED
          BY ONLY <3>1, <4>2, <5>2
      <4> QED
        BY ONLY <4>1, <4>3
    <3> HIDE DEF r, f
    <3>3. /\ r \in SceneCommand /\ (\A i \in 1..MaxLanes : r.lanes[i].tail = 0) /\ r.schema = 1
          /\ r.operation = Upsert /\ UpsertOk(r)
          /\ PaddedText(SceneFields(r).id) /\ UpsertRead(SceneFields(r))
      BY <2>2, <3>1, <3>2, UpsertReadAgain
    <3>4. r \in V /\ ok(r)
      BY <3>3, Operations DEF SceneOk
    <3> DEFINE w == Encode(K, r)
    <3> HIDE DEF V, ok
    <3>5. w # Refused /\ w.f = SceneFields(r)
      BY <1>3, <3>4
    <3>6. Decode(K, w) = Meaning(K, r)
      BY <1>4, <3>3, <3>4, <3>5
    <3>7. K \notin {"WorkerFrame", "WorkerAudio"}
      OBVIOUS
    <3> HIDE DEF w
    <3> QED
      BY <1>1, <3>3, <3>5, <3>6, <3>7, ReadAndUnderstood DEF r, w
  <2>3. CASE r # Refused /\ f.operation # Upsert
    <3>1. f \in SceneCommand /\ r = decode_scene_catalog_command(p)
      BY <1>2, <2>3
    <3>2. \/ r = [SceneDefaults EXCEPT !.operation = Clear]
          \/ r = [SceneDefaults EXCEPT !.operation = Remove, !.id = f.id]
      <4> HIDE DEF r, f
      <4>1. r # Refused /\ f.operation # Upsert
        BY <2>3
      <4>2. p.f = f
        BY DEF f
      <4>3. f.operation \in {Upsert, Remove, Clear}
        BY ONLY <3>1, <4>1, <4>2, SceneRead
      <4> QED
        BY ONLY <3>1, <4>1, <4>2, <4>3, SceneRead
    <3>3. r.operation \in {Clear, Remove} /\ r.laneCount = 1
      <4> HIDE DEF r
      <4> QED
        BY <3>2 DEF SceneDefaults
    <3> HIDE DEF r
    <3>4. ~SceneOk(r) /\ r.operation # Upsert
      BY <3>3, Operations DEF SceneOk
    <3>5. Encode(K, r) = Refused
      BY <3>4, SceneWriter
    <3>6. CanonicalFor(K, p, r, Encode(K, r))
      BY <1>1, <3>4, <3>5 DEF CanonicalFor
    <3> QED
      BY <3>6, Zenon DEF Stable, r
  <2> QED
    BY <2>1, <2>2, <2>3
<1> QED
  BY <1>1, <1>6, <1>7 DEF Agree

-------------------------------------------------------------------------------
(* The blocks of the multi-bus frames.                                        *)

\* A function is defined by its first value and its steps.
Stepped(f, N, z, step) == f = [i \in 0..N |-> IF i = 0 THEN z ELSE step[i][f[i - 1]]]

\* There is a function with the given first value and steps.
LEMMA StepsExist ==
  ASSUME NEW N \in Nat, NEW S, NEW z \in S, NEW step \in [1..N -> [S -> S]]
  PROVE  \E f \in [0..N -> S] : Stepped(f, N, z, step)
<1> DEFINE Good(f, i) == f[i] = IF i = 0 THEN z ELSE step[i][f[i - 1]]
           T == {n \in Nat : n <= N => \E f \in [0..N -> S] : \A i \in 0..n : Good(f, i)}
<1>1. 0 \in T
  <2> DEFINE f == [i \in 0..N |-> z]
  <2>1. f \in [0..N -> S] /\ \A i \in 0..0 : Good(f, i)
    OBVIOUS
  <2> QED
    BY <2>1
<1>2. ASSUME NEW n \in Nat, n \in T PROVE n + 1 \in T
  <2> SUFFICES ASSUME n + 1 <= N
               PROVE  \E f \in [0..N -> S] : \A i \in 0..n + 1 : Good(f, i)
    OBVIOUS
  <2>1. PICK g \in [0..N -> S] : \A i \in 0..n : Good(g, i)
    BY <1>2
  <2> DEFINE y == step[n + 1][g[n]]
             f == [i \in 0..N |-> IF i = n + 1 THEN y ELSE g[i]]
  <2>2. n \in 0..N /\ n + 1 \in 1..N /\ n + 1 \in 0..N
    OBVIOUS
  <2>3. y \in S
    <3>1. g[n] \in S /\ step[n + 1] \in [S -> S]
      BY <2>2
    <3> QED
      BY <3>1
  <2> HIDE DEF y
  <2>4. f \in [0..N -> S]
    BY <2>3
  <2>5. ASSUME NEW i \in 0..n + 1 PROVE Good(f, i)
    <3>1. CASE i = n + 1
      <4>1. i # 0 /\ i - 1 = n /\ f[i] = y /\ f[i - 1] = g[n]
        BY <2>2, <3>1
      <4> HIDE DEF f
      <4> QED
        BY <3>1, <4>1 DEF y
    <3>2. CASE i # n + 1
      <4>1. i \in 0..n /\ f[i] = g[i] /\ (i # 0 => f[i - 1] = g[i - 1])
        BY <2>2, <3>2
      <4>2. Good(g, i)
        BY <2>1, <4>1
      <4> HIDE DEF f
      <4> QED
        BY <4>1, <4>2
    <3> QED
      BY <3>1, <3>2
  <2> QED
    BY <2>4, <2>5
<1> HIDE DEF T
<1>3. N \in T
  BY <1>1, <1>2, SetInduction
<1> USE DEF T
<1>4. PICK f \in [0..N -> S] : \A i \in 0..N : Good(f, i)
  BY <1>3
<1>5. f = [i \in 0..N |-> f[i]]
  OBVIOUS
<1>6. f = [i \in 0..N |-> IF i = 0 THEN z ELSE step[i][f[i - 1]]]
  BY <1>4, <1>5, Zenon
<1> QED
  BY <1>6, Zenon DEF Stepped

\* The channels before each bus, from the first to the last.
LEMMA ChannelSums ==
  ASSUME NEW b \in [1..MaxBuses -> BusSlot]
  PROVE  /\ ChannelsBefore(b, 1) = 0
         /\ \A k \in 1..MaxBuses :
              /\ ChannelsBefore(b, k) \in Nat /\ ChannelsBefore(b, k + 1) \in Nat
              /\ ChannelsBefore(b, k + 1) = ChannelsBefore(b, k) + (IF b[k].active = 1 THEN b[k].channels ELSE 0)
<1> DEFINE term(i) == IF b[i].active = 1 THEN b[i].channels ELSE 0
           Body(g) == [i \in 0..MaxBuses |-> IF i = 0 THEN 0 ELSE g[i - 1] + term(i)]
           sum == CHOOSE g : g = Body(g)
           step == [i \in 1..MaxBuses |-> [n \in Nat |-> n + term(i)]]
<1>0. MaxBuses \in Nat /\ \A i \in 1..MaxBuses : term(i) \in Nat
  BY PeripheralAssumption DEF BusSlot
<1>1. \A k : ChannelsBefore(b, k) = sum[k - 1]
  BY Zenon DEF ChannelsBefore
<1> HIDE DEF term
<1>2. \E f \in [0..MaxBuses -> Nat] : f = Body(f)
  <2>1. step \in [1..MaxBuses -> [Nat -> Nat]] /\ 0 \in Nat
    BY <1>0
  <2> HIDE DEF step
  <2>2. PICK f \in [0..MaxBuses -> Nat] : Stepped(f, MaxBuses, 0, step)
    BY <1>0, <2>1, StepsExist
  <2>3. ASSUME NEW i \in 0..MaxBuses, i # 0 PROVE step[i][f[i - 1]] = f[i - 1] + term(i)
    <3>1. i \in 1..MaxBuses /\ f[i - 1] \in Nat
      BY <1>0, <2>3
    <3> QED
      BY <3>1 DEF step
  <2>4. f = Body(f)
    BY <2>2, <2>3, Zenon DEF Stepped
  <2> QED
    BY <2>4
<1>3. sum = Body(sum)
  BY <1>2, Zenon
<1> HIDE DEF sum
<1>4. sum[0] = 0 /\ \A i \in 1..MaxBuses : sum[i] = sum[i - 1] + term(i)
  BY <1>0, <1>3
<1>5. \A i \in 0..MaxBuses : sum[i] \in Nat
  <2> DEFINE T == {n \in Nat : n <= MaxBuses => sum[n] \in Nat}
  <2>1. 0 \in T
    BY <1>4
  <2>2. ASSUME NEW n \in Nat, n \in T PROVE n + 1 \in T
    <3> SUFFICES ASSUME n + 1 <= MaxBuses PROVE sum[n + 1] \in Nat
      OBVIOUS
    <3>1. n + 1 \in 1..MaxBuses /\ sum[n] \in Nat /\ (n + 1) - 1 = n
      BY <1>0, <2>2
    <3>2. sum[n + 1] = sum[n] + term(n + 1)
      BY <1>4, <3>1
    <3> QED
      BY <1>0, <3>1, <3>2
  <2> HIDE DEF T
  <2>3. Nat \subseteq T
    BY <2>1, <2>2, SetInduction
  <2> QED
    BY <1>0, <2>3 DEF T
<1>6. ASSUME NEW k \in 1..MaxBuses
      PROVE  /\ ChannelsBefore(b, k) \in Nat /\ ChannelsBefore(b, k + 1) \in Nat
             /\ ChannelsBefore(b, k + 1) = ChannelsBefore(b, k) + (IF b[k].active = 1 THEN b[k].channels ELSE 0)
  <2>1. k - 1 \in 0..MaxBuses /\ k \in 0..MaxBuses /\ (k + 1) - 1 = k
    BY <1>0
  <2> QED
    BY <1>1, <1>4, <1>5, <2>1 DEF term
<1> QED
  BY <1>1, <1>4, <1>6

\* Of a direction with `count` buses, all before them are active and none after.
LEMMA ActiveBuses ==
  ASSUME NEW b \in [1..MaxBuses -> BusSlot], NEW count \in 1..MaxBuses, NEW roles, validate_buses(b, count, roles)
  PROVE  /\ BusChannels(b) \in Nat /\ BusChannels(b) <= MaxBusChannels
         /\ ChannelsBefore(b, 1) = 0 /\ ChannelsBefore(b, count + 1) = BusChannels(b)
         /\ \A k \in 1..count : /\ ChannelsBefore(b, k) \in Nat /\ b[k].channels \in Nat
                                /\ ChannelsBefore(b, k + 1) = ChannelsBefore(b, k) + b[k].channels
<1>0. MaxBuses \in Nat /\ count \in Nat /\ count <= MaxBuses /\ 1 <= count
  BY PeripheralAssumption
<1>1. \A k \in 1..MaxBuses : /\ ChannelsBefore(b, k) \in Nat /\ ChannelsBefore(b, k + 1) \in Nat
                             /\ ChannelsBefore(b, k + 1) = ChannelsBefore(b, k) + (IF b[k].active = 1 THEN b[k].channels ELSE 0)
  BY ChannelSums
<1>2. \A k \in 1..count : k \in 1..MaxBuses /\ b[k].active = 1 /\ b[k].channels \in Nat
  BY <1>0 DEF validate_buses, BusSlot
<1>3. \A k \in count + 1..MaxBuses : b[k].active = 0
  BY <1>0 DEF validate_buses, NoBus
<1>4. \A n \in 0..MaxBuses - count : ChannelsBefore(b, count + n + 1) = ChannelsBefore(b, count + 1)
  <2> DEFINE T == {n \in Nat : n <= MaxBuses - count => ChannelsBefore(b, count + n + 1) = ChannelsBefore(b, count + 1)}
  <2>1. 0 \in T
    BY <1>0
  <2>2. ASSUME NEW n \in Nat, n \in T PROVE n + 1 \in T
    <3> SUFFICES ASSUME n + 1 <= MaxBuses - count
                 PROVE  ChannelsBefore(b, count + (n + 1) + 1) = ChannelsBefore(b, count + 1)
      OBVIOUS
    <3> DEFINE k == count + n + 1
    <3>1. k \in 1..MaxBuses /\ k \in count + 1..MaxBuses /\ count + (n + 1) + 1 = k + 1
      BY <1>0
    <3>2. ChannelsBefore(b, k) = ChannelsBefore(b, count + 1)
      BY <1>0, <2>2
    <3> HIDE DEF k
    <3>3. ChannelsBefore(b, k + 1) = ChannelsBefore(b, k) + 0 /\ ChannelsBefore(b, k) \in Nat
      BY <1>1, <1>3, <3>1
    <3> QED
      BY <3>1, <3>2, <3>3
  <2> HIDE DEF T
  <2>3. Nat \subseteq T
    BY <2>1, <2>2, SetInduction
  <2> QED
    BY <1>0, <2>3 DEF T
<1>5. BusChannels(b) = ChannelsBefore(b, count + 1)
  <2>1. MaxBuses - count \in 0..MaxBuses - count /\ count + (MaxBuses - count) + 1 = MaxBuses + 1
    BY <1>0
  <2> QED
    BY <1>4, <2>1 DEF BusChannels
<1>6. ChannelsBefore(b, 1) = 0
  BY ChannelSums
<1>7. BusChannels(b) \in Nat
  BY <1>0, <1>1, <1>5
<1>8. BusChannels(b) <= MaxBusChannels
  BY DEF validate_buses
<1> QED
  BY <1>1, <1>2, <1>5, <1>6, <1>7, <1>8

\* The buses of a block, one after another: inputs, then outputs.
Slots(l) == [i \in 1..l.inputs |-> <<TRUE, i>>] \o [i \in 1..l.outputs |-> <<FALSE, i>>]
Bus(l, slot) == (IF slot[1] THEN l.in ELSE l.out)[slot[2]]
StartOf(l, slot) == (IF slot[1] THEN 0 ELSE BusChannels(l.in)) + ChannelsBefore(IF slot[1] THEN l.in ELSE l.out, slot[2])
SlotSet(l) == {s \in BOOLEAN \X (1..l.inputs \cup 1..l.outputs) : s[2] \in 1..(IF s[1] THEN l.inputs ELSE l.outputs)}

\* The slots of a layout, one by one.
LEMMA SlotsAre ==
  ASSUME NEW l \in BusLayout
  PROVE  /\ Len(Slots(l)) = l.inputs + l.outputs /\ Slots(l) \in Seq(SlotSet(l))
         /\ \A k \in 1..l.inputs + l.outputs :
              Slots(l)[k] = IF k <= l.inputs THEN <<TRUE, k>> ELSE <<FALSE, k - l.inputs>>
<1> DEFINE a == [i \in 1..l.inputs |-> <<TRUE, i>>]
           b == [i \in 1..l.outputs |-> <<FALSE, i>>]
<1>0. l.inputs \in Nat /\ l.outputs \in Nat
  BY DEF BusLayout
<1>1. \A i \in 1..l.inputs : <<TRUE, i>> \in SlotSet(l)
  BY DEF SlotSet
<1>2. \A i \in 1..l.outputs : <<FALSE, i>> \in SlotSet(l)
  BY DEF SlotSet
<1>3. a \in Seq(SlotSet(l)) /\ Len(a) = l.inputs /\ b \in Seq(SlotSet(l)) /\ Len(b) = l.outputs
  <2>1. a \in [1..l.inputs -> SlotSet(l)] /\ b \in [1..l.outputs -> SlotSet(l)]
    BY <1>1, <1>2, Zenon
  <2> HIDE DEF a, b
  <2>2. a \in Seq(SlotSet(l)) /\ b \in Seq(SlotSet(l))
    BY <1>0, <2>1, SeqDef
  <2>3. DOMAIN a = 1..l.inputs /\ DOMAIN b = 1..l.outputs
    BY <2>1
  <2> QED
    BY <1>0, <2>2, <2>3
<1>4. (\A i \in 1..l.inputs : a[i] = <<TRUE, i>>) /\ (\A i \in 1..l.outputs : b[i] = <<FALSE, i>>) /\ Slots(l) = a \o b
  BY DEF Slots
<1> HIDE DEF a, b
<1>5. Slots(l) \in Seq(SlotSet(l)) /\ Len(Slots(l)) = l.inputs + l.outputs
  <2>1. a \o b \in Seq(SlotSet(l)) /\ Len(a \o b) = Len(a) + Len(b)
    BY ONLY <1>3, ConcatProperties
  <2> QED
    BY <1>3, <1>4, <2>1
<1>6. ASSUME NEW k \in 1..l.inputs + l.outputs
      PROVE  Slots(l)[k] = IF k <= l.inputs THEN <<TRUE, k>> ELSE <<FALSE, k - l.inputs>>
  <2>1. (a \o b)[k] = IF k <= Len(a) THEN a[k] ELSE b[k - Len(a)]
    BY ONLY <1>3, <1>6, ConcatProperties
  <2>2. (k <= l.inputs => k \in 1..l.inputs) /\ (~(k <= l.inputs) => k - l.inputs \in 1..l.outputs)
    BY <1>0
  <2> QED
    BY ONLY <1>3, <1>4, <2>1, <2>2, Zenon
<1> QED
  BY <1>5, <1>6

\* Each bus starts where the one before it ends.
LEMMA SlotStarts ==
  ASSUME NEW l \in BusLayout, validate_vst3_bus_layout(l), NEW N, N = l.inputs + l.outputs
  PROVE  /\ N \in Nat /\ N >= 2
         /\ StartOf(l, Slots(l)[1]) = 0
         /\ \A k \in 1..N : StartOf(l, Slots(l)[k]) \in Nat /\ Bus(l, Slots(l)[k]).channels \in Nat
         /\ \A k \in 1..N - 1 : StartOf(l, Slots(l)[k + 1]) = StartOf(l, Slots(l)[k]) + Bus(l, Slots(l)[k]).channels
<1>0. /\ l.inputs \in Nat /\ l.outputs \in Nat /\ l.inputs \in 1..MaxBuses /\ l.outputs \in 1..MaxBuses
      /\ l.in \in [1..MaxBuses -> BusSlot] /\ l.out \in [1..MaxBuses -> BusSlot]
      /\ validate_buses(l.in, l.inputs, {"Main", "Auxiliary", "Sidechain"})
      /\ validate_buses(l.out, l.outputs, {"Main", "Auxiliary"})
  BY DEF BusLayout, validate_vst3_bus_layout
<1>1. /\ BusChannels(l.in) \in Nat /\ ChannelsBefore(l.in, 1) = 0 /\ ChannelsBefore(l.in, l.inputs + 1) = BusChannels(l.in)
      /\ \A k \in 1..l.inputs : /\ ChannelsBefore(l.in, k) \in Nat /\ l.in[k].channels \in Nat
                                /\ ChannelsBefore(l.in, k + 1) = ChannelsBefore(l.in, k) + l.in[k].channels
  BY ONLY <1>0, ActiveBuses
<1>2. /\ ChannelsBefore(l.out, 1) = 0
      /\ \A k \in 1..l.outputs : /\ ChannelsBefore(l.out, k) \in Nat /\ l.out[k].channels \in Nat
                                 /\ ChannelsBefore(l.out, k + 1) = ChannelsBefore(l.out, k) + l.out[k].channels
  BY ONLY <1>0, ActiveBuses
<1>3. N \in Nat /\ N >= 2
  BY <1>0
<1>4. ASSUME NEW k \in 1..N
      PROVE  /\ k <= l.inputs => /\ StartOf(l, Slots(l)[k]) = ChannelsBefore(l.in, k)
                                 /\ Bus(l, Slots(l)[k]) = l.in[k]
             /\ ~(k <= l.inputs) => /\ StartOf(l, Slots(l)[k]) = BusChannels(l.in) + ChannelsBefore(l.out, k - l.inputs)
                                    /\ Bus(l, Slots(l)[k]) = l.out[k - l.inputs]
  <2>1. \A i : <<TRUE, i>>[1] /\ <<TRUE, i>>[2] = i /\ ~<<FALSE, i>>[1] /\ <<FALSE, i>>[2] = i
    OBVIOUS
  <2>2. Slots(l)[k] = IF k <= l.inputs THEN <<TRUE, k>> ELSE <<FALSE, k - l.inputs>>
    BY SlotsAre
  <2>3. CASE k <= l.inputs
    <3>1. k \in 1..l.inputs
      BY <1>0, <2>3
    <3>2. StartOf(l, Slots(l)[k]) = 0 + ChannelsBefore(l.in, k) /\ Bus(l, Slots(l)[k]) = l.in[k]
      BY <2>1, <2>2, <2>3, Zenon DEF StartOf, Bus
    <3> QED
      BY <1>1, <2>3, <3>1, <3>2
  <2>4. CASE ~(k <= l.inputs)
    <3>1. StartOf(l, Slots(l)[k]) = BusChannels(l.in) + ChannelsBefore(l.out, k - l.inputs) /\ Bus(l, Slots(l)[k]) = l.out[k - l.inputs]
      BY <2>1, <2>2, <2>4, Zenon DEF StartOf, Bus
    <3> QED
      BY <2>4, <3>1
  <2> QED
    BY <2>3, <2>4
<1>5. ASSUME NEW k \in 1..N
      PROVE StartOf(l, Slots(l)[k]) \in Nat /\ Bus(l, Slots(l)[k]).channels \in Nat
  <2>1. CASE k <= l.inputs
    <3>1. k \in 1..l.inputs
      BY <1>0, <2>1
    <3>2. StartOf(l, Slots(l)[k]) = ChannelsBefore(l.in, k) /\ Bus(l, Slots(l)[k]) = l.in[k]
      BY <1>4, <2>1
    <3> QED
      BY <1>1, <3>1, <3>2
  <2>2. CASE ~(k <= l.inputs)
    <3> DEFINE j == k - l.inputs
    <3>1. j \in 1..l.outputs
      BY <1>0, <2>2
    <3>2. StartOf(l, Slots(l)[k]) = BusChannels(l.in) + ChannelsBefore(l.out, j) /\ Bus(l, Slots(l)[k]) = l.out[j]
      BY <1>4, <2>2
    <3> HIDE DEF j
    <3> QED
      BY <1>1, <1>2, <3>1, <3>2
  <2> QED
    BY <2>1, <2>2
<1>6. ASSUME NEW k \in 1..N - 1
      PROVE StartOf(l, Slots(l)[k + 1]) = StartOf(l, Slots(l)[k]) + Bus(l, Slots(l)[k]).channels
  <2>0. k \in 1..N /\ k + 1 \in 1..N
    BY <1>3
  <2>1. CASE k + 1 <= l.inputs
    <3>1. k <= l.inputs /\ k \in 1..l.inputs
      BY <1>0, <2>1
    <3> QED
      BY <1>1, <1>4, <2>0, <2>1, <3>1
  <2>2. CASE k = l.inputs
    <3>1. ~(k + 1 <= l.inputs) /\ k + 1 - l.inputs = 1 /\ k <= l.inputs /\ k \in 1..l.inputs
      BY <1>0, <2>2
    <3>2. StartOf(l, Slots(l)[k + 1]) = BusChannels(l.in) + ChannelsBefore(l.out, 1)
      <4> DEFINE m == k + 1
      <4>1. m \in 1..N /\ ~(m <= l.inputs) /\ m - l.inputs = 1
        BY <1>0, <1>3, <2>0, <3>1
      <4> HIDE DEF m
      <4>2. StartOf(l, Slots(l)[m]) = BusChannels(l.in) + ChannelsBefore(l.out, 1)
        BY <1>4, <4>1
      <4> QED
        BY <4>2 DEF m
    <3>3. StartOf(l, Slots(l)[k]) = ChannelsBefore(l.in, k) /\ Bus(l, Slots(l)[k]) = l.in[k]
      BY <1>4, <2>0, <3>1
    <3>4. ChannelsBefore(l.in, k + 1) = ChannelsBefore(l.in, k) + l.in[k].channels /\ ChannelsBefore(l.in, k + 1) = BusChannels(l.in)
      BY <1>1, <2>2, <3>1
    <3> QED
      BY <1>1, <1>2, <3>2, <3>3, <3>4
  <2>3. CASE k > l.inputs
    <3> DEFINE j == k - l.inputs
    <3>1. ~(k + 1 <= l.inputs) /\ ~(k <= l.inputs) /\ j \in 1..l.outputs /\ k + 1 - l.inputs = j + 1
      BY <1>0, <2>3
    <3>2. StartOf(l, Slots(l)[k + 1]) = BusChannels(l.in) + ChannelsBefore(l.out, j + 1)
      <4> DEFINE m == k + 1
      <4>1. m \in 1..N /\ ~(m <= l.inputs) /\ m - l.inputs = j + 1
        BY <1>0, <1>3, <2>0, <3>1, SMTT(40)
      <4> HIDE DEF m, j
      <4>2. StartOf(l, Slots(l)[m]) = BusChannels(l.in) + ChannelsBefore(l.out, j + 1)
        BY <1>4, <4>1
      <4> QED
        BY <4>2 DEF m
    <3>3. StartOf(l, Slots(l)[k]) = BusChannels(l.in) + ChannelsBefore(l.out, j) /\ Bus(l, Slots(l)[k]) = l.out[j]
      BY <1>4, <2>0, <3>1
    <3> HIDE DEF j
    <3> QED
      BY <1>1, <1>2, <3>1, <3>2, <3>3
  <2> QED
    BY <1>0, <2>1, <2>2, <2>3
<1>7. StartOf(l, Slots(l)[1]) = 0
  <2>1. 1 \in 1..N /\ 1 <= l.inputs
    BY <1>0, <1>3
  <2> QED
    BY <1>1, <1>4, <2>1
<1> QED
  BY <1>3, <1>5, <1>6, <1>7

\* Blocks of samples one after another, each with the slot it belongs to: the
\* samples of a slot are those between the ends of two blocks.
Appended(g, N, size, slots) ==
    [k \in 0..N |-> IF k = 0 THEN <<>> ELSE g[k - 1] \o [x \in 1..size[k] |-> slots[k]]]
Owned(owner, N, slots, end) ==
    \A j \in 1..N : {x \in DOMAIN owner[N] : owner[N][x] = slots[j]} = end[j - 1] + 1..end[j]

\* Blocks appended one after another: each sample has the slot of the block
\* it is in.
LEMMA Blocks ==
  ASSUME NEW N \in Nat, NEW T, NEW slots \in [1..N -> T], \A i, j \in 1..N : slots[i] = slots[j] => i = j,
         NEW size \in [1..N -> Nat], NEW end \in [0..N -> Nat],
         end[0] = 0, \A k \in 1..N : end[k] = end[k - 1] + size[k],
         NEW owner, owner = Appended(owner, N, size, slots)
  PROVE  Owned(owner, N, slots, end)
<1> DEFINE block(k) == [x \in 1..size[k] |-> slots[k]]
           Owns(q, x, j) == q[x] = slots[j] <=> end[j - 1] < x /\ x <= end[j]
           P(k) == /\ owner[k] \in Seq(T) /\ Len(owner[k]) = end[k]
                   /\ \A x \in 1..end[k], j \in 1..N : Owns(owner[k], x, j)
<1>1. owner[0] = <<>> /\ \A k \in 1..N : owner[k] = owner[k - 1] \o block(k)
  <2>1. \A k \in 0..N : owner[k] = IF k = 0 THEN <<>> ELSE owner[k - 1] \o block(k)
    BY Zenon DEF Appended
  <2>2. 0 \in 0..N /\ \A k \in 1..N : k \in 0..N /\ k # 0
    OBVIOUS
  <2> QED
    BY <2>1, <2>2, Zenon
<1>2. \A k \in 1..N : /\ block(k) \in Seq(T) /\ Len(block(k)) = size[k]
                      /\ \A x \in 1..size[k] : block(k)[x] = slots[k]
  <2> SUFFICES ASSUME NEW k \in 1..N
               PROVE  /\ block(k) \in Seq(T) /\ Len(block(k)) = size[k]
                      /\ \A x \in 1..size[k] : block(k)[x] = slots[k]
    OBVIOUS
  <2> DEFINE b == block(k)
             m == size[k]
  <2>1. b \in [1..m -> T] /\ \A x \in 1..m : b[x] = slots[k]
    BY Zenon
  <2>2. m \in Nat
    OBVIOUS
  <2> HIDE DEF b, m
  <2>3. b \in Seq(T)
    BY <2>1, <2>2, SeqDef
  <2>4. DOMAIN b = 1..m
    BY <2>1
  <2>5. Len(b) = m
    BY <2>2, <2>3, <2>4
  <2> QED
    BY <2>1, <2>3, <2>5 DEF b, m
<1> HIDE DEF block
<1>2a. \A p, b \in Seq(T) : /\ p \o b \in Seq(T) /\ Len(p \o b) = Len(p) + Len(b)
                            /\ \A x \in 1..Len(p) + Len(b) :
                                 (p \o b)[x] = IF x <= Len(p) THEN p[x] ELSE b[x - Len(p)]
  BY ONLY ConcatProperties
<1>3. \A i, k \in 0..N : i <= k => end[i] <= end[k]
  <2> DEFINE Q == {n \in Nat : n <= N => \A i \in 0..n : end[i] <= end[n]}
  <2>1. 0 \in Q
    OBVIOUS
  <2>2. ASSUME NEW n \in Nat, n \in Q PROVE n + 1 \in Q
    <3> SUFFICES ASSUME n + 1 <= N, NEW i \in 0..n + 1 PROVE end[i] <= end[n + 1]
      OBVIOUS
    <3>1. n + 1 \in 1..N /\ (n + 1) - 1 = n /\ n \in 0..N /\ n + 1 \in 0..N
      OBVIOUS
    <3>2. end[n + 1] = end[n] + size[n + 1] /\ size[n + 1] \in Nat /\ end[n] \in Nat
      BY <3>1
    <3>3. i \in 0..n => end[i] <= end[n] /\ end[i] \in Nat
      BY <2>2, <3>1
    <3>4. i = n + 1 \/ i \in 0..n
      OBVIOUS
    <3>5. end[n] <= end[n + 1] /\ end[n + 1] \in Nat
      BY ONLY <3>2
    <3> QED
      BY <3>2, <3>3, <3>4, <3>5
  <2> HIDE DEF Q
  <2>3. Nat \subseteq Q
    BY <2>1, <2>2, SetInduction
  <2> QED
    BY <2>3 DEF Q
<1>4. \A k \in 0..N : P(k)
  <2> DEFINE Q == {n \in Nat : n <= N => P(n)}
  <2>1. 0 \in Q
    <3>1. <<>> \in Seq(T) /\ Len(<<>>) = 0
      BY EmptySeq
    <3>2. \A x \in 1..end[0] : FALSE
      OBVIOUS
    <3>3. P(0)
      BY <1>1, <3>1, <3>2, Zenon
    <3> QED
      BY <3>3
  <2>2. ASSUME NEW n \in Nat, n \in Q PROVE n + 1 \in Q
    <3> SUFFICES ASSUME n + 1 <= N PROVE P(n + 1)
      OBVIOUS
    <3> DEFINE k == n + 1
               q == owner[k]
    <3>0. k \in 1..N /\ k - 1 = n /\ n \in 0..N /\ k \in 0..N
      OBVIOUS
    <3>1. owner[n] \in Seq(T) /\ Len(owner[n]) = end[n] /\ \A x \in 1..end[n], j \in 1..N : Owns(owner[n], x, j)
      BY <2>2, <3>0
    <3>2. end[k] = end[n] + size[k] /\ size[k] \in Nat /\ end[n] \in Nat /\ end[k] \in Nat
      BY <3>0
    <3>3. q = owner[n] \o block(k) /\ block(k) \in Seq(T) /\ Len(block(k)) = size[k]
      BY <1>1, <1>2, <3>0
    <3>3a. \A x \in 1..size[k] : block(k)[x] = slots[k]
      BY <1>2, <3>0
    <3> HIDE DEF k, q
    <3>4. q \in Seq(T) /\ Len(q) = end[k]
      <4>1. owner[n] \o block(k) \in Seq(T) /\ Len(owner[n] \o block(k)) = Len(owner[n]) + Len(block(k))
        BY <1>2a, <3>1, <3>3, Zenon
      <4> QED
        BY <3>1, <3>2, <3>3, <4>1
    <3>5. ASSUME NEW x \in 1..end[k], NEW j \in 1..N PROVE Owns(q, x, j)
      <4>0. j \in 0..N /\ j - 1 \in 0..N /\ end[j] \in Nat /\ end[j - 1] \in Nat
        OBVIOUS
      <4>1. q[x] = IF x <= end[n] THEN owner[n][x] ELSE block(k)[x - end[n]]
        <5>1. x \in 1..Len(owner[n]) + Len(block(k))
          BY <3>1, <3>2, <3>3
        <5>2. (owner[n] \o block(k))[x] = IF x <= Len(owner[n]) THEN owner[n][x] ELSE block(k)[x - Len(owner[n])]
          <6>1. owner[n] \in Seq(T) /\ block(k) \in Seq(T)
            BY <3>1, <3>3
          <6> QED
            BY ONLY <1>2a, <5>1, <6>1
        <5> QED
          BY <3>1, <3>3, <5>2
      <4>2. CASE x <= end[n]
        <5>1. x \in 1..end[n]
          BY <3>2, <4>2
        <5>2. q[x] = owner[n][x] /\ Owns(owner[n], x, j)
          BY <3>1, <4>1, <4>2, <5>1
        <5> QED
          BY <5>2
      <4>3. CASE ~(x <= end[n])
        <5>1. x - end[n] \in 1..size[k]
          BY <3>2, <4>3
        <5>2. q[x] = slots[k]
          BY <3>3a, <4>1, <4>3, <5>1
        <5>3. CASE j = k
          BY <3>0, <3>2, <4>3, <5>2, <5>3
        <5>4. CASE j # k
          <6>1. q[x] # slots[j]
            BY <3>0, <5>2, <5>4
          <6>2. j <= n => end[j] <= end[n]
            BY <1>3, <3>0, <4>0
          <6>3. j > k => end[k] <= end[j - 1]
            <7>1. j > k => k <= j - 1
              BY <3>0
            <7> QED
              BY <1>3, <3>0, <4>0, <7>1
          <6>4. j <= n \/ j > k
            BY <3>0, <5>4 DEF k
          <6>5. x \in Nat /\ x <= end[k] /\ x > end[n]
            BY <3>2, <4>3
          <6>6. ~(end[j - 1] < x /\ x <= end[j])
            BY <3>2, <4>0, <6>2, <6>3, <6>4, <6>5, SMTT(40)
          <6> QED
            BY <6>1, <6>6, Zenon
        <5> QED
          BY <5>3, <5>4
      <4> QED
        BY <4>2, <4>3
    <3> QED
      BY <3>4, <3>5 DEF k, q
  <2> HIDE DEF Q
  <2>3. Nat \subseteq Q
    BY <2>1, <2>2, SetInduction
  <2>4. \A k \in 0..N : k \in Q /\ k <= N
    BY <2>3
  <2> QED
    BY <2>4 DEF Q
<1>5. ASSUME NEW j \in 1..N
      PROVE  {x \in DOMAIN owner[N] : owner[N][x] = slots[j]} = end[j - 1] + 1..end[j]
  <2>1. j \in 0..N /\ j - 1 \in 0..N /\ end[j] \in Nat /\ end[j - 1] \in Nat /\ end[N] \in Nat /\ N \in 0..N
    OBVIOUS
  <2>2. P(N)
    BY <1>4, <2>1
  <2>3. DOMAIN owner[N] = 1..end[N]
    BY <2>2, LenProperties
  <2>4. end[j] <= end[N]
    BY <1>3, <2>1
  <2>5. \A x \in 1..end[N] : Owns(owner[N], x, j)
    BY <2>2
  <2>6. ASSUME NEW x
        PROVE  x \in DOMAIN owner[N] /\ owner[N][x] = slots[j] <=> x \in end[j - 1] + 1..end[j]
    <3>1. CASE x \in 1..end[N]
      <4>1. Owns(owner[N], x, j)
        BY <2>5, <3>1
      <4>2. x \in end[j - 1] + 1..end[j] <=> end[j - 1] < x /\ x <= end[j]
        BY <2>1, <3>1
      <4> QED
        BY <2>3, <3>1, <4>1, <4>2
    <3>2. CASE x \notin 1..end[N]
      <4>1. x \notin end[j - 1] + 1..end[j]
        <5>1. x \in end[j - 1] + 1..end[j] => x \in Int /\ 1 <= x /\ x <= end[N]
          BY <2>1, <2>4
        <5> QED
          BY <2>1, <3>2, <5>1
      <4> QED
        BY <2>3, <3>2, <4>1
    <3> QED
      BY <3>1, <3>2
  <2> QED
    BY <2>6, Zenon
<1> QED
  BY <1>5 DEF Owned

\* Such an assignment exists.
LEMMA BlocksExist ==
  ASSUME NEW N \in Nat, NEW T, NEW slots \in [1..N -> T], NEW size \in [1..N -> Nat]
  PROVE  \E owner : owner = Appended(owner, N, size, slots)
<1> DEFINE block(k) == [x \in 1..size[k] |-> slots[k]]
           S == Seq(T)
           step == [k \in 1..N |-> [q \in S |-> q \o block(k)]]
<1>1. \A k \in 1..N : block(k) \in S
  <2> SUFFICES ASSUME NEW k \in 1..N PROVE block(k) \in S
    OBVIOUS
  <2> DEFINE b == block(k)
  <2>1. b \in [1..size[k] -> T]
    BY Zenon
  <2>2. size[k] \in Nat
    OBVIOUS
  <2> HIDE DEF b
  <2>3. b \in Seq(T)
    BY <2>1, <2>2, SeqDef
  <2> QED
    BY <2>3 DEF b
<1> HIDE DEF block
<1>2. \A k \in 1..N, q \in S : q \o block(k) \in S
  BY <1>1, ConcatProperties
<1> HIDE DEF S
<1>3. step \in [1..N -> [S -> S]]
  BY <1>2, Zenon
<1>4. <<>> \in S
  BY EmptySeq DEF S
<1>5. \A k \in 1..N, q \in S : step[k][q] = q \o block(k)
  BY Zenon
<1> HIDE DEF step
<1>6. PICK f \in [0..N -> S] : Stepped(f, N, <<>>, step)
  BY <1>3, <1>4, StepsExist
<1>7. ASSUME NEW k \in 0..N, k # 0 PROVE step[k][f[k - 1]] = f[k - 1] \o block(k)
  <2>1. k \in 1..N /\ k - 1 \in 0..N
    BY <1>7
  <2> QED
    BY <1>5, <2>1
<1>8. f = [k \in 0..N |-> IF k = 0 THEN <<>> ELSE f[k - 1] \o block(k)]
  BY <1>6, <1>7, Zenon DEF Stepped
<1> QED
  BY <1>8, Zenon DEF Appended, block

\* The reader slices a block the way its writer laid the buses out.
LEMMA SlicesAgree ==
  ASSUME NEW l \in BusLayout, validate_vst3_bus_layout(l), NEW frames \in Nat
  PROVE  SamplesOfBuses(l, frames) = BusSlices(l, frames)
<1> DEFINE slots == Slots(l)
           N == l.inputs + l.outputs
           T == SlotSet(l)
           size == [k \in 1..N |-> Bus(l, slots[k]).channels * frames]
           start(k) == StartOf(l, slots[k])
           chan(k) == Bus(l, slots[k]).channels
           end == [k \in 0..N |-> IF k = 0 THEN 0 ELSE (start(k) + chan(k)) * frames]
           Body(g) == [k \in 0..Len(slots) |->
                         IF k = 0 THEN <<>>
                         ELSE g[k - 1] \o [x \in 1..(IF slots[k][1] THEN l.in ELSE l.out)[slots[k][2]].channels * frames |-> slots[k]]]
           owner == CHOOSE g : g = Body(g)
           side(input) == 1..(IF input THEN l.inputs ELSE l.outputs)
           samples(input, i) == {x \in DOMAIN owner[Len(slots)] : owner[Len(slots)][x] = <<input, i>>}
<1>0. l.inputs \in Nat /\ l.outputs \in Nat /\ N \in Nat /\ N >= 2
  BY SlotStarts DEF BusLayout
<1>1. Len(slots) = N /\ slots \in [1..N -> T] /\ \A k \in 1..N : slots[k] = IF k <= l.inputs THEN <<TRUE, k>> ELSE <<FALSE, k - l.inputs>>
  <2>1. Len(slots) = N /\ slots \in Seq(T)
    BY SlotsAre
  <2>2. slots \in [1..Len(slots) -> T]
    BY <2>1, LenProperties
  <2>3. \A k \in 1..N : slots[k] = IF k <= l.inputs THEN <<TRUE, k>> ELSE <<FALSE, k - l.inputs>>
    BY SlotsAre
  <2> QED
    BY <2>1, <2>2, <2>3, Zenon
<1>2. /\ start(1) = 0 /\ \A k \in 1..N : start(k) \in Nat /\ chan(k) \in Nat
      /\ \A k \in 1..N - 1 : start(k + 1) = start(k) + chan(k)
  BY SlotStarts
<1>3. SamplesOfBuses(l, frames) = [input \in BOOLEAN |-> [i \in side(input) |-> samples(input, i)]]
  BY Zenon DEF SamplesOfBuses, Slots
<1>4. BusSlices(l, frames) = [input \in BOOLEAN |-> [i \in side(input) |-> multibus_bus_samples(l, frames, input, i)]]
  BY Zenon DEF BusSlices
<1>5. ASSUME NEW i \in 1..N, NEW j \in 1..N, slots[i] = slots[j] PROVE i = j
  <2>1. /\ slots[i] = IF i <= l.inputs THEN <<TRUE, i>> ELSE <<FALSE, i - l.inputs>>
        /\ slots[j] = IF j <= l.inputs THEN <<TRUE, j>> ELSE <<FALSE, j - l.inputs>>
    BY <1>1
  <2>2. \A x, y : /\ <<TRUE, x>> # <<FALSE, y>> /\ (<<TRUE, x>> = <<TRUE, y>> => x = y)
                 /\ (<<FALSE, x>> = <<FALSE, y>> => x = y)
    OBVIOUS
  <2> HIDE DEF slots
  <2>3. \/ i <= l.inputs /\ j <= l.inputs /\ i = j
        \/ ~(i <= l.inputs) /\ ~(j <= l.inputs) /\ i - l.inputs = j - l.inputs
    BY ONLY <1>5, <2>1, <2>2
  <2> QED
    BY <1>0, <2>3
<1> HIDE DEF slots, N
<1>6. ASSUME NEW g PROVE Body(g) = Appended(g, N, size, slots)
  <2>1. \A k \in 1..N : size[k] = (IF slots[k][1] THEN l.in ELSE l.out)[slots[k][2]].channels * frames
    BY Zenon DEF Bus
  <2> HIDE DEF size
  <2>2. \A k \in 0..N : k # 0 => k \in 1..N
    BY <1>0
  <2> QED
    BY <1>1, <2>1, <2>2, Zenon DEF Appended
<1>7. size \in [1..N -> Nat] /\ end \in [0..N -> Nat]
  <2>1. ASSUME NEW k \in 1..N PROVE chan(k) * frames \in Nat /\ (start(k) + chan(k)) * frames \in Nat
    BY <1>2
  <2>2. \A k \in 0..N : k # 0 => k \in 1..N
    BY <1>0
  <2> HIDE DEF chan, start
  <2>3. size = [k \in 1..N |-> chan(k) * frames]
    BY Zenon DEF chan
  <2> HIDE DEF size
  <2>4. 0 \in Nat
    OBVIOUS
  <2> QED
    BY <2>1, <2>2, <2>3, <2>4, Zenon
<1>8. end[0] = 0 /\ \A k \in 1..N : end[k] = end[k - 1] + size[k]
                                    /\ end[k - 1] = start(k) * frames /\ end[k] = (start(k) + chan(k)) * frames
  <2> HIDE DEF start, chan
  <2>1. end[0] = 0 /\ \A k \in 1..N : end[k] = (start(k) + chan(k)) * frames
    BY <1>0
  <2>2. \A k \in 1..N : size[k] = chan(k) * frames
    BY Zenon DEF chan
  <2>3. ASSUME NEW k \in 1..N PROVE end[k - 1] = start(k) * frames
    <3>1. CASE k = 1
      <4>1. 0 * frames = 0
        OBVIOUS
      <4> HIDE DEF end
      <4> QED
        BY <1>2, <2>1, <3>1, <4>1, SMTT(40)
    <3>2. CASE k # 1
      <4> DEFINE m == k - 1
      <4>1. m \in 1..N /\ m \in 1..N - 1 /\ m + 1 = k
        BY <1>0, <3>2
      <4> HIDE DEF m, end
      <4>2. end[m] = (start(m) + chan(m)) * frames /\ start(m + 1) = start(m) + chan(m)
        BY <1>2, <2>1, <4>1
      <4> QED
        BY <4>1, <4>2 DEF m
    <3> QED
      BY <3>1, <3>2
  <2>4. ASSUME NEW k \in 1..N PROVE (start(k) + chan(k)) * frames = start(k) * frames + chan(k) * frames
    <3>1. start(k) \in Nat /\ chan(k) \in Nat
      BY <1>2
    <3>2. \A a, b, c \in Nat : (a + b) * c = a * c + b * c
      OBVIOUS
    <3> QED
      BY ONLY <3>1, <3>2, frames \in Nat
  <2> HIDE DEF end, size
  <2> QED
    BY <2>1, <2>2, <2>3, <2>4
<1> HIDE DEF size, end, start, chan
<1>9. owner = Appended(owner, N, size, slots)
  <2>1. \E g : g = Appended(g, N, size, slots)
    BY <1>0, <1>1, <1>7, BlocksExist
  <2> HIDE DEF Body
  <2>2. \E g : g = Body(g)
    BY <1>6, <2>1
  <2>3. owner = Body(owner)
    BY <2>2, Zenon
  <2> HIDE DEF owner
  <2> QED
    BY <1>6, <2>3
<1> HIDE DEF owner
<1>10. \A j \in 1..N : {x \in DOMAIN owner[N] : owner[N][x] = slots[j]} = end[j - 1] + 1..end[j]
  <2>1. \A i, j \in 1..N : slots[i] = slots[j] => i = j
    BY <1>5
  <2>2. \A k \in 1..N : end[k] = end[k - 1] + size[k]
    BY <1>8
  <2>3. end[0] = 0
    BY <1>8
  <2>4. Owned(owner, N, slots, end)
    BY ONLY <1>0, <1>1, <1>7, <1>9, <2>1, <2>2, <2>3, Blocks
  <2> QED
    BY <2>4 DEF Owned
<1>11. ASSUME NEW j \in 1..N, NEW input \in BOOLEAN, NEW i, slots[j] = <<input, i>>
       PROVE  samples(input, i) = multibus_bus_samples(l, frames, input, i)
  <2>1. samples(input, i) = end[j - 1] + 1..end[j]
    <3>1. {x \in DOMAIN owner[N] : owner[N][x] = slots[j]} = end[j - 1] + 1..end[j]
      BY <1>10
    <3> QED
      BY <1>1, <1>11, <3>1, Zenon
  <2>2. end[j - 1] = start(j) * frames /\ end[j] = (start(j) + chan(j)) * frames
    BY <1>8
  <2>3. /\ start(j) = (IF input THEN 0 ELSE BusChannels(l.in)) + ChannelsBefore(IF input THEN l.in ELSE l.out, i)
        /\ chan(j) = (IF input THEN l.in ELSE l.out)[i].channels
    <3>1. <<input, i>>[1] = input /\ <<input, i>>[2] = i
      OBVIOUS
    <3>2. start(j) = StartOf(l, <<input, i>>) /\ chan(j) = Bus(l, <<input, i>>).channels
      BY <1>11, Zenon DEF start, chan
    <3> QED
      BY <3>1, <3>2, Zenon DEF StartOf, Bus
  <2>4. multibus_bus_samples(l, frames, input, i) = (start(j) * frames + 1)..(start(j) + chan(j)) * frames
    BY <2>3, Zenon DEF multibus_bus_samples
  <2> HIDE DEF samples
  <2> QED
    BY <2>1, <2>2, <2>4, Zenon
<1>12. ASSUME NEW input \in BOOLEAN, NEW i \in side(input)
       PROVE  \E j \in 1..N : slots[j] = <<input, i>>
  <2>1. CASE input = TRUE
    <3>1. i \in 1..N /\ i <= l.inputs
      BY <1>0, <2>1 DEF N
    <3> QED
      BY <1>1, <2>1, <3>1
  <2>2. CASE input = FALSE
    <3> DEFINE j == l.inputs + i
    <3>1. j \in 1..N /\ ~(j <= l.inputs) /\ j - l.inputs = i
      BY <1>0, <2>2 DEF N
    <3> HIDE DEF j
    <3>2. slots[j] = <<FALSE, i>>
      BY <1>1, <3>1
    <3> QED
      BY <2>2, <3>1, <3>2
  <2> QED
    BY <2>1, <2>2
<1>13. \A input \in BOOLEAN : \A i \in side(input) : samples(input, i) = multibus_bus_samples(l, frames, input, i)
  <2> HIDE DEF samples, side
  <2> QED
    BY <1>11, <1>12
<1> HIDE DEF samples, side
<1> QED
  BY <1>3, <1>4, <1>13, Zenon

\* The channels of a layout, and the bytes of its largest block.
LEMMA BlockBytes ==
  ASSUME NEW l \in BusLayout, validate_vst3_bus_layout(l), NEW frames \in 1..512
  PROVE  /\ MultibusBytes(l, frames) \in Nat /\ MultibusBytes(l, frames) >= 28 + 2 * MaxBuses * 8
         /\ MultibusBytes(l, frames) <= MaxPayloadBytes
<1> DEFINE a == BusChannels(l.in) + BusChannels(l.out)
           M == MaxBusChannels + MaxBusChannels
<1>1. BusChannels(l.in) \in Nat /\ BusChannels(l.in) <= MaxBusChannels
  BY ActiveBuses DEF BusLayout, validate_vst3_bus_layout
<1>2. BusChannels(l.out) \in Nat /\ BusChannels(l.out) <= MaxBusChannels
  BY ActiveBuses DEF BusLayout, validate_vst3_bus_layout
<1>3. a \in Nat /\ M \in Nat /\ a <= M /\ MaxBuses \in Nat
  BY <1>1, <1>2, PeripheralAssumption
<1>4. MultibusSamples(l, frames) = a * frames
  BY DEF MultibusSamples
<1> HIDE DEF a, M
<1>5. a * frames \in Nat /\ a * frames <= M * 512
  <2>1. \A x, y \in Nat, f \in 1..512 : x <= y => x * f \in Nat /\ x * f <= x * 512 /\ x * 512 <= y * 512
    <3> SUFFICES ASSUME NEW x \in Nat, NEW y \in Nat, NEW f \in 1..512, x <= y
                 PROVE  x * f \in Nat /\ x * f <= x * 512 /\ x * 512 <= y * 512
      OBVIOUS
    <3>1. x * 512 <= y * 512 /\ x * 512 \in Nat /\ y * 512 \in Nat
      OBVIOUS
    <3>2. x * f \in Nat /\ x * (512 - f) \in Nat /\ x * 512 = x * f + x * (512 - f)
      OBVIOUS
    <3> QED
      BY <3>1, <3>2
  <2>2. a * frames \in Nat /\ a * frames <= a * 512 /\ a * 512 <= M * 512
    BY <1>3, <2>1
  <2>3. a * 512 \in Nat /\ M * 512 \in Nat
    BY <1>3
  <2> QED
    BY <2>2, <2>3
<1>6. MultibusBytes(l, frames) = 28 + 2 * MaxBuses * 8 + 4 * (a * frames)
  BY <1>4, Zenon DEF MultibusBytes
<1> DEFINE n == a * frames
           m == M * 512
           h == 28 + 2 * MaxBuses * 8
<1>7. h + 4 * m <= MaxPayloadBytes
  <2>1. 28 + 2 * MaxBuses * 8 + 4 * (MaxBusChannels + MaxBusChannels) * 512 = h + 4 * m
    <3>1. 4 * (MaxBusChannels + MaxBusChannels) * 512 = 4 * ((MaxBusChannels + MaxBusChannels) * 512)
      BY PeripheralAssumption
    <3> QED
      BY <3>1 DEF M
  <2> HIDE DEF h, m
  <2> QED
    BY <2>1, BusAssumption
<1>8. h \in Nat /\ n \in Nat /\ m \in Nat /\ n <= m /\ MaxPayloadBytes \in Nat
  <2>1. MaxPayloadBytes \in Nat
    BY SMT DEF MaxPayloadBytes
  <2> QED
    BY <1>3, <1>5, <2>1
<1>9. MultibusBytes(l, frames) = h + 4 * n
  BY <1>6
<1> HIDE DEF h, n, m
<1>10. h + 4 * n \in Nat /\ h + 4 * n >= h /\ h + 4 * n <= MaxPayloadBytes
  BY <1>7, <1>8
<1> QED
  BY <1>9, <1>10 DEF h

\* A block of several buses is carried faithfully, and read stably.
LEMMA WorkerMultibusAgrees == Agree("WorkerMultibus")
<1> DEFINE K == "WorkerMultibus"
           V == [f : WorkerHeader, body : [layout : BusLayout, samples : SampleRun]]
           W == [schema : Nat, reservedZero : BOOLEAN, layout : BusLayout, samples : SampleRun]
           ok(f, b) == /\ f.type \in MultibusTypes /\ validate_vst3_bus_layout(b.layout) /\ f.frames \in 1..512
                       /\ b.samples.n = MultibusSamples(b.layout, f.frames) /\ b.samples.finite
                       /\ f.payload = MultibusBytes(b.layout, f.frames)
           B(b) == [schema |-> 1, reservedZero |-> TRUE, layout |-> b.layout, samples |-> b.samples]
           H == [layout : BusLayout, samples : SampleRun]
<1>1. /\ ValueType(K) = V /\ WireType(K) = MultibusFrame /\ K \in LaxReaders /\ K # "SceneCatalog"
      /\ K \notin {"WorkerFrame", "WorkerAudio"}
  BY ValueTypes, WireTypes DEF LaxReaders
<1>2. \A v : Meaning(K, v) = [f |-> v.f, body |-> v.body, slices |-> SamplesOfBuses(v.body.layout, v.f.frames)]
  BY Meanings
<1>3. ASSUME NEW v, "f" \in DOMAIN v, "body" \in DOMAIN v, v.f \in WorkerHeader
      PROVE  Encode(K, v) = IF ok(v.f, v.body) /\ Encodable(v.f) THEN WorkerFrame(v.f, B(v.body)) ELSE Refused
  <2> DEFINE c == [v EXCEPT !.body = B(v.body)]
  <2>1. Encode(K, v) = IF ok(v.f, v.body) THEN encode_vst3_worker_frame(c) ELSE Refused
    BY Writers DEF encode_vst3_worker_multibus_frame
  <2>2. c.f = v.f /\ c.body = B(v.body)
    <3> HIDE DEF B
    <3> QED
      BY <1>3
  <2> HIDE DEF c, B, ok
  <2>3. encode_vst3_worker_frame(c) = IF Encodable(v.f) THEN WorkerFrame(v.f, B(v.body)) ELSE Refused
    BY <1>3, <2>2, WorkerWrites
  <2> QED
    BY <2>1, <2>3
<1>4. ASSUME NEW f \in WorkerHeader, NEW b \in H, ok(f, b)
      PROVE  Encodable(f) /\ f.payload >= 28 + 2 * MaxBuses * 8 /\ SamplesOfBuses(b.layout, f.frames) = BusSlices(b.layout, f.frames)
  <2>1. b.layout \in BusLayout /\ validate_vst3_bus_layout(b.layout) /\ f.frames \in 1..512 /\ f.frames \in Nat
    BY <1>4
  <2>2. f.payload >= 28 + 2 * MaxBuses * 8 /\ f.payload <= MaxPayloadBytes
    <3>1. f.payload = MultibusBytes(b.layout, f.frames)
      BY <1>4
    <3> QED
      BY <2>1, <3>1, BlockBytes
  <2>3. SamplesOfBuses(b.layout, f.frames) = BusSlices(b.layout, f.frames)
    BY <2>1, SlicesAgree
  <2>4. f.type \in WorkerTypes /\ f.type # "ProcessBlock" /\ f.type # "ProcessBlockWithParameters"
    BY <1>4 DEF MultibusTypes, WorkerTypes
  <2> QED
    BY <2>2, <2>3, <2>4 DEF Encodable
<1>5. ASSUME NEW v, "f" \in DOMAIN v, "body" \in DOMAIN v, v.f \in WorkerHeader, v.body \in H, ok(v.f, v.body)
      PROVE  /\ Encode(K, v) \in WireType(K) /\ Encode(K, v) # Refused /\ ~EncoderRefused(K, Encode(K, v))
             /\ Decode(K, Encode(K, v)) = Meaning(K, v)
  <2> DEFINE w == Encode(K, v)
             b == B(v.body)
             h == v.body
             f == v.f
  <2>0. Encodable(f) /\ f.payload >= 28 + 2 * MaxBuses * 8 /\ SamplesOfBuses(h.layout, f.frames) = BusSlices(h.layout, f.frames)
    <3> HIDE DEF ok, H
    <3> QED
      BY <1>4, <1>5
  <2>1. w = WorkerFrame(f, b)
    BY <1>3, <1>5, <2>0
  <2>2. /\ b.schema = 1 /\ b.reservedZero /\ b.layout = h.layout /\ b.samples = h.samples /\ b \in W
        /\ h = [layout |-> h.layout, samples |-> h.samples]
    BY <1>5
  <2>3. ok(f, h) /\ f \in WorkerHeader
    BY <1>5
  <2>4. Meaning(K, v) = [f |-> f, body |-> h, slices |-> SamplesOfBuses(h.layout, f.frames)]
    BY <1>2
  <2> HIDE DEF b, B, W, f, h
  <2>5. worker_frame_accepted(WorkerFrame(f, b))
    <3> DEFINE c == [f |-> f, body |-> b]
    <3>1. c.f = f /\ c.body = b
      OBVIOUS
    <3> HIDE DEF c
    <3> QED
      BY <2>0, <2>3, <3>1, WorkerWrites
  <2>6. /\ WorkerFrame(f, b) \in PipeFrame(W) /\ WorkerFrame(f, b).f = f /\ WorkerFrame(f, b).body = b
        /\ WorkerFrame(f, b) # Refused
    BY <2>2, <2>3, PipeFrames
  <2>7. w \in PipeFrame(W) /\ w.f = f /\ w.body = b /\ w # Refused /\ worker_frame_accepted(w)
    BY <2>1, <2>5, <2>6, Zenon
  <2> HIDE DEF w
  <2>8. w \in MultibusFrame
    BY <2>2, <2>3, <2>7 DEF MultibusFrame, W
  <2>9. Decode(K, w) = [f |-> f, body |-> h, slices |-> SamplesOfBuses(h.layout, f.frames)]
    <3>1. validate_vst3_worker_multibus_frame(w)
            = [f |-> w.f, body |-> [layout |-> w.body.layout, samples |-> w.body.samples],
               slices |-> BusSlices(w.body.layout, w.f.frames)]
      BY <2>0, <2>2, <2>3, <2>7 DEF validate_vst3_worker_multibus_frame
    <3>2. Decode(K, w) = validate_vst3_worker_multibus_frame(w)
      BY Readers
    <3> HIDE DEF K
    <3> QED
      BY ONLY <2>0, <2>2, <2>7, <3>1, <3>2, Zenon
  <2>10. ~EncoderRefused(K, w)
    BY <2>7, Refusals
  <2> HIDE DEF K
  <2> QED
    BY <1>1, <2>4, <2>7, <2>8, <2>9, <2>10, Zenon DEF w
<1>6. ASSUME NEW v \in V PROVE Faithful(K, v)
  <2>0. "f" \in DOMAIN v /\ "body" \in DOMAIN v /\ v.f \in WorkerHeader /\ v.body \in H
    OBVIOUS
  <2>1. CASE ok(v.f, v.body)
    <3>1. /\ Encode(K, v) \in WireType(K) /\ ~EncoderRefused(K, Encode(K, v))
          /\ Decode(K, Encode(K, v)) = Meaning(K, v)
      <4> HIDE DEF V, K, ok, H
      <4> QED
        BY <1>5, <2>0, <2>1
    <3>2. Meaning(K, v) # Refused
      BY <1>2 DEF Refused
    <3> HIDE DEF V, K, ok
    <3> QED
      BY <3>1, <3>2, WrittenAndRead, Zenon
  <2>2. CASE ~ok(v.f, v.body)
    <3>1. Encode(K, v) = Refused
      <4> HIDE DEF V, K, ok, B
      <4> QED
        BY <1>3, <2>0, <2>2
    <3> QED
      BY <3>1, NotWritten
  <2> QED
    BY <2>1, <2>2
<1>7. ASSUME NEW p \in WireType(K) PROVE Stable(K, p)
  <2> DEFINE r == Decode(K, p)
  <2>1. CASE r = Refused
    BY <2>1, NotRead
  <2>2. CASE r # Refused
    <3> DEFINE b == [layout |-> p.body.layout, samples |-> p.body.samples]
    <3>1. /\ r = [f |-> p.f, body |-> b, slices |-> BusSlices(p.body.layout, p.f.frames)]
          /\ worker_frame_accepted(p) /\ p.f.type \in MultibusTypes /\ p.f.frames \in 1..512
          /\ validate_vst3_bus_layout(p.body.layout)
          /\ p.f.payload = MultibusBytes(p.body.layout, p.f.frames) /\ p.body.samples.finite
      BY <2>2, Readers DEF validate_vst3_worker_multibus_frame
    <3>2. p \in PipeFrame(W) /\ p.body.samples.n = MultibusSamples(p.body.layout, p.f.frames)
      BY <1>1, <3>1 DEF MultibusFrame
    <3>3. p.f \in WorkerHeader /\ p.body \in W
      <4> HIDE DEF W
      <4> QED
        BY <3>2, PipeFrames
    <3>4. p.body.layout \in BusLayout /\ p.body.samples \in SampleRun
      BY <3>3
    <3>5. b \in H /\ b.layout = p.body.layout /\ b.samples = p.body.samples
      BY <3>4
    <3> HIDE DEF b
    <3>6. r.f = p.f /\ r.body = b /\ "f" \in DOMAIN r /\ "body" \in DOMAIN r
      <4> HIDE DEF r
      <4> QED
        BY <3>1
    <3> HIDE DEF r
    <3>7. ok(r.f, r.body)
      BY <3>1, <3>2, <3>5, <3>6
    <3> HIDE DEF V, K, ok, H
    <3>8. Encode(K, r) # Refused /\ Decode(K, Encode(K, r)) = Meaning(K, r)
      BY <1>5, <3>3, <3>5, <3>6, <3>7
    <3> QED
      BY <1>1, <3>8, ReadAndUnderstood DEF r
  <2> QED
    BY <2>1, <2>2
<1> QED
  BY <1>1, <1>6, <1>7 DEF Agree

-------------------------------------------------------------------------------
(* Every format, and the specification.                                       *)

\* Every format but the two texts agrees; the texts are the scanners'.
LEMMA EveryFormatAgrees == \A k \in FormatKinds : k \in Scanned \/ Agree(k)
<1>1. /\ Agree("Volume") /\ Agree("GroupedVolume") /\ Agree("SessionVolume") /\ Agree("SessionRoute")
      /\ Agree("RouteRule") /\ Agree("IrPrepare") /\ Agree("SceneCatalog") /\ Agree("CalibrationPeq")
      /\ Agree("SceneApply") /\ Agree("DeviceSwitch")
  BY VolumeAgrees, GroupedVolumeAgrees, SessionVolumeAgrees, SessionRouteAgrees, RouteRuleAgrees,
     IrPrepareAgrees, SceneCatalogAgrees, CalibrationPeqAgrees, SceneApplyAgrees, DeviceSwitchAgrees
<1>2. /\ Agree("DeviceCatalog") /\ Agree("ControlStatus") /\ Agree("SessionCatalog") /\ Agree("EqVisual")
      /\ Agree("DriverStream") /\ Agree("DriverHeader") /\ Agree("EndpointState") /\ Agree("TabPacket")
      /\ Agree("WebSocket") /\ Agree("WorkerFrame") /\ Agree("WorkerAudio") /\ Agree("WorkerParameters")
      /\ Agree("WorkerMultibus")
  BY DeviceCatalogAgrees, ControlStatusAgrees, SessionCatalogAgrees, EqVisualAgrees, DriverStreamAgrees,
     DriverHeaderAgrees, EndpointStateAgrees, TabPacketAgrees, WebSocketAgrees, WorkerFrameAgrees,
     WorkerAudioAgrees, WorkerParametersAgrees, WorkerMultibusAgrees
<1> QED
  BY <1>1, <1>2, Zenon DEF FormatKinds, Scanned

\* What is on the wire is what the writer wrote, or what it was altered to; what
\* was read is what the reader makes of it.
CodecInv ==
    /\ kind \in Kinds /\ value \in Values(kind)
    /\ ~altered => wire \in {[stage |-> "unwritten"], Encode(kind, value)}
    /\ altered => /\ Encode(kind, value) # Refused
                  /\ wire = Encode(kind, value) \/ wire \in Tampered(kind, Encode(kind, value))
    /\ ~Unread => wire # [stage |-> "unwritten"] /\ wire # Refused /\ result = Decode(kind, wire)

\* CodecInv is an invariant.
LEMMA CodecInvHolds == CodecSpec => []CodecInv
<1>1. CodecInit => CodecInv
  BY DEF CodecInit, CodecInv, Unread
<1>2. CodecInv /\ [CodecNext]_codecVars => CodecInv'
  <2> SUFFICES ASSUME CodecInv, [CodecNext]_codecVars PROVE CodecInv'
    OBVIOUS
  <2>1. CASE Write
    BY <2>1, Zenon DEF CodecInv, Write, Unread
  <2>2. CASE Alter
    <3>1. ~altered /\ wire = Encode(kind, value) /\ Encode(kind, value) # Refused
      BY <2>2, Zenon DEF CodecInv, Alter
    <3>2. altered' = TRUE /\ kind' = kind /\ value' = value /\ result' = result /\ Unread
          /\ wire' \in Tampered(kind, Encode(kind, value))
      BY <2>2, <3>1, Zenon DEF Alter, Unread
    <3> QED
      BY <3>1, <3>2, Zenon DEF CodecInv, Unread
  <2>3. CASE Read
    BY <2>3, Zenon DEF CodecInv, Read, Unread
  <2>4. CASE UNCHANGED codecVars
    BY <2>4, Zenon DEF CodecInv, Unread, codecVars
  <2> QED
    BY <2>1, <2>2, <2>3, <2>4 DEF CodecNext
<1> QED
  BY <1>1, <1>2, PTL DEF CodecSpec

\* What the scanners read: the text itself, if it is one of the standard.
LEMMA ScannedKinds ==
  ASSUME CodecInv, kind \in Scanned, ~Unread
  PROVE  /\ value \in Seq(Byte) /\ wire = [text |-> value] /\ wire # Refused
         /\ ~EncoderRefused(kind, wire) /\ Meaning(kind, value) = wire
         /\ result = IF IsTextOf(value, kind = "Text") THEN wire ELSE Refused
<1>1. kind \in Kinds /\ value \in Values(kind)
  BY DEF CodecInv
<1>2. value \in ValueType(kind) /\ ValueType(kind) = Seq(Byte)
  <2>1. ValueType("Text") = Seq(Byte) /\ ValueType("Utf8") = Seq(Byte)
    BY DEF ValueType, Scanned
  <2>2. value \in ValueType(kind)
    BY <1>1, CodecAssumption, Zenon
  <2> QED
    BY <2>1, <2>2 DEF Scanned
<1>3. /\ \A v : Encode("Text", v) = [text |-> v] /\ Meaning("Text", v) = [text |-> v]
      /\ \A v : Encode("Utf8", v) = [text |-> v] /\ Meaning("Utf8", v) = [text |-> v]
      /\ \A w : ~EncoderRefused("Text", w) /\ ~EncoderRefused("Utf8", w)
      /\ \A v : [text |-> v] # Refused /\ [text |-> v].text = v
  <2>1. \A v : Encode("Text", v) = [text |-> v] /\ Encode("Utf8", v) = [text |-> v]
    BY DEF Encode, Scanned
  <2>2. \A v : Meaning("Text", v) = [text |-> v] /\ Meaning("Utf8", v) = [text |-> v]
    BY DEF Meaning, Scanned
  <2>3. \A w : ~EncoderRefused("Text", w) /\ ~EncoderRefused("Utf8", w)
    BY DEF EncoderRefused, Scanned
  <2>4. \A v : [text |-> v] # Refused /\ [text |-> v].text = v
    BY DEF Refused
  <2> QED
    BY <2>1, <2>2, <2>3, <2>4
<1>4. Encode(kind, value) = [text |-> value] /\ Meaning(kind, value) = [text |-> value]
  BY <1>3, Zenon DEF Scanned
<1>5. wire = [text |-> value]
  <2>1. wire = Encode(kind, value) \/ (altered /\ wire \in Tampered(kind, Encode(kind, value)))
    BY Zenon DEF CodecInv
  <2>2. \A w \in Tampered(kind, Encode(kind, value)) : FALSE
    <3>1. Encode(kind, value) # Refused
      BY <1>3, <1>4, Zenon
    <3> QED
      BY <1>1, <3>1, CodecAssumption, Zenon
  <2> QED
    BY <1>4, <2>1, <2>2, Zenon
<1>6. result = Decode(kind, wire)
  BY DEF CodecInv
<1>7. ASSUME NEW p, p.text \in Seq(Byte)
      PROVE  /\ Decode("Text", p) = IF IsTextOf(p.text, TRUE) THEN p ELSE Refused
             /\ Decode("Utf8", p) = IF IsTextOf(p.text, FALSE) THEN p ELSE Refused
  <2>1. /\ Decode("Text", p) = IF is_printable_utf8(p.text) THEN p ELSE Refused
        /\ Decode("Utf8", p) = IF has_valid_utf8(p.text) THEN p ELSE Refused
    BY DEF Decode, Scanned
  <2>2. is_printable_utf8(p.text) = IsTextOf(p.text, TRUE) /\ has_valid_utf8(p.text) = IsTextOf(p.text, FALSE)
    BY <1>7, ScannersAreTheStandard
  <2> QED
    BY <2>1, <2>2, Zenon
<1>8. result = IF IsTextOf(value, kind = "Text") THEN wire ELSE Refused
  <2>1. wire.text = value /\ wire.text \in Seq(Byte)
    BY <1>2, <1>3, <1>5
  <2>2. /\ Decode("Text", wire) = IF IsTextOf(value, TRUE) THEN wire ELSE Refused
        /\ Decode("Utf8", wire) = IF IsTextOf(value, FALSE) THEN wire ELSE Refused
    BY <1>7, <2>1
  <2>3. CASE kind = "Text"
    <3>1. (kind = "Text") = TRUE
      BY <2>3
    <3> QED
      BY <1>6, <2>2, <2>3, <3>1, Zenon
  <2>4. CASE kind = "Utf8"
    <3>1. (kind = "Text") = FALSE
      BY <2>4
    <3> QED
      BY <1>6, <2>2, <2>4, <3>1, Zenon
  <2> QED
    BY <2>3, <2>4 DEF Scanned
<1>9. ~EncoderRefused(kind, wire) /\ wire # Refused
  BY <1>3, <1>5 DEF Scanned
<1> QED
  BY <1>2, <1>4, <1>5, <1>8, <1>9

\* The scanners accept exactly the texts of the standard, in every behaviour.
THEOREM ScannersMatch == CodecSpec => []ScannerMatchesStandard
<1>1. CodecInv => ScannerMatchesStandard
  BY ScannedKinds DEF ScannerMatchesStandard, Accepted
<1> QED
  BY <1>1, CodecInvHolds, PTL

\* Writers and readers of each format agree, in every behaviour.
THEOREM FormatsStayInAgreement == CodecSpec => []FormatsAgree
<1>1. ASSUME CodecInv, Unread PROVE FormatsAgree
  BY <1>1 DEF FormatsAgree, NeverMisread, WrittenIsUnderstood, AcceptedIsCanonical, Accepted
<1>2. ASSUME CodecInv, ~Unread, kind \in Scanned PROVE FormatsAgree
  <2>1. /\ wire # Refused /\ ~EncoderRefused(kind, wire) /\ Meaning(kind, value) = wire
        /\ result = IF IsTextOf(value, kind = "Text") THEN wire ELSE Refused
    BY <1>2, ScannedKinds
  <2>2. NeverMisread
    BY <2>1, Zenon DEF NeverMisread
  <2>3. WrittenIsUnderstood
    BY <1>2, <2>1, Zenon DEF WrittenIsUnderstood, Accepted
  <2>4. AcceptedIsCanonical
    BY <1>2 DEF AcceptedIsCanonical
  <2> QED
    BY <2>2, <2>3, <2>4 DEF FormatsAgree
<1>3. ASSUME CodecInv, ~Unread, kind \notin Scanned PROVE FormatsAgree
  <2> DEFINE w == Encode(kind, value)
  <2>1. kind \in Kinds /\ value \in Values(kind) /\ value \in ValueType(kind) /\ Agree(kind)
    <3>1. kind \in Kinds /\ value \in Values(kind)
      BY <1>3 DEF CodecInv
    <3>2. value \in ValueType(kind) /\ kind \in FormatKinds
      BY <3>1, CodecAssumption
    <3> QED
      BY <1>3, <3>1, <3>2, EveryFormatAgrees
  <2>2. result = Decode(kind, wire) /\ wire # Refused
    BY <1>3 DEF CodecInv
  <2>3. ~altered => wire = w
    BY <1>3, Zenon DEF CodecInv
  <2>4. Faithful(kind, value)
    BY <2>1 DEF Agree
  <2>5. wire \in WireType(kind)
    <3>1. wire = w \/ (w # Refused /\ wire \in Tampered(kind, w))
      BY <1>3, <2>3, Zenon DEF CodecInv
    <3>2. CASE wire = w
      BY <2>2, <2>4, <3>2, Zenon DEF Faithful
    <3>3. CASE w # Refused /\ wire \in Tampered(kind, w)
      BY <2>1, <3>3, CodecAssumption, Zenon
    <3> QED
      BY <3>1, <3>2, <3>3
  <2>6. Stable(kind, wire)
    BY <2>1, <2>5 DEF Agree
  <2>7. NeverMisread
    BY <2>2, <2>3, <2>4, Zenon DEF NeverMisread, Faithful
  <2>8. WrittenIsUnderstood
    BY <1>3, <2>2, <2>3, <2>4, Zenon DEF WrittenIsUnderstood, Accepted, Faithful
  <2>9. AcceptedIsCanonical
    <3>1. result # Refused => CanonicalFor(kind, wire, result, Encode(kind, result))
      BY <2>2, <2>6, Zenon DEF Stable
    <3>2. CanonicalFor(kind, wire, result, Encode(kind, result)) => Canonical(Encode(kind, result))
      BY Zenon DEF CanonicalFor, Canonical
    <3> QED
      BY <3>1, <3>2 DEF AcceptedIsCanonical, Accepted
  <2> QED
    BY <2>7, <2>8, <2>9 DEF FormatsAgree
<1>4. CodecInv => FormatsAgree
  BY <1>1, <1>2, <1>3
<1> QED
  BY <1>4, CodecInvHolds, PTL
===============================================================================
