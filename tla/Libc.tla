-------------------------------- MODULE Libc --------------------------------
(***************************************************************************)
(* The functions of the kernel's C library.  Memory is a function from     *)
(* addresses to bytes, 0 among them, and what a loop stores, byte after    *)
(* byte, is a fold; a character that is printed is a digit's value or a    *)
(* string.  printf's own results (the number of bytes, and -1 from 2^31    *)
(* bytes on) are left out.                                                 *)
(***************************************************************************)
EXTENDS Integers, Sequences
LOCAL INSTANCE SequencesExt
LOCAL INSTANCE FiniteSetsExt

CONSTANT INT_BITS    \* the width of an int

-----------------------------------------------------------------------------
(* string                                                                  *)

\* The indices of a loop that counts up, and of one that counts down.
Upwards(n) == [k \in 1 .. n |-> k - 1]
Downwards(n) == [k \in 1 .. n |-> n - k]

\* dst[i] = src[i] for each i in turn.
Copy(m, dst, src, indices) ==
  FoldLeft(LAMBDA n, i : [n EXCEPT ![dst + i] = n[src + i]], m, indices)

memcpy(m, dst, src, size) == Copy(m, dst, src, Upwards(size))

\* BUG: the direction is not chosen.
memmoveUpwards(m, dst, src, size) == Copy(m, dst, src, Upwards(size))

memmove(m, dst, src, size) ==
  Copy(m, dst, src, IF dst < src THEN Upwards(size) ELSE Downwards(size))

memset(m, s, c, size) ==
  FoldLeft(LAMBDA n, i : [n EXCEPT ![s + i] = c % 256], m, Upwards(size))

Sign(x, y) == IF x < y THEN -1 ELSE IF y < x THEN 1 ELSE 0

\* Both comparisons return at the first index that decides.
CompareAt(m, a, b, indices) ==
  IF indices = {} THEN 0 ELSE LET i == Min(indices) IN Sign(m[a + i], m[b + i])

memcmp(m, a, b, size) == CompareAt(m, a, b, {i \in 0 .. size - 1 : m[a + i] # m[b + i]})

\* BUG: the comparison goes on behind the end of two equal strings.
strncmpOn(m, a, b, n) == CompareAt(m, a, b, {i \in 0 .. n - 1 : m[a + i] # m[b + i]})

strncmp(m, a, b, n) ==
  CompareAt(m, a, b, {i \in 0 .. n - 1 : m[a + i] # m[b + i] \/ m[a + i] = 0})

strnlen(m, s, maxlen) == Min({len \in 0 .. maxlen : len = maxlen \/ m[s + len] = 0})

strncpy(m, dst, src, dsize) ==
  LET dlen == strnlen(m, src, dsize) IN
    memset(memcpy(m, dst, src, dlen), dst + dlen, 0, dsize - dlen)

-----------------------------------------------------------------------------
(* math                                                                    *)

\* The division of C, which rounds towards 0.
Quotient(x, y) == IF x >= 0 THEN x \div y ELSE -((-x) \div y)

ceildiv(x, y) == 1 + Quotient(x - 1, y)

\* The loop of ceillog2: halves the value, counts, and notes whether a bit was lost.
RECURSIVE Halve(_, _, _)
Halve(value, result, sup) ==
  IF value > 1 THEN Halve(value \div 2, result + 1, sup \/ value % 2 = 1)
  ELSE result + (IF sup THEN 1 ELSE 0)

ceillog2(value) == IF value \in {0, 1} THEN value ELSE Halve(value, 0, FALSE)

\* The loop of itoa: the digits, the last one first.
RECURSIVE Digits(_, _)
Digits(ud, base) ==
  <<ud % base>> \o (IF ud \div base = 0 THEN <<>> ELSE Digits(ud \div base, base))

itoa(base, d) ==
  IF base = 10 /\ d < 0 THEN <<"-">> \o Reverse(Digits(-d, base))
  ELSE Reverse(Digits(d % 2 ^ INT_BITS, base))

-----------------------------------------------------------------------------
(* stdio                                                                   *)

Conversions == {"c", "s", "d", "i", "o", "x", "X"}

Base(conversion) ==
  CASE conversion \in {"d", "i"} -> 10 [] conversion = "o" -> 8 [] OTHER -> 16

\* What a conversion prints of an argument, taken as a character, a string or an int.
Convert(conversion, arg) ==
  CASE conversion = "c" -> <<arg.char>>
    [] conversion = "s" -> arg.string
    [] OTHER -> itoa(Base(conversion), arg.int)

From(s, i) == SubSeq(s, i, Len(s))

\* The text up to the next per cent sign, not counting one at the start.
Amount(formats) == Min({n \in 1 .. Len(formats) : n = Len(formats) \/ formats[n + 1] = "%"})

IsText(formats) == formats[1] # "%" \/ (Len(formats) > 1 /\ formats[2] = "%")

\* BUG: the first of two per cent signs is printed, and the second begins a conversion.
TextStartFirst(formats) == 1

TextStart(formats) == IF formats[1] = "%" THEN 2 ELSE 1

\* format, with the arguments in a sequence; an unknown conversion ends it.
RECURSIVE format(_, _)
format(formats, args) ==
  IF formats = <<>> THEN <<>>
  ELSE IF IsText(formats) THEN
    LET text == From(formats, TextStart(formats))
    IN  SubSeq(text, 1, Amount(text)) \o format(From(text, Amount(text) + 1), args)
  ELSE IF Len(formats) > 1 /\ formats[2] \in Conversions THEN
    Convert(formats[2], Head(args)) \o format(From(formats, 3), Tail(args))
  ELSE formats

-----------------------------------------------------------------------------
(* What they are to return.                                                *)

Bytes(m, s, n) == [i \in 1 .. n |-> m[s + i - 1]]

\* The string at s, up to n bytes of it, and the order of two strings.
String(m, s, n) == Bytes(m, s, strnlen(m, s, n))

Before(s, t) ==
  \E k \in 1 .. Len(t) :
    /\ k <= Len(s) + 1 /\ SubSeq(s, 1, k - 1) = SubSeq(t, 1, k - 1)
    /\ k <= Len(s) => s[k] < t[k]

Order(s, t) == IF s = t THEN 0 ELSE IF Before(s, t) THEN -1 ELSE 1

\* n changes m at s only, where it puts the bytes.
Stores(n, m, s, bytes) ==
  /\ Bytes(n, s, Len(bytes)) = bytes
  /\ \A a \in DOMAIN m \ (s .. s + Len(bytes) - 1) : n[a] = m[a]

\* memmove puts the old contents of src at dst, also where the two overlap, and memcpy
\* where they do not.
Moves(m, dst, src, size) ==
  /\ Stores(memmove(m, dst, src, size), m, dst, Bytes(m, src, size))
  /\ dst + size <= src \/ src + size <= dst =>
       Stores(memcpy(m, dst, src, size), m, dst, Bytes(m, src, size))

\* strncmp and memcmp order strings and blocks of bytes as a dictionary does; strncpy
\* copies a string and pads it, where the two do not overlap.
Strings(m, a, b, n) ==
  /\ strncmp(m, a, b, n) = Order(String(m, a, n), String(m, b, n))
  /\ memcmp(m, a, b, n) = Order(Bytes(m, a, n), Bytes(m, b, n))
  /\ a + n <= b \/ b + n <= a =>
       LET s == String(m, b, n)
       IN  Stores(strncpy(m, a, b, n), m, a, s \o [i \in 1 .. n - Len(s) |-> 0])

Value(digits, base) == FoldLeft(LAMBDA v, x : v * base + x, 0, digits)

\* itoa writes d, in two's complement unless the base is 10, without leading zeros.
Writes(base, d) ==
  LET s == itoa(base, d)
      negative == base = 10 /\ d < 0
      digits == IF negative THEN Tail(s) ELSE s
  IN  /\ negative => s[1] = "-"
      /\ \A i \in DOMAIN digits : digits[i] \in 0 .. base - 1
      /\ Value(digits, base) = IF negative THEN -d ELSE d % 2 ^ INT_BITS
      /\ Len(digits) > 1 => digits[1] # 0

\* ceildiv of positive numbers, as terminal_initialize asks for, and ceillog2 from 2 on
\* are the least that suffice.
RoundsUp(x, y) ==
  /\ x >= 1 => y * (ceildiv(x, y) - 1) < x /\ x <= y * ceildiv(x, y)
  /\ x >= 2 => 2 ^ (ceillog2(x) - 1) < x /\ x <= 2 ^ ceillog2(x)

\* What printf is to print, character after character.
RECURSIVE Printed(_, _)
Printed(formats, args) ==
  CASE formats = <<>> -> <<>>
    [] formats # <<>> /\ formats[1] # "%" -> <<formats[1]>> \o Printed(Tail(formats), args)
    [] Len(formats) > 1 /\ formats[1] = "%" /\ formats[2] = "%" ->
         <<"%">> \o Printed(From(formats, 3), args)
    [] Len(formats) > 1 /\ formats[1] = "%" /\ formats[2] \in Conversions ->
         Convert(formats[2], Head(args)) \o Printed(From(formats, 3), Tail(args))
    [] OTHER -> formats

=============================================================================
