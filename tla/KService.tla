------------------------------ MODULE KService ------------------------------
(***************************************************************************)
(* The pure part of the kernel services (kservice.c): the functions on     *)
(* memory and strings, the formatted printing behind rt_kprintf, and the   *)
(* addresses of rt_malloc_align.  Memory is a function from addresses to   *)
(* bytes.  Each function is followed, further down, by what it promises.   *)
(***************************************************************************)
EXTENDS Integers, Sequences, SequencesExt, Bitwise

CONSTANTS LongBits    \* bits of the numbers that are printed (32 in the code)

NUL == 0
Smaller(a, b) == IF a < b THEN a ELSE b
Larger(a, b) == IF a < b THEN b ELSE a
Least(S) == CHOOSE i \in S : \A j \in S : i <= j
Repeat(n, c) == [i \in 1..n |-> c]     \* empty for n < 0, as "while (n-- > 0)"
Upto(n) == [i \in 1..n |-> i - 1]

-----------------------------------------------------------------------------
\* One store of w bytes.
Fill(m, s, d, w) == [a \in DOMAIN m |-> IF a \in s..(s + w - 1) THEN d ELSE m[a]]
rt_memset(m, s, c, count) ==
  LET d == c % 256
      words == IF count >= 4 /\ s % 4 = 0 THEN count \div 4 ELSE 0
      filled == FoldLeft(LAMBDA b, i : Fill(b, s + 4 * i, d, 4), m, Upto(words))
  IN  FoldLeft(LAMBDA b, i : Fill(b, s + 4 * words + i, d, 1), filled, Upto(count - 4 * words))

\* One load and one store of w bytes.
Move(m, dst, src, w) == [a \in DOMAIN m |-> IF a \in dst..(dst + w - 1) THEN m[src + a - dst] ELSE m[a]]
\* Aligned memory is copied by words, and what is left, or all of it, by bytes.
rt_memcpy(m, dst, src, count) ==
  LET words == IF count >= 16 /\ dst % 4 = 0 /\ src % 4 = 0 THEN count \div 4 ELSE 0
      copied == FoldLeft(LAMBDA b, i : Move(b, dst + 4 * i, src + 4 * i, 4), m, Upto(words))
  IN  FoldLeft(LAMBDA b, i : Move(b, dst + 4 * words + i, src + 4 * words + i, 1), copied, Upto(count - 4 * words))

rt_memmove(m, dest, src, n) ==
  LET order == IF src < dest /\ dest < src + n THEN Reverse(Upto(n)) ELSE Upto(n)
  IN  FoldLeft(LAMBDA b, i : Move(b, dest + i, src + i, 1), m, order)

\* The loops below leave at the first index that meets their condition.
rt_strlen(m, s) == Least({a \in DOMAIN m : a >= s /\ m[a] = NUL}) - s
rt_strnlen(m, s, maxlen) == Least({i \in 0..maxlen : i = maxlen \/ m[s + i] = NUL})
rt_memcmp(m, cs, ct, count) ==
  LET i == Least({j \in 0..count : j = count \/ m[cs + j] # m[ct + j]})
  IN  IF i = count THEN 0 ELSE m[cs + i] - m[ct + i]
rt_strncmp(m, cs, ct, count) ==
  LET i == Least({j \in 0..count : j = count \/ m[cs + j] # m[ct + j] \/ m[cs + j] = NUL})
  IN  IF i = count THEN 0 ELSE m[cs + i] - m[ct + i]
rt_strcmp(m, cs, ct) ==
  LET i == Least({j \in 0..rt_strlen(m, cs) : m[cs + j] # m[ct + j] \/ m[cs + j] = NUL})
  IN  m[cs + i] - m[ct + i]
Lower(c) == IF c \in 65..90 THEN c + 32 ELSE c
rt_strcasecmp(m, a, b) ==
  LET i == Least({j \in 0..rt_strlen(m, a) : Lower(m[a + j]) # Lower(m[b + j]) \/ m[a + j] = NUL})
  IN  Lower(m[a + i]) - Lower(m[b + i])
rt_strncpy(m, dst, src, n) ==
  LET end == Least({i \in 0..n : i = n \/ m[src + i] = NUL})
  IN  [a \in DOMAIN m |-> IF a \in dst..(dst + end - 1) THEN m[src + a - dst]
                          ELSE IF a \in (dst + end)..(dst + n - 1) THEN NUL ELSE m[a]]
\* The place of the second string in the first, or -1: l1 counts down while s1 moves.
rt_strstr(m, s1, s2) ==
  LET l1 == rt_strlen(m, s1)
      l2 == rt_strlen(m, s2)
      hits == {i \in 0..(l1 - l2) : rt_memcmp(m, s1 + i, s2, l2) = 0}
  IN  IF l2 = 0 THEN s1 ELSE IF hits = {} THEN -1 ELSE s1 + Least(hits)

-----------------------------------------------------------------------------
\* print_number.  "type" is the set of flags; a number is LongBits wide, signed in num.
Unsigned(n) == n % 2^LongBits
Signed(n) == LET u == Unsigned(n) IN IF u >= 2^(LongBits - 1) THEN u - 2^LongBits ELSE u
Digit(d, type) == IF "LARGE" \in type THEN <<"0","1","2","3","4","5","6","7","8","9","A","B","C","D","E","F">>[d + 1]
                  ELSE <<"0","1","2","3","4","5","6","7","8","9","a","b","c","d","e","f">>[d + 1]
\* The remainder and the quotient: every base but 10 is taken for 16.
divide(n, base) == LET b == IF base = 10 THEN 10 ELSE 16 IN <<n % b, n \div b>>

RECURSIVE Digits(_, _, _)
Digits(n, base, type) == IF n = 0 THEN <<>>
                         ELSE Digits(divide(n, base)[2], base, type) \o <<Digit(divide(n, base)[1], type)>>

Sign(num, type) == CASE "SIGN" \notin type -> <<>>
                     [] num < 0 -> <<"-">>
                     [] "PLUS" \in type -> <<"+">>
                     [] "SPACE" \in type -> <<" ">>
                     [] OTHER -> <<>>
Prefix(base, type) == CASE "SPECIAL" \notin type \/ base = 10 -> <<>>
                        [] base = 8 -> <<"0">>
                        [] OTHER -> <<"0", IF "LARGE" \in type THEN "X" ELSE "x">>

print_number(num, base, s, precision, flags) ==
  LET type == IF "LEFT" \in flags THEN flags \ {"ZEROPAD"} ELSE flags
      magnitude == IF "SIGN" \in type /\ num < 0 THEN Unsigned(-num) ELSE Unsigned(num)
      tmp == IF num = 0 THEN <<"0">> ELSE Digits(magnitude, base, type)
      digits == Larger(Len(tmp), precision)
      sign == Sign(num, type)
      size == s - Len(Prefix(base, type)) - digits
      pad(c) == Repeat(size - Len(sign), c)
      number == Repeat(digits - Len(tmp), "0") \o (IF precision = 0 THEN <<>> ELSE tmp)
  IN  (IF type \intersect {"ZEROPAD", "LEFT"} = {} THEN pad(" ") ELSE <<>>)
      \o sign \o Prefix(base, type)
      \o (IF "ZEROPAD" \in type THEN pad("0") ELSE <<>>) \o number
      \o (IF "LEFT" \in type THEN pad(" ") ELSE <<>>)

\* A directive of a format: width and precision are None, or what the digits or the argument of
\* a '*' say; "arg" is the argument converted.
None == -1000
directive(conv, flags, width, precision, qualifier, arg) ==
  [conv |-> conv, flags |-> flags, width |-> width, precision |-> precision,
   qualifier |-> qualifier, arg |-> arg]

field_width(d) == IF d.width = None THEN -1 ELSE IF d.width < 0 THEN -d.width ELSE d.width
flags_of(d) == d.flags \union (IF d.width # None /\ d.width < 0 THEN {"LEFT"} ELSE {})
                       \union (CASE d.conv = "X" -> {"LARGE"} [] d.conv \in {"d", "i"} -> {"SIGN"} [] OTHER -> {})
precision_of(d) == IF d.precision = None THEN -1 ELSE Larger(d.precision, 0)
\* The argument at the width of its qualifier: 'h' is half of a word.
number_of(d) ==
  LET half == 2^(LongBits \div 2)
      n == IF d.qualifier = "h" THEN d.arg % half ELSE d.arg
  IN  IF d.qualifier = "h" /\ "SIGN" \in flags_of(d) /\ n >= half \div 2 THEN n - half ELSE Signed(n)

\* s among the spaces that fill the field
Field(d, s) == LET pad == Repeat(field_width(d) - Len(s), " ")
               IN  IF "LEFT" \in flags_of(d) THEN s \o pad ELSE pad \o s
convert(d) ==
  CASE d.conv = "literal" -> d.arg
    [] d.conv = "%" -> <<"%">>
    [] d.conv = "c" -> Field(d, d.arg)
    [] d.conv = "s" ->
         LET len == IF field_width(d) >= 0 THEN Smaller(Len(d.arg), field_width(d)) ELSE Len(d.arg)
             cut == IF precision_of(d) > 0 THEN Smaller(len, precision_of(d)) ELSE len
         IN  Field(d, SubSeq(d.arg, 1, cut))
    [] d.conv = "p" ->
         IF field_width(d) = -1
         THEN print_number(Signed(d.arg), 16, LongBits \div 4, precision_of(d), flags_of(d) \union {"ZEROPAD"})
         ELSE print_number(Signed(d.arg), 16, field_width(d), precision_of(d), flags_of(d))
    [] d.conv \in {"o", "x", "X", "d", "i", "u"} ->
         print_number(number_of(d), CASE d.conv = "o" -> 8 [] d.conv \in {"x", "X"} -> 16 [] OTHER -> 10,
                      field_width(d), precision_of(d), flags_of(d))
    [] OTHER -> <<"%", d.conv>>

\* What is in the buffer, and the length the text would have had.
rt_vsnprintf(size, fmt) ==
  LET text == FlattenSeq([i \in DOMAIN fmt |-> convert(fmt[i])])
  IN  [buf |-> IF size = 0 THEN <<>> ELSE SubSeq(text, 1, Smaller(Len(text), size - 1)) \o <<"NUL">>,
       length |-> Len(text)]

-----------------------------------------------------------------------------
\* rt_malloc_align, when rt_malloc gives ptr: the bytes asked for, and the pointer returned; the
\* word before it holds ptr, which rt_free_align frees.
AlignWord(n) == ((n + 3) \div 4) * 4
rt_malloc_align(size, alignment, ptr) ==
  LET align == AlignWord(alignment)
      up == ptr + align - 1
  IN  [align_size |-> AlignWord(size) + align,
       align_ptr |-> IF ptr & (align - 1) = 0 THEN ptr + align ELSE up - (up & (align - 1))]

-----------------------------------------------------------------------------
\* The C string at s, as a sequence.
StringAt(m, s) == [i \in 1..rt_strlen(m, s) |-> m[s + i - 1]]
Copied(m, dst, src, n) == [a \in DOMAIN m |-> IF a \in dst..(dst + n - 1) THEN m[src + a - dst] ELSE m[a]]
\* rt_memmove copies whatever the overlap, rt_memcpy where there is none, and rt_memset sets
\* its bytes, and no other byte changes.
CopiesRight(m, dst, src, n) ==
  /\ rt_memmove(m, dst, src, n) = Copied(m, dst, src, n)
  /\ dst + n <= src \/ src + n <= dst => rt_memcpy(m, dst, src, n) = Copied(m, dst, src, n)
  /\ rt_memset(m, dst, src - 1, n) = Fill(m, dst, (src + 255) % 256, n)
\* The functions on strings agree with what they say of the two strings at s and t.
StringsRight(m, s, t, n) ==
  LET a == StringAt(m, s)
      b == StringAt(m, t)
      firstN(x) == SubSeq(x, 1, Smaller(n, Len(x)))
      places == {i \in 0..Len(a) : IsPrefix(b, SubSeq(a, i + 1, Len(a)))}
  IN  /\ rt_strcmp(m, s, t) = 0 <=> a = b
      /\ rt_strncmp(m, s, t, n) = 0 <=> firstN(a) = firstN(b)
      /\ rt_strncmp(m, s, t, n) < 0 =>
           \E i \in 1..n : /\ SubSeq(a, 1, i - 1) = SubSeq(b, 1, i - 1)
                           /\ i <= Len(b) /\ (i > Len(a) \/ a[i] < b[i])
      /\ rt_strcasecmp(m, s, t) = 0 <=> [i \in DOMAIN a |-> Lower(a[i])] = [i \in DOMAIN b |-> Lower(b[i])]
      /\ rt_strstr(m, s, t) = IF places = {} THEN -1 ELSE s + Least(places)
      /\ rt_strnlen(m, s, n) = Len(firstN(a))
      /\ s + n <= t => [i \in 1..n |-> rt_strncpy(m, s, t, n)[s + i - 1]]
                         = firstN(b) \o Repeat(n - Len(b), NUL)

\* A number fills its field: digits by place value, zeros up to the precision or, with the flag
\* '0', to the width, spaces elsewhere.
NumberText(num, base, width, precision, flags) ==
  LET value == IF "SIGN" \in flags /\ num < 0 THEN Unsigned(-num) ELSE Unsigned(num)
      k == Least({i \in 1..(LongBits \div 3) : value < base^i})
      digits == [i \in 1..k |-> Digit((value \div base^(k - i)) % base, flags)]
      head == Sign(num, flags) \o Prefix(base, flags)
      zeros == IF "ZEROPAD" \in flags /\ "LEFT" \notin flags
               THEN Larger(precision, width - Len(head)) - k ELSE precision - k
      body == head \o Repeat(zeros, "0") \o digits
      spaces == Repeat(width - Len(body), " ")
  IN  IF "LEFT" \in flags THEN body \o spaces ELSE spaces \o body
\* A directive is printed as that, after what comes before it, as far as the buffer reaches, with
\* a NUL at the end.  (Not %o, printed in base 16; a precision of 0, which drops every digit; a
\* string wider than its field, which is cut.)
PrintRight(size, d) ==
  LET text == <<"=">> \o (IF d.conv = "s" THEN Field(d, SubSeq(d.arg, 1, IF d.precision = None THEN Len(d.arg) ELSE Smaller(d.precision, Len(d.arg))))
                          ELSE NumberText(number_of(d), IF d.conv \in {"x", "X"} THEN 16 ELSE 10,
                                          field_width(d), d.precision, flags_of(d)))
      out == rt_vsnprintf(size, <<directive("literal", {}, None, None, "", <<"=">>), d>>)
  IN  d.precision # 0 /\ (d.conv = "s" => field_width(d) \notin 0..(Len(d.arg) - 1)) =>
        /\ out.length = Len(text)
        /\ size > 0 => out.buf = (IF Len(text) < size THEN text ELSE SubSeq(text, 1, size - 1)) \o <<"NUL">>

\* The pointer is aligned, has room for the real one before it, and its bytes are all within
\* what was allocated, for the alignments that are powers of two.
AlignRight(size, alignment, ptr) ==
  LET r == rt_malloc_align(size, alignment, ptr) IN
  /\ r.align_ptr % alignment = 0
  /\ ptr + 4 <= r.align_ptr /\ r.align_ptr + size <= ptr + r.align_size
=============================================================================
