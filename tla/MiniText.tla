------------------------------ MODULE MiniText ------------------------------
(***************************************************************************)
(* What the ARM's formatter prints, mini/vsprintf.c, as a function of the  *)
(* format and its arguments, the buffer left aside.  A text is a sequence  *)
(* of characters, each a string of length one; an argument is a number, a  *)
(* character or a text (NoText: NULL), a pointer a number.                 *)
(*                                                                         *)
(* long long is long there, and int too is as wide (the code's defines).   *)
(***************************************************************************)
EXTENDS Integers, Sequences, SequencesExt, FiniteSetsExt

CONSTANTS CharBits, ShortBits, IntBits   \* the widths: 8, 16 and 32

IntMax == 2^(IntBits - 1) - 1
NoText == <<"NULL">>
Digit == <<"0", "1", "2", "3", "4", "5", "6", "7", "8", "9">>
Low == Digit \o <<"a", "b", "c", "d", "e", "f">>
Caps == Digit \o <<"A", "B", "C", "D", "E", "F">>
DigitOf(ch) == CHOOSE d \in 0 .. 9 : Digit[d + 1] = ch
IsDigit(ch) == ch \in ToSet(Digit)
FlagChars == {"-", "+", " ", "#", "0", "'"}

AtLeast0(n) == IF n < 0 THEN 0 ELSE n
Times(n, ch) == [k \in 1 .. AtLeast0(n) |-> ch]
Signed(n, bits) == ((n + 2^(bits - 1)) % 2^bits) - 2^(bits - 1)
Unsigned(n, bits) == n % 2^bits

(* How long a beginning of s is made of such characters. *)
Run(s, Test(_)) == Max({n \in 0 .. Len(s) : \A k \in 1 .. n : Test(s[k])})
Rest(s, n) == SubSeq(s, n + 1, Len(s))
Starts(s, ch) == s # <<>> /\ s[1] = ch

-----------------------------------------------------------------------------
(* One directive, after its %.  A step of the parse takes and gives        *)
(* [rest, args, flags, width, precision, size, overflow]; an overflow      *)
(* leaves the digits that do not fit.                                      *)

Number(digits) == FoldLeft(LAMBDA n, ch : 10 * n + DigitOf(ch), 0, digits)
ParseFlags(fmt, args) ==
    LET n == Run(fmt, LAMBDA ch : ch \in FlagChars) IN
    [rest |-> Rest(fmt, n), args |-> args, flags |-> ToSet(SubSeq(fmt, 1, n)),
     width |-> 0, precision |-> -1, size |-> "int", overflow |-> FALSE]
WithWidth(d, n) ==
    IF Number(SubSeq(d.rest, 1, n)) > IntMax THEN [d EXCEPT !.overflow = TRUE]
    ELSE IF Starts(Rest(d.rest, n), "*")
    THEN [d EXCEPT !.rest = Rest(@, n + 1), !.args = Tail(@),
                   !.width = IF d.args[1] < 0 THEN -d.args[1] ELSE d.args[1],
                   !.flags = IF d.args[1] < 0 THEN @ \union {"-"} ELSE @]
    ELSE [d EXCEPT !.rest = Rest(@, n), !.width = Number(SubSeq(d.rest, 1, n))]
WithPrecision(d, n) ==       \* n digits follow the point
    IF Number(SubSeq(d.rest, 2, n + 1)) > IntMax THEN [d EXCEPT !.overflow = TRUE]
    ELSE IF Starts(Rest(d.rest, n + 1), "*")
    THEN [d EXCEPT !.rest = Rest(@, n + 2), !.args = Tail(@),
                   !.precision = IF d.args[1] < 0 THEN -1 ELSE d.args[1]]
    ELSE [d EXCEPT !.rest = Rest(@, n + 1), !.precision = Number(SubSeq(d.rest, 2, n + 1))]
ParseWidth(d) == WithWidth(d, Run(d.rest, IsDigit))
ParsePrecision(d) ==
    IF d.overflow \/ ~Starts(d.rest, ".") THEN d ELSE WithPrecision(d, Run(Tail(d.rest), IsDigit))
ParseSize(d) ==
    CASE Starts(d.rest, "h") /\ Starts(Tail(d.rest), "h") -> [d EXCEPT !.rest = Rest(@, 2), !.size = "char"]
      [] Starts(d.rest, "h") /\ ~Starts(Tail(d.rest), "h") -> [d EXCEPT !.rest = Rest(@, 1), !.size = "short"]
      [] Starts(d.rest, "l") /\ Starts(Tail(d.rest), "l") -> [d EXCEPT !.rest = Rest(@, 2)]
      [] \E ch \in {"j", "t", "z"} : Starts(d.rest, ch) -> [d EXCEPT !.rest = Rest(@, 1)]
      [] Starts(d.rest, "l") /\ ~Starts(Tail(d.rest), "l") -> [d EXCEPT !.rest = Rest(@, 1)]
      [] OTHER -> d
Directive(fmt, args) == ParseSize(ParsePrecision(ParseWidth(ParseFlags(fmt, args))))
Bits(d) == CASE d.size = "char" -> CharBits [] d.size = "short" -> ShortBits [] OTHER -> IntBits

-----------------------------------------------------------------------------
(* fmtstr, fmtint *)

Padded(text, width, flags) ==
    IF "-" \in flags THEN text \o Times(width - Len(text), " ") ELSE Times(width - Len(text), " ") \o text
Cut(text, precision) == IF precision = -1 \/ Len(text) <= precision THEN text ELSE SubSeq(text, 1, precision)
fmtstr(value, width, precision, flags) ==
    Padded(Cut(IF value = NoText THEN <<"(", "n", "u", "l", "l", ")">> ELSE value, precision), width, flags)

convert(value, base, digits) ==      \* the most significant digit first
    LET n == Max({1} \union {k \in 1 .. (IntBits \div 3) + 1 : base^(k - 1) <= value}) IN
    [k \in 1 .. n |-> digits[((value \div base^(n - k)) % base) + 1]]
getnumsep(digits) == (digits - (IF digits % 3 = 0 THEN 1 ELSE 0)) \div 3
Grouped(digits) ==
    FoldLeft(LAMBDA s, k : s \o <<digits[k]>>
                 \o (IF k < Len(digits) /\ (Len(digits) - k) % 3 = 0 THEN <<",">> ELSE <<>>),
             <<>>, [k \in DOMAIN digits |-> k])

Sign(value, flags) ==
    IF value < 0 THEN <<"-">> ELSE IF "+" \in flags THEN <<"+">> ELSE IF " " \in flags THEN <<" ">> ELSE <<>>
Precision(precision, digits, base, flags, value) ==
    IF "#" \in flags /\ value # 0 /\ base = 8 /\ precision <= digits THEN digits + 1 ELSE precision
Lead(spaces, zeros, precision, flags, head, body) ==
    IF "-" \in flags THEN head \o Times(zeros, "0") \o body \o Times(spaces, " ")
    ELSE IF "0" \in flags /\ precision = -1 THEN head \o Times(AtLeast0(zeros) + AtLeast0(spaces), "0") \o body
    ELSE Times(spaces, " ") \o head \o Times(zeros, "0") \o body
Laid(digits, head, base, width, precision, wanted, flags) ==
    LET seps == IF "'" \in flags THEN getnumsep(Len(digits)) ELSE 0
        room == IF wanted >= Len(digits) THEN wanted ELSE Len(digits)
    IN  Lead(width - seps - room - Len(head), wanted - Len(digits) - seps, precision, flags, head,
             IF seps > 0 THEN Grouped(digits) ELSE digits)
fmtint(value, head, base, width, precision, flags, digits) ==
    Laid(digits, head, base, width, precision, Precision(precision, Len(digits), base, flags, value), flags)
Prefix(value, base, flags, caps) ==
    IF "#" \in flags /\ value # 0 /\ base = 16 THEN <<"0", IF caps THEN "X" ELSE "x">> ELSE <<>>
UnsignedText(value, base, width, precision, flags, caps) ==
    fmtint(value, Prefix(value, base, flags, caps), base, width, precision, flags,
           convert(value, base, IF caps THEN Caps ELSE Low))
SignedText(value, width, precision, flags) ==
    fmtint(value, Sign(value, flags), 10, width, precision, flags,
           convert(IF value < 0 THEN -value ELSE value, 10, Low))
PointerText(value, width, precision, flags) ==
    IF value = 0 THEN fmtstr(<<"(", "n", "i", "l", ")">>, width, -1, flags)
    ELSE UnsignedText(value, 16, width, precision, flags \union {"#"}, FALSE)

Base(conv) == CASE conv \in {"x", "X"} -> 16 [] conv = "o" -> 8 [] OTHER -> 10
Converted(d, conv, arg) ==
    CASE conv \in {"d", "i"} -> SignedText(Signed(arg, Bits(d)), d.width, d.precision, d.flags)
      [] conv \in {"x", "X", "o", "u"} ->
             UnsignedText(Unsigned(arg, Bits(d)), Base(conv), d.width, d.precision, d.flags, conv = "X")
      [] conv = "c" -> <<arg>>
      [] conv = "s" -> fmtstr(arg, d.width, d.precision, d.flags)
      [] conv = "p" -> PointerText(arg, d.width, d.precision, d.flags)
      [] conv = "%" -> <<"%">>
      [] OTHER -> <<>>
Takes(conv) == conv \in {"d", "i", "x", "X", "o", "u", "c", "s", "p", "n"}

-----------------------------------------------------------------------------
(* vsnprintf: the text, what %n stored, and whether a width overflowed. *)

RECURSIVE Printed(_, _, _, _), AfterDirective(_, _, _)
Printed(fmt, args, text, stored) ==
    IF fmt = <<>> THEN [text |-> text, stored |-> stored, overflow |-> FALSE]
    ELSE IF fmt[1] # "%" THEN Printed(Tail(fmt), args, Append(text, fmt[1]), stored)
    ELSE AfterDirective(Directive(Tail(fmt), args), text, stored)
AfterDirective(d, text, stored) ==
    IF d.overflow \/ d.rest = <<>> THEN [text |-> text, stored |-> stored, overflow |-> d.overflow]
    ELSE LET conv == d.rest[1]
             arg == IF Takes(conv) THEN d.args[1] ELSE 0
         IN  Printed(Tail(d.rest), IF Takes(conv) THEN Tail(d.args) ELSE d.args,
                     text \o Converted(d, conv, arg),
                     IF conv = "n" THEN Append(stored, Signed(Len(text), Bits(d))) ELSE stored)
TextOf(fmt, args) == Printed(fmt, args, <<>>, <<>>)

=============================================================================
