------------------------------- MODULE Printf -------------------------------
(***************************************************************************)
(* The PowerPC's vsnprintf, libbroadway/printf.c, one character of the     *)
(* format and one character of output at a time, into a buffer that may be *)
(* too small.  A request is a format, its arguments and the size of the    *)
(* buffer; characters, texts and arguments are those of MiniText.          *)
(***************************************************************************)
EXTENDS MiniText

CONSTANT Requests

VARIABLES
    request,
    format, args,         \* what is left of them
    str, len,             \* the buffer, and what was printed
    state,                \* PRINT_S_*; Pad .. Trail in fmtstr and fmtint; Out, Done
    flags, width, precision, cflags,
    field,                \* the locals of fmtstr and fmtint
    stored,               \* the numbers %n stored
    result                \* what vsnprintf returns; -2 before it does

printfVars == <<request, format, args, str, len, state, flags, width, precision, cflags, field, stored, result>>
directive == <<flags, width, precision, cflags>>

Untouched == "?"
Nul == "NUL"
NoField == [spadlen |-> 0, sign |-> <<>>, zpadlen |-> 0, digits |-> <<>>, separators |-> FALSE]

PrintfInit ==
    /\ request \in Requests
    /\ format = request.format /\ args = request.args
    /\ str = [k \in 0 .. request.size |-> Untouched] /\ len = 0
    /\ state = "Default"
    /\ flags = {} /\ width = 0 /\ precision = -1 /\ cflags = "int"
    /\ field = NoField
    /\ stored = <<>>
    /\ result = -2

ch == format[1]
More == format # <<>>
Next1 == format' = Tail(format)
Still(vars) == UNCHANGED <<request, result, vars>>

(* Faulty variant: a text as long as the buffer is written one too far. *)
OUTCHAR_full(c) ==
    /\ str' = IF len <= request.size THEN [str EXCEPT ![len] = c] ELSE str
    /\ len' = len + 1
OUTCHAR(c) ==
    /\ str' = IF len + 1 < request.size THEN [str EXCEPT ![len] = c] ELSE str
    /\ len' = len + 1

-----------------------------------------------------------------------------
(* The states that read the format. *)

Default ==
    /\ state = "Default" /\ More
    /\ Next1
    /\ IF ch = "%" THEN state' = "Flags" /\ UNCHANGED <<str, len>> ELSE OUTCHAR(ch) /\ UNCHANGED state
    /\ Still(<<args, directive, field, stored>>)

Flags ==
    /\ state = "Flags" /\ More
    /\ IF ch \in FlagChars THEN flags' = flags \union {ch} /\ Next1 /\ UNCHANGED state
       ELSE state' = "Width" /\ UNCHANGED <<flags, format>>
    /\ Still(<<args, str, len, width, precision, cflags, field, stored>>)

Fits(n) == n <= (IntMax - DigitOf(ch)) \div 10
Width ==
    /\ state = "Width" /\ More
    /\ \/ IsDigit(ch) /\ ~Fits(width) /\ state' = "Overflow" /\ UNCHANGED <<format, args, flags, width>>
       \/ IsDigit(ch) /\ Fits(width) /\ width' = 10 * width + DigitOf(ch) /\ Next1 /\ UNCHANGED <<args, flags, state>>
       \/ /\ ch = "*"
          /\ width' = IF args[1] < 0 THEN -args[1] ELSE args[1]
          /\ flags' = IF args[1] < 0 THEN flags \union {"-"} ELSE flags
          /\ args' = Tail(args) /\ Next1 /\ state' = "Dot"
       \/ ~IsDigit(ch) /\ ch # "*" /\ state' = "Dot" /\ UNCHANGED <<format, args, flags, width>>
    /\ Still(<<str, len, precision, cflags, field, stored>>)

Dot ==
    /\ state = "Dot" /\ More
    /\ IF ch = "." THEN Next1 /\ state' = "Precision" ELSE state' = "Mod" /\ UNCHANGED format
    /\ Still(<<args, str, len, directive, field, stored>>)

(* Reached by a point: the number begins at 0. *)
Precision0 == IF precision = -1 THEN 0 ELSE precision
ReadPrecision ==
    /\ state = "Precision" /\ More
    /\ \/ /\ IsDigit(ch) /\ ~Fits(Precision0)
          /\ state' = "Overflow" /\ precision' = Precision0 /\ UNCHANGED <<format, args>>
       \/ /\ IsDigit(ch) /\ Fits(Precision0)
          /\ precision' = 10 * Precision0 + DigitOf(ch) /\ Next1 /\ UNCHANGED <<args, state>>
       \/ /\ ch = "*"
          /\ precision' = IF args[1] < 0 THEN -1 ELSE args[1]
          /\ args' = Tail(args) /\ Next1 /\ state' = "Mod"
       \/ ~IsDigit(ch) /\ ch # "*" /\ precision' = Precision0 /\ state' = "Mod" /\ UNCHANGED <<format, args>>
    /\ Still(<<str, len, flags, width, cflags, field, stored>>)

Twice(c) == Len(format) > 1 /\ format[2] = c
Mod ==
    /\ state = "Mod" /\ More
    /\ state' = "Conv"
    /\ \/ ch = "h" /\ Twice("h") /\ cflags' = "char" /\ format' = Rest(format, 2)
       \/ ch = "h" /\ ~Twice("h") /\ cflags' = "short" /\ Next1
       \/ ch = "l" /\ Twice("l") /\ cflags' = "llong" /\ format' = Rest(format, 2)
       \/ ch = "l" /\ ~Twice("l") /\ cflags' = "long" /\ Next1
       \/ ch = "j" /\ cflags' = "intmax" /\ Next1
       \/ ch = "t" /\ cflags' = "ptrdiff" /\ Next1
       \/ ch = "z" /\ cflags' = "size" /\ Next1
       \/ ch \notin {"h", "l", "j", "t", "z"} /\ UNCHANGED <<cflags, format>>
    /\ Still(<<args, str, len, flags, width, precision, field, stored>>)

-----------------------------------------------------------------------------
(* The conversions. *)

Wide == CASE cflags = "char" -> CharBits [] cflags = "short" -> ShortBits [] OTHER -> IntBits

(* The next directive begins with nothing set. *)
Reset == flags' = {} /\ width' = 0 /\ precision' = -1 /\ cflags' = "int"

(* fmtstr: how much of the text, and the spaces before or (negative) after. *)
Spread(pad, fl) == IF "-" \in fl THEN -AtLeast0(pad) ELSE AtLeast0(pad)
StringField(text, prec) ==
    LET strln == IF prec = -1 \/ prec > Len(text) THEN Len(text) ELSE prec IN
    [NoField EXCEPT !.spadlen = Spread(width - strln, flags), !.digits = SubSeq(text, 1, strln)]

(* fmtint: the digits are those of convert, least significant first. *)
RECURSIVE Reversed(_, _, _)
Reversed(value, base, caps) ==
    <<(IF caps THEN Caps ELSE Low)[(value % base) + 1]>>
        \o IF value < base THEN <<>> ELSE Reversed(value \div base, base, caps)
Prec(fl, base, value, pos) == IF "#" \in fl /\ value # 0 /\ base = 8 /\ precision <= pos THEN pos + 1 ELSE precision
Measured(f, fl, prec, pos, seps) ==
    LET spad == AtLeast0(width - seps - (IF prec >= pos THEN prec ELSE pos) - Len(f.sign))
        zpad == AtLeast0(prec - pos - seps)
    IN  IF "-" \notin fl /\ "0" \in fl /\ precision = -1
        THEN [f EXCEPT !.zpadlen = zpad + spad]
        ELSE [f EXCEPT !.zpadlen = zpad, !.spadlen = Spread(spad, fl)]
IntField(iconvert, sign, base, value, fl) ==
    LET pos == Len(iconvert)
        seps == IF "'" \in fl THEN getnumsep(pos) ELSE 0
    IN  Measured([NoField EXCEPT !.sign = sign, !.digits = iconvert, !.separators = seps > 0],
                 fl, Prec(fl, base, value, pos), pos, seps)
SignOf(value) ==
    CASE value < 0 -> <<"-">> [] value >= 0 /\ "+" \in flags -> <<"+">>
      [] value >= 0 /\ "+" \notin flags /\ " " \in flags -> <<" ">> [] OTHER -> <<>>
SignedField(value) ==
    IntField(Reversed(IF value < 0 THEN -value ELSE value, 10, FALSE), SignOf(value), 10, value, flags)
HexPrefix(value, base, fl, caps) ==
    IF base = 16 /\ "#" \in fl /\ value # 0 THEN <<"0", IF caps THEN "X" ELSE "x">> ELSE <<>>
UnsignedField(value, base, fl, caps) ==
    IntField(Reversed(value, base, caps), HexPrefix(value, base, fl, caps), base, value, fl)

(* A field is printed backwards where it is digits: Forward says which. *)
Begin(f) ==
    /\ field' = f
    /\ state' = "Pad"
    /\ Next1 /\ args' = Tail(args)
    /\ Still(<<str, len, directive, stored>>)
Converting(convs) == state = "Conv" /\ More /\ ch \in convs
ConvSigned == Converting({"d", "i"}) /\ Begin(SignedField(Signed(args[1], Wide)))
ConvUnsigned ==
    \/ Converting({"x", "X"}) /\ Begin(UnsignedField(Unsigned(args[1], Wide), 16, flags, ch = "X"))
    \/ Converting({"o"}) /\ Begin(UnsignedField(Unsigned(args[1], Wide), 8, flags, FALSE))
    \/ Converting({"u"}) /\ Begin(UnsignedField(Unsigned(args[1], Wide), 10, flags, FALSE))
ConvString ==
    /\ Converting({"s"})
    /\ Begin([StringField(IF args[1] = NoText THEN <<"(", "n", "u", "l", "l", ")">> ELSE args[1], precision)
                 EXCEPT !.digits = Reverse(@)])
ConvPointer ==
    /\ Converting({"p"})
    /\ Begin(IF args[1] = 0 THEN [StringField(<<"(", "n", "i", "l", ")">>, -1) EXCEPT !.digits = Reverse(@)]
             ELSE UnsignedField(args[1], 16, flags \union {"#"}, FALSE))
ConvStore ==
    /\ Converting({"n"})
    /\ stored' = Append(stored, Signed(len, Wide))
    /\ Next1 /\ args' = Tail(args) /\ state' = "Default" /\ Reset
    /\ Still(<<str, len, field>>)
ConvChar ==
    /\ Converting({"c", "%"})
    /\ IF ch = "c" THEN OUTCHAR(args[1]) /\ args' = Tail(args) ELSE OUTCHAR(ch) /\ UNCHANGED args
    /\ Next1 /\ state' = "Default" /\ Reset
    /\ Still(<<field, stored>>)
ConvOther ==
    /\ state = "Conv" /\ More /\ ~Takes(ch) /\ ch # "%"
    /\ Next1 /\ state' = "Default" /\ Reset
    /\ Still(<<args, str, len, field, stored>>)

-----------------------------------------------------------------------------
(* The loops of fmtstr and fmtint, a character at a time. *)

Printing(c, f) ==
    /\ OUTCHAR(c)
    /\ field' = f
    /\ Still(<<format, args, state, directive, stored>>)
Pad == state = "Pad" /\ field.spadlen > 0 /\ Printing(" ", [field EXCEPT !.spadlen = @ - 1])
PrintSign ==
    /\ state = "Pad" /\ field.spadlen <= 0 /\ field.sign # <<>>
    /\ Printing(field.sign[1], [field EXCEPT !.sign = Tail(@)])
ZeroPad ==
    /\ state = "Pad" /\ field.spadlen <= 0 /\ field.sign = <<>> /\ field.zpadlen > 0
    /\ Printing("0", [field EXCEPT !.zpadlen = @ - 1])
Body == state = "Pad" /\ field.spadlen <= 0 /\ field.sign = <<>> /\ field.zpadlen = 0
Digits ==
    /\ Body /\ field.digits # <<>>
    /\ OUTCHAR(Last(field.digits))
    /\ field' = [field EXCEPT !.digits = Front(@)]
    /\ state' = IF field.separators /\ Len(field.digits) > 1 /\ (Len(field.digits) - 1) % 3 = 0 THEN "Sep" ELSE state
    /\ Still(<<format, args, directive, stored>>)
PrintSep ==
    /\ state = "Sep"
    /\ OUTCHAR(",")
    /\ state' = "Pad"
    /\ Still(<<format, args, directive, field, stored>>)
Trail ==
    /\ Body /\ field.digits = <<>> /\ field.spadlen < 0
    /\ Printing(" ", [field EXCEPT !.spadlen = @ + 1])
FieldEnds ==
    /\ Body /\ field.digits = <<>> /\ field.spadlen = 0
    /\ state' = "Default" /\ Reset /\ field' = NoField
    /\ Still(<<format, args, str, len, stored>>)

(* The end of the format, wherever it comes, or a number too large. *)
Out ==
    /\ \/ state = "Overflow"
       \/ ~More /\ state \in {"Default", "Flags", "Width", "Dot", "Precision", "Mod", "Conv"}
    /\ state' = "Done"
    /\ str' = IF len < request.size THEN [str EXCEPT ![len] = Nul]
              ELSE IF request.size > 0 THEN [str EXCEPT ![request.size - 1] = Nul] ELSE str
    /\ result' = IF state = "Overflow" \/ len >= IntMax THEN -1 ELSE len
    /\ UNCHANGED <<request, format, args, len, directive, field, stored>>

PrintfNext ==
    \/ Default \/ Flags \/ Width \/ Dot \/ ReadPrecision \/ Mod
    \/ ConvSigned \/ ConvUnsigned \/ ConvString \/ ConvPointer \/ ConvStore \/ ConvChar \/ ConvOther
    \/ Pad \/ PrintSign \/ ZeroPad \/ Digits \/ PrintSep \/ Trail \/ FieldEnds
    \/ Out

-----------------------------------------------------------------------------
(* The two formatters print alike, and the buffer is what C99 asks for     *)
(* (printf.c:297-307): as much of the text as fits and a final NUL, not a  *)
(* byte beyond its size, and the length of the whole text as the answer.   *)
PrintsAlike ==
    state = "Done" =>
        LET whole == TextOf(request.format, request.args)
            kept == IF Len(whole.text) < request.size THEN Len(whole.text) ELSE request.size - 1
        IN  /\ result = IF whole.overflow THEN -1 ELSE Len(whole.text)
            /\ stored = whole.stored
            /\ \A k \in 0 .. request.size :
                  IF k < kept THEN str[k] = whole.text[k + 1]
                  ELSE IF k = kept THEN str[k] = Nul ELSE str[k] = Untouched

=============================================================================
