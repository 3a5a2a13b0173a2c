------------------------------ MODULE Krnlstring ------------------------------
(***************************************************************************)
(* Formatting in the kernel's runtime library (KRTL/Krnlstring.c):         *)
(* KrtlFormatStringVariadic, one action per kind of round of its loop, and *)
(* the conversions of numbers it uses.  The assertions (Core/Assert.c) are *)
(* its callers; the text protocol uses the conversions.                    *)
(*                                                                         *)
(* A call is a list of elements, each a piece of the format and the        *)
(* argument it takes.  The code only sees them joined: the format as       *)
(* characters and the arguments in a row.  What it writes is kept as one   *)
(* piece for each round.                                                   *)
(***************************************************************************)
EXTENDS Integers, SequencesExt

CONSTANTS Calls,    \* [elements, Limit]; an element is [format, args]
          NULL      \* a null pointer as an argument

VARIABLES call, Format, Arguments, pieces, HexOrBoolCase, result

stringVars == <<call, Format, Arguments, pieces, HexOrBoolCase, result>>

NUL == "NUL"
RUNNING == -2
DIGITS == <<"0", "1", "2", "3", "4", "5", "6", "7", "8", "9">>
LOWERCASE == DIGITS \o <<"a", "b", "c", "d", "e", "f">>
UPPERCASE == DIGITS \o <<"A", "B", "C", "D", "E", "F">>

Written == FlattenSeq(pieces)

StringInit ==
    /\ call \in Calls
    /\ Format = FlattenSeq([k \in DOMAIN call.elements |-> call.elements[k].format])
    /\ Arguments = FlattenSeq([k \in DOMAIN call.elements |-> call.elements[k].args])
    /\ pieces = <<>> /\ HexOrBoolCase = FALSE /\ result = RUNNING
-----------------------------------------------------------------------------
KrtlDigitChar(r, upper) == (IF upper THEN UPPERCASE ELSE LOWERCASE)[r + 1]

(* The digits of a number, the last one first, as the loops write them. *)
RECURSIVE DigitLoop(_, _, _)
DigitLoop(value, radix, upper) ==
    IF value = 0 THEN <<>>
    ELSE <<KrtlDigitChar(value % radix, upper)>> \o DigitLoop(value \div radix, radix, upper)

(* Wrong variant: the reversal leaves the sign at the end. *)
KrtlReverseDigits(s) == IF Last(s) = "-" THEN Append(Reverse(Front(s)), "-") ELSE Reverse(s)
KrtlReverseString(s) == Reverse(s)

KrtlUnsignedToString(value, radix, upper) ==
    IF value = 0 THEN <<"0">> ELSE KrtlReverseString(DigitLoop(value, radix, upper))

KrtlSignedToString(value, radix, upper) ==
    IF value = 0 THEN <<"0">>
    ELSE LET size == IF value < 0 THEN -value ELSE value
             digits == DigitLoop(size, radix, upper)
         IN  KrtlReverseString(IF value < 0 THEN Append(digits, "-") ELSE digits)

(* What is copied for a string: KrtlStringSize looks at the second         *)
(* character first, so the empty string is taken to go on after its NUL.   *)
StringCopied(s) == IF s = <<>> THEN {<<NUL>>, <<NUL, "junk">>} ELSE {s}
-----------------------------------------------------------------------------
(* A round of the loop: the limit is looked at before each, and only then. *)
Round == /\ result = RUNNING /\ Format # <<>>
         /\ call.Limit = -1 \/ Len(Written) < call.Limit

LimitReached ==
    /\ result = RUNNING /\ Format # <<>>
    /\ call.Limit # -1 /\ Len(Written) >= call.Limit
    /\ result' = Len(Written)
    /\ UNCHANGED <<call, Format, Arguments, pieces, HexOrBoolCase>>

Literal ==
    /\ Round /\ Head(Format) # "%"
    /\ pieces' = Append(pieces, <<Head(Format)>>) /\ Format' = Tail(Format)
    /\ UNCHANGED <<call, Arguments, HexOrBoolCase, result>>

(* The k-th character, or the NUL that ends the format. *)
At(k) == IF k <= Len(Format) THEN Format[k] ELSE NUL
Specifier(c) == Round /\ At(1) = "%" /\ At(2) = c

(* One piece is written, and the specifier and n arguments are taken. *)
Write(piece, specifier, n) ==
    /\ pieces' = Append(pieces, piece)
    /\ Format' = SubSeq(Format, specifier + 1, Len(Format))
    /\ Arguments' = SubSeq(Arguments, n + 1, Len(Arguments))
    /\ UNCHANGED <<call, result>>

(* "%%" writes the character after it, which the next round writes again. *)
Percent ==
    /\ Specifier("%")
    /\ Write(<<At(3)>>, 2, 0)
    /\ UNCHANGED HexOrBoolCase

Character == Specifier("c") /\ Write(<<Head(Arguments)>>, 2, 1) /\ UNCHANGED HexOrBoolCase

(* Wrong variant: the case is not reset. *)
CaseKept(upper) == upper
CaseReset(upper) == FALSE

(* 'B' and 'X' set the case and fall through to 'b' and 'x'. *)
Boolean ==
    \E upper \in BOOLEAN :
      /\ Specifier(IF upper THEN "B" ELSE "b")
      /\ LET up == upper \/ HexOrBoolCase
             words == IF up THEN <<<<"T", "R", "U", "E">>, <<"F", "A", "L", "S", "E">>>>
                      ELSE <<<<"t", "r", "u", "e">>, <<"f", "a", "l", "s", "e">>>>
         IN  Write(words[IF Head(Arguments) # 0 THEN 1 ELSE 2], 2, 1) /\ HexOrBoolCase' = CaseReset(up)

(* A null pointer is written as "(NULL)" with its NUL, by sizeof. *)
String ==
    /\ Specifier("s")
    /\ \E s \in IF Head(Arguments) = NULL THEN {<<"(", "N", "U", "L", "L", ")", NUL>>}
                ELSE StringCopied(Head(Arguments)) : Write(s, 2, 1)
    /\ UNCHANGED HexOrBoolCase

Signed ==
    /\ Specifier("d") \/ Specifier("i")
    /\ Write(KrtlSignedToString(Head(Arguments), 10, FALSE), 2, 1)
    /\ UNCHANGED HexOrBoolCase

Unsigned ==
    /\ \/ Specifier("u") /\ Write(KrtlUnsignedToString(Head(Arguments), 10, FALSE), 2, 1)
       \/ Specifier("o") /\ Write(KrtlUnsignedToString(Head(Arguments), 8, FALSE), 2, 1)
       \/ Specifier("p") /\ Write(<<"0", "x">> \o KrtlUnsignedToString(Head(Arguments), 16, TRUE), 2, 1)
    /\ UNCHANGED HexOrBoolCase

Hexadecimal ==
    \E upper \in BOOLEAN :
      /\ Specifier(IF upper THEN "X" ELSE "x")
      /\ LET up == upper \/ HexOrBoolCase
         IN  /\ Write(KrtlUnsignedToString(Head(Arguments), 16, up), 2, 1)
             /\ HexOrBoolCase' = CaseReset(up)

(* %R: a second character chooses the form of a number of 64 bits. *)
Extended ==
    /\ Specifier("R")
    /\ \/ /\ At(3) = "u" /\ UNCHANGED HexOrBoolCase
          /\ Write(KrtlUnsignedToString(Head(Arguments), 10, FALSE), 3, 1)
       \/ /\ At(3) \in {"x", "X"}
          /\ LET up == At(3) = "X" \/ HexOrBoolCase
             IN  /\ Write(KrtlUnsignedToString(Head(Arguments), 16, up), 3, 1)
                 /\ HexOrBoolCase' = CaseReset(up)

(* The format ends after "%" or "%R", or the specifier is not known. *)
Malformed ==
    /\ Round /\ At(1) = "%"
    /\ \/ At(2) \notin {"%", "c", "B", "b", "s", "d", "i", "u", "o", "X", "x", "p", "R"}
       \/ At(2) = "R" /\ At(3) \notin {"u", "x", "X"}
    /\ result' = -1
    /\ UNCHANGED <<call, Format, Arguments, pieces, HexOrBoolCase>>

Done == /\ result = RUNNING /\ Format = <<>>
        /\ result' = Len(Written)
        /\ UNCHANGED <<call, Format, Arguments, pieces, HexOrBoolCase>>

StringNext ==
    \/ LimitReached \/ Literal \/ Percent \/ Character \/ Boolean \/ String
    \/ Signed \/ Unsigned \/ Hexadecimal \/ Extended \/ Malformed \/ Done

StringSpec == StringInit /\ [][StringNext]_stringVars /\ WF_stringVars(StringNext)
-----------------------------------------------------------------------------
(* A numeral of v: its value is v, and it has no leading zero. *)
DigitValue(c) == CHOOSE n \in 0..15 : LOWERCASE[n + 1] = c \/ UPPERCASE[n + 1] = c
IsNumeral(s, v, radix, alphabet) ==
    /\ s # <<>> /\ \A k \in DOMAIN s : Contains(SubSeq(alphabet, 1, radix), s[k])
    /\ FoldLeft(LAMBDA n, c : n * radix + DigitValue(c), 0, s) = v
    /\ Head(s) = "0" => Len(s) = 1

(* What each element of a call should have become. *)
IsTextOf(s, e) ==
    LET spec == Tail(e.format)  v == Head(e.args) IN
    CASE spec \in {<<"d">>, <<"i">>} ->
             IF v < 0 THEN Head(s) = "-" /\ IsNumeral(Tail(s), -v, 10, DIGITS) ELSE IsNumeral(s, v, 10, DIGITS)
      [] spec \in {<<"u">>, <<"R", "u">>}      -> IsNumeral(s, v, 10, DIGITS)
      [] spec = <<"o">>                        -> IsNumeral(s, v, 8, DIGITS)
      [] spec \in {<<"x">>, <<"R", "x">>}      -> IsNumeral(s, v, 16, LOWERCASE)
      [] spec \in {<<"X">>, <<"R", "X">>}      -> IsNumeral(s, v, 16, UPPERCASE)
      [] spec = <<"p">>                        ->
             SubSeq(s, 1, 2) = <<"0", "x">> /\ IsNumeral(SubSeq(s, 3, Len(s)), v, 16, UPPERCASE)
      [] spec = <<"b">>                        -> s = IF v # 0 THEN <<"t", "r", "u", "e">> ELSE <<"f", "a", "l", "s", "e">>
      [] spec = <<"B">>                        -> s = IF v # 0 THEN <<"T", "R", "U", "E">> ELSE <<"F", "A", "L", "S", "E">>
      [] spec = <<"c">>                        -> s = <<v>>
      [] spec = <<"s">>                        -> s = v

(* Elements whose text the code gets wrong: "%%", a null pointer and the   *)
(* empty string.                                                           *)
Sound(e) == /\ e.format # <<"%", "%">>
            /\ e.format = <<"%", "s">> => Head(e.args) # NULL /\ Head(e.args) # <<>>
WellFormed(e) == Head(e.format) = "%" => Len(e.format) > 1 /\ e.format[2] # "q" /\ e.format # <<"%", "R">>

(* Every element so far has become its text, whatever elements came        *)
(* before it; the format is refused only if an element is malformed, and   *)
(* without a limit nothing is left out; the count is that of the           *)
(* characters written; and only the last element may overshoot the limit.  *)
FormatIsRight ==
    (\A k \in DOMAIN call.elements : Sound(call.elements[k])) =>
      /\ \A k \in DOMAIN pieces :
           LET e == call.elements[k] IN
           IF Head(e.format) = "%" THEN IsTextOf(pieces[k], e) ELSE pieces[k] = e.format
      /\ result = -1 => \E k \in DOMAIN call.elements : ~WellFormed(call.elements[k])
      /\ result \notin {RUNNING, -1} =>
           /\ result = Len(Written)
           /\ call.Limit = -1 => Len(pieces) = Len(call.elements)
      /\ call.Limit # -1 /\ pieces # <<>> => Len(FlattenSeq(Front(pieces))) < call.Limit

(* The buffers of the conversions hold what is written into them, its NUL  *)
(* included: Buf[12] for an INT, Buf[11] for a UINT.                       *)
BuffersSuffice ==
    \A k \in DOMAIN pieces : k \in DOMAIN call.elements =>
      LET spec == Tail(call.elements[k].format) IN
      /\ spec = <<"d">> => Len(pieces[k]) + 1 <= 12
      /\ spec = <<"u">> => Len(pieces[k]) + 1 <= 11
=============================================================================
