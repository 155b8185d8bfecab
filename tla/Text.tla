-------------------------------- MODULE Text --------------------------------
(***************************************************************************)
(* Conversions of text: the command line into its parameters               *)
(* (kernel/params.c), numbers out of text (lib/string.c, lib/cmdline.c) and*)
(* formatted text into a buffer (lib/vsprintf.c, lib/kasprintf.c).         *)
(*                                                                         *)
(* A text is a sequence of characters, and reading behind it gives NUL.  A *)
(* job is a command line, or a format with its arguments; the steps are    *)
(* the turns of the loops of parse_args and vsnprintf.                     *)
(***************************************************************************)
EXTENDS Integers, Sequences, FiniteSets, FiniteSetsExt, SequencesExt

NUL == "NUL"
NoValue == <<NUL>>   \* of an argument without "="
Space == " "

CONSTANTS
  Arguments,   \* what a command line may hold: a parameter, its value, how it is quoted
  Formats,
  Values,      \* the arguments of a format
  Sizes,       \* of the buffers of scnprintf
  Memory       \* characters of memory, more than any text has

(* Arguments that can be written: spaces only inside quotes, one "=" to end the name. *)
ASSUME ArgumentAssumption ==
  \A a \in Arguments :
    /\ a.quoting \in {"none", "value", "whole"} /\ a.param # <<>> /\ "=" \notin ToSet(Tail(a.param))
    /\ a.quoting = "value" => a.val # NoValue
    /\ a.quoting # "whole" => Space \notin ToSet(a.param)
    /\ a.quoting = "none" => Space \notin ToSet(a.val)

(* Decimal numbers stay below 100000: put_dec never ends for larger ones. *)
DecLimit == 100000

ASSUME ValueAssumption ==
  \A v \in Values : v.int \in -(DecLimit - 1) .. DecLimit - 1 /\ v.star \in Int

VARIABLES
  textAt,      \* "idle", "parse", "measure", "print", "read" or "done"
  text,        \* the job: the command line, or the format and its arguments
  cursor,      \* how far the command line, or the format, is read
  parsed,      \* the parameters handed on so far
  spec,        \* struct printf_spec
  out,         \* where the text goes: position, size and memory
  length,      \* what the last call has returned
  number_read  \* and what memparse has

textVars == <<textAt, text, cursor, parsed, spec, out, length, number_read>>

At(s, i) == IF i \in DOMAIN s THEN s[i] ELSE NUL

DigitChars == <<"0", "1", "2", "3", "4", "5", "6", "7", "8", "9",
                "a", "b", "c", "d", "e", "f", "A", "B", "C", "D", "E", "F">>
DigitOf(c) == LET d == SelectInSeq(DigitChars, LAMBDA x : x = c) - 1
              IN IF d > 15 THEN d - 6 ELSE d
Decimal  == {DigitChars[d] : d \in 1 .. 10}
HexDigit == ToSet(DigitChars)
Alnum    == HexDigit \cup {"d", "s", "p", "u", "o", "x", "X", "c", "S"}
Quote    == "QUOTE"

(* The first place from i on that none of these characters is at. *)
Behind(s, i, chars) == Min({j \in i .. Len(s) + 1 : At(s, j) \notin chars})
Repeat(c, n) == [i \in 1 .. n |-> c]

-----------------------------------------------------------------------------
(* The command line *)

skip_spaces(s, i) == Behind(s, i, {Space})

(* Mutant: a space ends the argument inside quotes too. *)
EndOfWord(s, from, in_quote) == Min({i \in from .. Len(s) + 1 : At(s, i) \in {Space, NUL}})

(* next_arg's loop: to the first space that no quote is open at. *)
EndOfArg(s, from, in_quote) ==
  LET open(i) == (Cardinality({j \in from .. i - 1 : s[j] = Quote}) % 2 = 1) # in_quote
  IN Min({i \in from .. Len(s) + 1 : At(s, i) = NUL \/ (s[i] = Space /\ ~open(i))})

(* Without one quote at its end, if it has one. *)
Unquoted(s) == IF s # <<>> /\ Last(s) = Quote THEN Front(s) ELSE s

(* next_arg: an argument that starts with "=" has no value at that place. *)
next_arg(s, at) ==
  LET quoted == At(s, at) = Quote
      from   == IF quoted THEN at + 1 ELSE at
      end    == EndOfArg(s, from, quoted)
      equals == {i \in from + 1 .. end - 1 : s[i] = "="}
      raw    == SubSeq(s, Min(equals) + 1, end - 1)
      inner  == IF At(raw, 1) = Quote THEN Unquoted(Tail(raw)) ELSE raw
      strip  == IF quoted /\ Last(SubSeq(s, Min(equals), end - 1)) = Quote
                   /\ At(raw, 1) # Quote
                THEN Unquoted(inner) ELSE inner
  IN [arg  |-> IF equals = {} THEN [param |-> SubSeq(s, from, end - 1), val |-> NoValue]
               ELSE [param |-> SubSeq(s, from, Min(equals) - 1), val |-> strip],
      next |-> skip_spaces(s, IF At(s, end) = NUL THEN end ELSE end + 1)]

(* No parameter is in a table (num_params is 0), so that every one goes to
   do_early_param, handle_unknown, which takes it.                         *)
parse_one(arg) == Append(parsed, arg)

(* One turn of parse_args. *)
ParseArg ==
  /\ textAt = "parse"
  /\ IF At(text.line, cursor) = NUL
     THEN textAt' = "done" /\ UNCHANGED <<cursor, parsed>>
     ELSE LET n == next_arg(text.line, cursor)
          IN parsed' = parse_one(n.arg) /\ cursor' = n.next /\ UNCHANGED textAt
  /\ UNCHANGED <<text, spec, out, length, number_read>>

-----------------------------------------------------------------------------
(* Numbers *)

(* simple_guess_base of lib/string.c: no lower-case letter is an upper-case X, and
   so no number is hexadecimal.                                            *)
simple_guess_base(s, i) == IF At(s, i) = "0" THEN 8 ELSE 10

simple_strtoull(s, i) ==
  LET base == simple_guess_base(s, i)
      end  == Min({j \in i .. Len(s) + 1 : At(s, j) \notin HexDigit \/ DigitOf(At(s, j)) >= base})
      value[j \in i .. end] ==
        IF j = i THEN 0 ELSE base * value[j - 1] + DigitOf(s[j - 1])
  IN [value |-> value[end], end |-> end]

(* memparse of a text that starts at i: value << shift, which has 64 bits, and the
   end of what is read, a suffix included.                                 *)
memparse(s, i) ==
  LET n     == simple_strtoull(s, i)
      shift == CASE At(s, n.end) \in {"G", "g"} -> 30
                 [] At(s, n.end) \in {"M", "m"} -> 20
                 [] At(s, n.end) \in {"K", "k"} -> 10
                 [] OTHER -> 0
  IN [value |-> n.value, shift |-> shift, end |-> IF shift = 0 THEN n.end ELSE n.end + 1]

-----------------------------------------------------------------------------
(* Formatting *)

(* "if(buf < end) *buf = c; ++buf" for each of the characters. *)
Emit(o, chars) ==
  [o EXCEPT !.str = o.str + Len(chars),
            !.mem = [i \in DOMAIN o.mem |->
                       IF i <= o.size /\ i - o.str \in DOMAIN chars THEN chars[i - o.str]
                       ELSE o.mem[i]]]

(* put_dec_trunc: five digits by multiplications, from the last one on, and no
   zeros in front.                                                         *)
put_dec_trunc(q) ==
  LET n1 == (q \div 16) % 16   n2 == (q \div 256) % 16   n3 == q \div 4096
      a0 == 6 * (n3 + n2 + n1) + (q % 16)
      q0 == (a0 * 205) \div 2048
      a1 == q0 + 9 * n3 + 5 * n2 + n1
      q1 == (a1 * 205) \div 2048
      a2 == q1 + 2 * n2
      q2 == (a2 * 13) \div 128
      a3 == q2 + 4 * n3
      q3 == (a3 * 205) \div 2048
      digits == <<a0 - 10 * q0, a1 - 10 * q1, a2 - 10 * q2, a3 - 10 * q3, q3>>
  IN IF a1 = 0 THEN SubSeq(digits, 1, 1)
     ELSE IF a2 = 0 /\ n3 = 0 THEN SubSeq(digits, 1, 2)
     ELSE IF a3 = 0 THEN SubSeq(digits, 1, 3)
     ELSE IF q3 = 0 THEN SubSeq(digits, 1, 4) ELSE digits

(* The digits for a power of two, by its shift. *)
ShiftedDigits(num, base) ==
  LET n == Min({k \in 1 .. 7 : num < base ^ k}) IN [i \in 1 .. n |-> (num \div base ^ (i - 1)) % base]

(* What number puts into tmp, the last digit first. *)
TmpDigits(num, base) ==
  IF num = 0 THEN <<0>> ELSE IF base = 10 THEN put_dec_trunc(num) ELSE ShiftedDigits(num, base)

(* What sign and prefix take of the width. *)
SignWidth(sign, sp) ==
  Len(sign) + (IF "SPECIAL" \in sp.flags /\ sp.base # 10 THEN (IF sp.base = 16 THEN 2 ELSE 1) ELSE 0)

number(o, num, sp) ==
  LET sign   == IF "SIGN" \notin sp.flags THEN <<>>
                ELSE IF num < 0 THEN <<"-">> ELSE IF "PLUS" \in sp.flags THEN <<Space>> ELSE <<>>
      prefix == IF "SPECIAL" \notin sp.flags \/ sp.base = 10 THEN <<>>
                ELSE IF sp.base = 8 THEN <<"0">>
                ELSE <<"0", IF "SMALL" \in sp.flags THEN "x" ELSE "X">>
      tmp    == TmpDigits(IF num < 0 THEN -num ELSE num, sp.base)
      digit(d) == DigitChars[IF d > 9 /\ "SMALL" \notin sp.flags THEN d + 7 ELSE d + 1]
      zeros  == Max({sp.precision, Len(tmp)}) - Len(tmp)
      room   == Max({0, sp.width - SignWidth(sign, sp) - zeros - Len(tmp)})
      left   == "LEFT" \in sp.flags    pad == "ZEROPAD" \in sp.flags
  IN Emit(o, Repeat(Space, IF left \/ pad THEN 0 ELSE room) \o sign \o prefix
             \o Repeat("0", IF pad /\ ~left THEN room ELSE 0) \o Repeat("0", zeros)
             \o [i \in 1 .. Len(tmp) |-> digit(tmp[Len(tmp) + 1 - i])]
             \o Repeat(Space, IF left THEN room ELSE 0))

(* string: cut to the precision, -1 being the largest; padded to the width. *)
string(o, s, sp) ==
  LET len == IF sp.precision < 0 THEN Len(s) ELSE Min({Len(s), sp.precision})
      pad == Repeat(Space, Max({0, sp.width - len}))
  IN Emit(o, IF "LEFT" \in sp.flags THEN SubSeq(s, 1, len) \o pad ELSE pad \o SubSeq(s, 1, len))

Null == <<"(", "n", "u", "l", "l", ")">>

(* All digits of a word, with their prefix. *)
symbol_string(o, ptr, sp) ==
  number(o, ptr, [sp EXCEPT !.width = 8, !.base = 16,
                            !.flags = @ \cup {"SPECIAL", "SMALL", "ZEROPAD"}])

(* By the character behind the "p"; the formats have no other than "S" and "s". *)
pointer(o, ext, ptr, sp) ==
  LET bare == sp.width = -1
      wide == [sp EXCEPT !.width = IF bare THEN 8 ELSE @]
  IN IF ptr = 0 THEN string(o, Null, wide)
     ELSE IF ext \in {"S", "s"} THEN symbol_string(o, ptr, sp)
     ELSE number(o, ptr, [wide EXCEPT !.base = 16,
                            !.flags = @ \cup {"SMALL"} \cup (IF bare THEN {"ZEROPAD"} ELSE {})])

FlagOf == [c \in {"-", "+", Space, "#", "0"} |->
             CASE c = "-" -> "LEFT" [] c = "+" -> "PLUS" [] c = Space -> "SPACE"
               [] c = "#" -> "SPECIAL" [] c = "0" -> "ZEROPAD"]

skip_atoi(s, i) ==
  LET end == Behind(s, i, Decimal)
      value[j \in i .. end] == IF j = i THEN 0 ELSE 10 * value[j - 1] + DigitOf(s[j - 1])
  IN [value |-> value[end], end |-> end]

(* format_decode behind the precision: qualifier and conversion. *)
DecodeConversion(s, i, sp) ==
  LET at == IF At(s, i) \in {"h", "l", "L", "z", "Z", "t"}
            THEN IF At(s, i) \in {"h", "l"} /\ At(s, i + 1) = At(s, i) THEN i + 2 ELSE i + 1
            ELSE i
      c  == At(s, at)
      to(type, more, base) ==
        [at |-> at + 1, spec |-> [sp EXCEPT !.type = type, !.base = base, !.flags = @ \cup more,
                                            !.qualifier = SubSeq(s, i, at - 1)]]
  IN CASE c = "c" -> to("char", {}, 10)
       [] c = "s" -> to("str", {}, 10)
       [] c = "p" -> [to("ptr", {}, 10) EXCEPT !.at = at]
       [] c = "%" -> to("percent", {}, 10)
       [] c = "o" -> to("number", {}, 8)
       [] c = "x" -> to("number", {"SMALL"}, 16)
       [] c = "X" -> to("number", {}, 16)
       [] c \in {"d", "i"} -> to("number", {"SIGN"}, 10)
       [] c = "u" -> to("number", {}, 10)
       [] OTHER -> [to("invalid", {}, 10) EXCEPT !.at = at]

DecodePrecision(s, i, sp) ==
  LET none == [sp EXCEPT !.precision = -1]
      n    == skip_atoi(s, i + 1)
  IN IF At(s, i) # "." THEN DecodeConversion(s, i, none)
     ELSE IF At(s, i + 1) = "*" THEN [at |-> i + 2, spec |-> [none EXCEPT !.type = "precision"]]
     ELSE IF n.end = i + 1 THEN DecodeConversion(s, i + 1, none)
     ELSE DecodeConversion(s, n.end, [sp EXCEPT !.precision = n.value])

format_decode(s, i, sp) ==
  LET percent == Min({j \in i .. Len(s) + 1 : At(s, j) \in {"%", NUL}})
      j     == Behind(s, i + 1, DOMAIN FlagOf)
      n     == skip_atoi(s, j)
      fresh == [sp EXCEPT !.type = "none", !.width = -1,
                          !.flags = {FlagOf[s[k]] : k \in i + 1 .. j - 1}]
  IN CASE sp.type = "width" ->
            DecodePrecision(s, i, IF sp.width >= 0 THEN sp
                                  ELSE [sp EXCEPT !.width = -sp.width, !.flags = @ \cup {"LEFT"}])
       [] sp.type = "precision" ->
            DecodeConversion(s, i, [sp EXCEPT !.precision = Max({0, sp.precision})])
       [] OTHER ->
            IF percent # i THEN [at |-> percent, spec |-> [sp EXCEPT !.type = "none"]]
            ELSE IF n.end > j THEN DecodePrecision(s, n.end, [fresh EXCEPT !.width = n.value])
            ELSE IF At(s, j) = "*" THEN [at |-> j + 1, spec |-> [fresh EXCEPT !.type = "width"]]
            ELSE DecodePrecision(s, j, fresh)

(* The argument of a number, cut to a byte by "hh" and to a short by "h". *)
Narrowed(v, sp) ==
  LET signed == "SIGN" \in sp.flags
      bits   == IF sp.qualifier = <<"h", "h">> THEN 8 ELSE IF sp.qualifier = <<"h">> THEN 16 ELSE 30
      low    == (IF signed THEN v.int ELSE v.ptr) % 2 ^ bits
  IN IF signed /\ low >= 2 ^ (bits - 1) THEN low - 2 ^ bits ELSE low

(* What a turn of vsnprintf's loop writes. *)
Written(o, s, i, d, v) ==
  LET pad == Repeat(Space, Max({0, d.spec.width - 1}))
  IN CASE d.spec.type = "none" -> Emit(o, SubSeq(s, i, d.at - 1))
       [] d.spec.type = "char" ->
            Emit(o, IF "LEFT" \in d.spec.flags THEN <<v.char>> \o pad ELSE pad \o <<v.char>>)
       [] d.spec.type = "str"  -> string(o, v.str, d.spec)
       [] d.spec.type = "ptr"  -> pointer(o, At(s, d.at + 1), v.ptr, d.spec)
       [] d.spec.type \in {"percent", "invalid"} -> Emit(o, <<"%">>)
       [] d.spec.type = "number" ->
            number(o, Narrowed(v, d.spec), d.spec)
       [] OTHER -> o


(* The byte behind the text, or the last one of the buffer. *)
Terminated(o) ==
  IF o.size = 0 THEN o
  ELSE [o EXCEPT !.mem[IF o.str < o.size THEN o.str + 1 ELSE o.size] = NUL]

NoSpec ==
  [type |-> "none", flags |-> {}, width |-> 0, precision |-> 0, base |-> 0, qualifier |-> <<>>]
Blank(size) == [str |-> 0, size |-> size, mem |-> [i \in 1 .. Memory |-> "?"]]

(* One turn of the loop of vsnprintf. *)
FormatStep ==
  /\ textAt \in {"measure", "print"} /\ cursor <= Len(text.format)
  /\ LET d == format_decode(text.format, cursor, spec)
     IN /\ cursor' = IF d.spec.type = "ptr" THEN Behind(text.format, d.at, Alnum) ELSE d.at
        /\ spec' = CASE d.spec.type = "width"     -> [d.spec EXCEPT !.width = text.value.star]
                     [] d.spec.type = "precision" -> [d.spec EXCEPT !.precision = text.value.star]
                     [] OTHER -> d.spec
        /\ out' = Written(out, text.format, cursor, d, text.value)
  /\ UNCHANGED <<textAt, text, parsed, length, number_read>>

(* vsnprintf returns the length of the whole text.  kvasprintf measures it, and
   prints it into what kmalloc gives for one more; a refusal ends it.      *)
MeasureDone ==
  /\ textAt = "measure" /\ cursor > Len(text.format)
  /\ length' = out.str
  /\ \/ textAt' = "print" /\ out' = Blank(out.str + 1) /\ cursor' = 1 /\ spec' = NoSpec
     \/ textAt' = "done" /\ out' = Blank(0) /\ UNCHANGED <<cursor, spec>>
  /\ UNCHANGED <<text, parsed, number_read>>

(* vscnprintf returns what is in the buffer. *)
vscnprintf(o) == IF o.str < o.size THEN o.str ELSE Max({o.size - 1, 0})

PrintDone ==
  /\ textAt = "print" /\ cursor > Len(text.format)
  /\ out' = Terminated(out)
  /\ length' = IF text.kind = "kasprintf" THEN out.str ELSE vscnprintf(out)
  /\ textAt' = "read"
  /\ UNCHANGED <<text, cursor, parsed, spec, number_read>>

(* What the buffer holds. *)
Content(o) ==
  SubSeq(o.mem, 1, Min({i \in DOMAIN o.mem : o.mem[i] = NUL} \cup {o.size + 1}) - 1)

(* The text is read as a number, with a suffix. *)
ReadNumber ==
  /\ textAt = "read"
  /\ number_read' = memparse(Content(out) \o <<text.value.suffix>>, skip_spaces(Content(out), 1))
  /\ textAt' = "done"
  /\ UNCHANGED <<text, cursor, parsed, spec, out, length>>

-----------------------------------------------------------------------------
TextInit ==
  /\ textAt = "idle"
  /\ text = [kind |-> "none"]
  /\ cursor = 1 /\ parsed = <<>> /\ spec = NoSpec /\ out = Blank(0)
  /\ length = 0 /\ number_read = [value |-> 0, shift |-> 0, end |-> 1]

(* How a command line is written: quotes round the value or the whole. *)
AsWritten(a) ==
  LET plain == a.param \o (IF a.val = NoValue THEN <<>> ELSE <<"=">> \o a.val)
  IN CASE a.quoting = "none"  -> plain
       [] a.quoting = "value" -> a.param \o <<"=", Quote>> \o a.val \o <<Quote>>
       [] a.quoting = "whole" -> <<Quote>> \o plain \o <<Quote>>
Line(args, gap) ==
  gap \o FoldLeft(LAMBDA line, a : line \o AsWritten(a) \o gap \o <<Space>>, <<>>, args)

(* parse_args with the command line, its leading spaces skipped. *)
CallParseArgs ==
  /\ textAt = "idle"
  /\ \E args \in UNION {[1 .. n -> Arguments] : n \in {0, 1, 2}}, gap \in {<<>>, <<Space>>} :
       /\ text' = [kind |-> "line", args |-> args, line |-> Line(args, gap)]
       /\ cursor' = skip_spaces(Line(args, gap), 1)
  /\ textAt' = "parse"
  /\ UNCHANGED <<parsed, spec, out, length, number_read>>

CallKasprintf ==
  /\ textAt = "idle"
  /\ \E f \in Formats, v \in Values : text' = [kind |-> "kasprintf", format |-> f, value |-> v]
  /\ textAt' = "measure"
  /\ UNCHANGED <<cursor, parsed, spec, out, length, number_read>>

CallScnprintf ==
  /\ textAt = "idle"
  /\ \E f \in Formats, v \in Values, size \in Sizes :
       text' = [kind |-> "scnprintf", format |-> f, value |-> v] /\ out' = Blank(size)
  /\ textAt' = "print"
  /\ UNCHANGED <<cursor, parsed, spec, length, number_read>>

TextNext ==
  \/ CallParseArgs \/ CallKasprintf \/ CallScnprintf
  \/ ParseArg \/ FormatStep \/ MeasureDone \/ PrintDone \/ ReadNumber

-----------------------------------------------------------------------------
(* Properties *)

(* How an argument is read.  Its quotes come off, wherever they stand, but for one:
   next_arg takes the last one off the value only, so that an argument without a
   value that is quoted as a whole keeps the quote behind its name.        *)
ReadBack(a) ==
  [param |-> IF a.quoting = "whole" /\ a.val = NoValue THEN Append(a.param, Quote) ELSE a.param,
   val   |-> a.val]

(* A command line reads back as it was meant: next_arg finds the same parameters
   and values whether they are quoted or not (ReadBack names the quote it leaves),
   whatever spaces and "=" stand in a value, and however many spaces are between
   the arguments.                                                          *)
ArgumentsReadBack ==
  textAt = "done" /\ text.kind = "line" =>
    parsed = [i \in DOMAIN text.args |-> ReadBack(text.args[i])]

IsNumber(f) ==
  f \in {<<"%">> \o flags \o width \o <<conv>> :
           flags \in {<<>>, <<"-">>}, width \in {<<>>, <<"6">>}, conv \in {"d", "u"}}
     \cup {<<"%", "#", "o">>}

(* The width of the last conversion; pointers have their own. *)
Width == IF spec.type = "ptr" /\ spec.width = -1 THEN 8 ELSE spec.width

(* Where number prints a space for a plus. *)
PlusAt(i) ==
  i = 1 /\ spec.type = "number" /\ {"PLUS", "SIGN"} \subseteq spec.flags
  /\ Narrowed(text.value, spec) >= 0

(* A single conversion has exactly its width, or has no padding: all its characters
   are the number's or the text's, and the space of PlusAt.                *)
WidthFilled ==
  spec.type \in {"number", "str", "char", "ptr"} /\ spec.precision = -1
  /\ Head(text.format) = "%" =>
    \/ out.str = Width
    \/ out.str > Width /\ \A i \in 1 .. length : out.mem[i] = Space => PlusAt(i)

(* What memparse finds in the printed text and the suffix behind it, which padding
   to the right separates from the number.                                 *)
NumberReadBack ==
  LET end   == Max({i \in 1 .. length : out.mem[i] # Space}) + 1
      shift == IF end <= length THEN 0
               ELSE CASE text.value.suffix = "k" -> 10 [] text.value.suffix = "m" -> 20
                      [] text.value.suffix = "G" -> 30 [] OTHER -> 0
      n     == IF Last(text.format) = "d" THEN text.value.int ELSE text.value.ptr
  IN n >= 0 => number_read = [value |-> n, shift |-> shift,
                              end |-> IF shift = 0 THEN end ELSE end + 1]

=============================================================================
