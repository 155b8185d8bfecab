------------------------------ MODULE ServicesMC ------------------------------
(***************************************************************************)
(* TLC instance of Services: a percpu unit of twelve bytes whose map is    *)
(* extended after three areas, three pages for two slots of high memory,   *)
(* pools of up to four elements, a tree of four levels of one bit, caches  *)
(* that may be merged with each other and with kmalloc's, a window of      *)
(* addresses with room for three or four blocks of vmalloc, one of which   *)
(* needs a nested block for its array of pages, boards whose memory is     *)
(* described in every way the boot reads, and short texts.                 *)
(***************************************************************************)
EXTENDS Services

MCTypes == {[size |-> 2, align |-> 1], [size |-> 3, align |-> 4], [size |-> 4, align |-> 2]}

MCPages  == {11, 12, 13}
MCBucket == [p \in MCPages |-> p % 2]

MCElements == 1 .. 5
MCMinNrs   == {1, 2, 4}

MCIndices == {0, 1, 2, 4, 7, 8, 12, 15}
MCItems   == {1, 2}

Req(size, align, flags, ctor) == [size |-> size, align |-> align, flags |-> flags, ctor |-> ctor]
MCRequests == {
  Req(92, 4, {}, FALSE),
  Req(90, 64, {}, FALSE),
  Req(40, 4, {"HWCACHE_ALIGN"}, FALSE),
  Req(124, 8, {"RECLAIM_ACCOUNT", "PANIC"}, FALSE),
  Req(124, 8, {"RECLAIM_ACCOUNT"}, TRUE),
  Req(5000, 8, {}, FALSE),
  Req(40000, 8, {"DESTROY_BY_RCU"}, FALSE),
  Req(8388608, 8, {"PANIC"}, FALSE)}
MCSizes ==
  {1, 8, 9, 24, 25, 64, 65, 72, 96, 97, 128, 129, 136, 192,
    193, 256, 257, 1024, 1025, 4096, 4097, 8192}

MCFrames       == 101 .. 105
MCVmallocSizes == {1, 3}

T(tag, start, size) == [tag |-> tag, start |-> start, size |-> size]
P(param, start, size) == [param |-> param, start |-> start, size |-> size]
B(start, size) == [start |-> start, size |-> size]
NoKernel == [code |-> <<>>, data |-> <<>>]
MCBoards == {
  [fixup |-> <<B(32, 16)>>, tags |-> <<T("core", 0, 0), T("mem", 4 * 32, 4 * 4)>>,
   cmdline |-> <<>>, kernel |-> NoKernel],
  [fixup |-> <<B(32, 16), B(49, 20)>>, tags |-> <<>>,
   cmdline |-> <<P("console", 0, 0), P("vmalloc", 0, 12)>>, kernel |-> NoKernel],
  [fixup |-> <<B(32, 16), B(49, 20)>>, tags |-> <<>>,
   cmdline |-> <<P("vmalloc", 0, 1)>>, kernel |-> [code |-> <<33, 34>>, data |-> <<35, 36>>]],
  [fixup |-> <<B(32, 16), B(49, 10)>>, tags |-> <<>>,
   cmdline |-> <<P("vmalloc", 0, 30)>>, kernel |-> [code |-> <<33, 34>>, data |-> <<35, 50>>]],
  [fixup |-> <<B(32, 16), B(49, 20)>>, tags |-> <<T("core", 0, 0)>>,
   cmdline |-> <<P("mem", 4 * 60, 4 * 10), P("mem", 4 * 32, 4 * 16 + 3)>>, kernel |-> NoKernel],
  [fixup |-> <<>>,
   tags |-> <<T("core", 0, 0), T("mem", 4 * 64, 4 * 4), T("mem", 4 * 70, 2),
              T("mem", 4 * 48 + 2, 4 * 4), T("mem", 4 * 32, 4 * 16)>>,
   cmdline |-> <<>>, kernel |-> NoKernel],
  [fixup |-> <<>>,
   tags |-> <<T("core", 0, 0), T("mem", 4 * 76, 4 * 3),  T("mem", 4 * 64, 4 * 4),
              T("mem", 4 * 32, 4 * 20), T("mem", 4 * 57, 4 * 2)>>,
   cmdline |-> <<P("vmalloc", 0, 8)>>, kernel |-> NoKernel],
  [fixup |-> <<B(32, 13), B(47, 12)>>, tags |-> <<>>,
   cmdline |-> <<>>, kernel |-> NoKernel],
  [fixup |-> <<B(32, 17), B(50, 4)>>, tags |-> <<>>,
   cmdline |-> <<>>, kernel |-> NoKernel]}
MCSwapper == {36}
(* Command lines of up to two arguments; "none" only where no space asks for more. *)
Arg(param, val, quoting) == [param |-> param, val |-> val, quoting |-> quoting]
MCArguments == {
  Arg(<<"m">>, NoValue, "none"), Arg(<<"m", "m">>, NoValue, "none"), Arg(<<"=", "m">>, NoValue, "none"),
  Arg(<<"m">>, <<>>, "none"), Arg(<<"m">>, <<"1">>, "none"), Arg(<<"m">>, <<"=", "1">>, "none"),
  Arg(<<"m">>, <<"1", "k">>, "whole"), Arg(<<"m">>, <<"1", Space, "k">>, "value"),
  Arg(<<"m">>, <<Space>>, "value"), Arg(<<"m">>, <<"1", Space, "k">>, "whole"),
  Arg(<<"m">>, NoValue, "whole"), Arg(<<"m", Space, "m">>, NoValue, "whole"),
  Arg(<<"m">>, <<>>, "whole"), Arg(<<"m">>, <<>>, "value"), Arg(<<"m", "m">>, <<"=">>, "whole")}

(* One conversion, alone and between other text, with every flag and every way to
   give a width and a precision.                                           *)
Alone == {<<"%">> \o flags \o width \o <<conv>> :
            flags \in {<<>>, <<"-">>, <<"0">>, <<"+">>}, width \in {<<>>, <<"6">>, <<"*">>},
            conv \in {"d", "u", "x", "s", "c"}}
MCFormats == Alone \cup {
  <<"%", "#", "o">>, <<"%", "#", "X">>, <<"%", "#", "8", "x">>, <<"%", Space, "i">>,
  <<"%", "p">>, <<"%", "p", "S">>, <<"%", "4", "p", "=">>, <<"%", "-", "9", "p">>,
  <<"%", ".", "4", "d">>, <<"%", "6", ".", "3", "d">>, <<"%", ".", "*", "s">>, <<"%", ".", "s">>,
  <<"%", "h", "d">>, <<"%", "h", "h", "u">>, <<"%", "l", "l", "d">>, <<"%", "z", "u">>,
  <<"a", "=", "%", "d", "m">>, <<"%", "%", "%", "s", "a">>, <<"a", "%", "y">>, <<"%", "-", "3", "l">>,
  <<>>, <<"a", Space, "m">>}
Val(int, ptr, star, str, char, suffix) ==
  [int |-> int, ptr |-> ptr, star |-> star, str |-> str, char |-> char, suffix |-> suffix]
MCValues == {
  Val(0, 0, 0, <<>>, "a", NUL), Val(-70, 7, -3, <<"a">>, "m", "k"),
  Val(109, 90000, 2, <<"a", "m", "1">>, "1", "k"), Val(99999, 43981, 7, Null, "x", "G"),
  Val(-32769, 32768, 5, <<"a", "m">>, "y", NUL), Val(70, 1000, 1, <<"m">>, "k", "m")}
===============================================================================
