--------------------------- MODULE MCDictBuilder ---------------------------
(***************************************************************************)
(* Small lexicons for DictBuilder: one-letter finals, a Zh spelling beside *)
(* a Z one, characters with two spellings, a word with two readings, words *)
(* that begin others, and lines that are dropped at each place.            *)
(***************************************************************************)
EXTENDS DictBuilder

MCPsb(freq) == 1000 - freq

A == <<65>>
AN == <<65, 78>>
GA == <<71, 65>>
ZA == <<90, 65>>
ZHA == <<90, 104, 65>>
NG == <<78, 71>>

Line(word, freq, spell) == [word |-> word, freq |-> freq, gbk |-> FALSE, spell |-> spell,
                            rest |-> FALSE]

MCLines ==
  {Line(<<1>>, 90, <<GA>>),
   Line(<<2>>, 80, <<AN>>),
   Line(<<2>>, 20, <<A>>),
   Line(<<3>>, 70, <<ZHA>>),
   Line(<<1, 2>>, 100, <<GA, AN>>),
   Line(<<1, 2>>, 85, <<GA, A>>),
   Line(<<1, 3>>, 95, <<GA, ZA>>),
   Line(<<1, 2, 3>>, 75, <<GA, A, ZHA>>),
   Line(<<1, 2, 3>>, 70, <<GA, AN, ZA>>),
   Line(<<3, 1>>, 99, <<ZA, NG>>),                     \* dropped after ZA went in
   Line(<<2, 2>>, 50, <<A, A>>)}                       \* too rare
=============================================================================
