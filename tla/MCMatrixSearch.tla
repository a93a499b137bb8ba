--------------------------- MODULE MCMatrixSearch ---------------------------
EXTENDS MatrixSearch, DictConstruct

MCPsb(freq) == 100 - freq

A == <<65>>
AN == <<65, 78>>
GA == <<71, 65>>
GAN == <<71, 65, 78>>
NA == <<78, 65>>

MCSpellings == <<A, AN, GA, GAN, NA>>
Entry(word, freq, spell) == [word |-> word, freq |-> freq, spell |-> spell]

\* The last lemma has no word when asked for by its id.
MCLexicon ==
  <<Entry(<<1>>, 95, <<GA>>), Entry(<<2>>, 80, <<AN>>), Entry(<<3>>, 70, <<A>>),
    Entry(<<4>>, 90, <<GAN>>), Entry(<<5>>, 85, <<NA>>),
    Entry(<<1, 2>>, 78, <<GA, AN>>), Entry(<<4, 3>>, 48, <<GAN, A>>),
    Entry(<<1, 5>>, 82, <<GA, NA>>),
    Entry(<<7>>, 20, <<NA>>), Entry(<<1, 7>>, 50, <<GA, NA>>), Entry(<<9, 9>>, 1, <<A, A>>)>>

Built == BuiltFrom(MCSpellings, MCLexicon)
MCDict == Built.dict
MCInitial == [id \in 30..34 |-> MCSpellings[id - 29][1]]

\* A word of the system dictionary that was learned as well.
MCUser == <<[id |-> 100, spell |-> <<32, 34>>, word |-> <<1, 7>>]>>

\* gana, gan, gg, ggg
MCStrings == {<<103, 97, 110, 97>>, <<103, 97, 110>>, <<103, 103>>, <<103, 103, 103>>}
=============================================================================
