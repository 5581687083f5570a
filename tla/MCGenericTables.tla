-------------------------- MODULE MCGenericTables --------------------------
EXTENDS GenericTables

\* One namespace of two levels, the second with a slash in it, written as levels (an
\* empty one is dropped), with dots and with separators; and one with a dot in a level.
Slashed == << <<"a">>, <<"b", "/", "b">> >>
Dotted  == << <<"a", ".", "b">>, <<"b">> >>

MCLevels == [ns |-> [form |-> "levels", value |-> << <<"a">>, << >>, <<"b", "/", "b">> >>],
             means |-> Slashed]
MCText   == [ns |-> [form |-> "text", value |-> <<"a", ".", "b", "/", "b">>],
             means |-> Slashed]
MCRaw    == [ns |-> [form |-> "text", value |-> <<"a", ".", "b", "US", "b">>],
             means |-> Dotted]

MCCalls == {MCLevels, MCText, MCRaw}
MCLang  == [p |-> "python", j |-> "java"]
MCWants == [p |-> MCLevels, j |-> MCText]
MCEnds  == [p |-> {NoToken, EmptyToken}, j |-> {NoToken}]
=============================================================================
