------------------------------- MODULE MCEcho --------------------------------
\* Echo for TLC: with NAME_MAX = 3, "a" and "ab" fit and "abc" is cut to "ab".
EXTENDS Echo

Words == {<<"a">>, <<"a", "b">>, <<"a", "b", "c">>}
=============================================================================
