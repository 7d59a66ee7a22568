---------------------------- MODULE MCDialStore -----------------------------
(***************************************************************************)
(* DialStore with ordinary lists, an empty value, and a field of two words.*)
(***************************************************************************)
EXTENDS DialStore

Entry(key, value) == [key |-> <<key>>, value |-> <<value>>]

MCPosts ==
    {<<>>,
     <<Entry("a", "x")>>,
     <<Entry("a", "y"), Entry("b", "x")>>,
     <<Entry("b", "y"), Entry("a", "y"), Entry("c", "x")>>,
     <<[key |-> <<"a">>, value |-> <<>>], Entry("b", "x")>>,
     <<[key |-> <<"a", "b">>, value |-> <<"x">>], Entry("c", "y")>>}
=============================================================================
