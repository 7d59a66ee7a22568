----------------------------- MODULE MCUrlText ------------------------------
(***************************************************************************)
(* UrlText with the characters that the functions treat in different ways. *)
(***************************************************************************)
EXTENDS UrlText, TLC

\* Letters, a digit, a character above 127 and one of each kind of mark.
ValueAlphabet == {50, 97, 195, Space, Percent, Plus, Ampersand, Apostrophe, Less}

\* Enough for "/%2e%2e", "%00" and "?": dots in both ways and a path that is cut.
UriAlphabet == {48, 50, 101, Dot, Slash, Percent, Question}

BodyAlphabet == {97, 98, Ampersand, Equals, Question, Space}

\* "a" and "A" for the case of names.
HeaderAlphabet == {65, 97, Colon, Space, LF}

\* "e", with which an origin of "file" alone ends, too.
OriginAlphabet == {97, 101, Dot, Space}

\* Origins of each scheme, among them one that is only a scheme, one with a space
\* and one that is a scheme with another letter, and origins that are not checked.
MCOrigins ==
    LET Schemes == {<<>>, <<104, 116, 116>>, <<70, 105, 108, 101>>} \cup CHECK_PROTOS
        Tails == UNION {[1 .. n -> {97, Dot}] : n \in 0 .. 3} \cup {<<97, Space, Dot>>}
    IN  {scheme \o tail : scheme \in Schemes, tail \in Tails}

MCAlphabet == "value" :> ValueAlphabet @@ "uri" :> UriAlphabet @@ "body" :> BodyAlphabet
              @@ "headers" :> HeaderAlphabet @@ "origins" :> OriginAlphabet
MCMaxLength == "value" :> 5 @@ "uri" :> 7 @@ "body" :> 7 @@ "headers" :> 8 @@ "origins" :> 6
=============================================================================
