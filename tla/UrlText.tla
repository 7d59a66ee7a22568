------------------------------ MODULE UrlText -------------------------------
(***************************************************************************)
(* The functions on text of the server: url_lib.c, what mongoose.c does to *)
(* the head of a request and to its path before the handler sees them, and *)
(* the list of origins of dial_server.c.  A text is a sequence of          *)
(* character codes, without the NUL at its end.                            *)
(*                                                                         *)
(* The specification writes a text, one character after the other, and the *)
(* properties compare each function with what it is for.  A text is used   *)
(* as one of five things, each with the characters that matter to it: a    *)
(* value that is encoded and decoded, the URI of a request, the body of a  *)
(* dial_data request, the header lines of a request, or a list of origins. *)
(***************************************************************************)
EXTENDS Integers, SequencesExt

CONSTANTS
    Alphabet,   \* Alphabet[use]: the characters of texts
    MaxLength,  \* bound: MaxLength[use], how long they get
    MaxHeaders, \* ARRAY_SIZE(ri->http_headers)
    Origins     \* origins that are compared with lists

Uses == {"value", "uri", "body", "headers", "origins"}

ASSUME TextAssumption ==
    /\ Alphabet \in [Uses -> SUBSET (1 .. 255)]
    /\ MaxLength \in [Uses -> Nat]
    /\ MaxHeaders \in Nat
    /\ Origins \subseteq Seq(1 .. 255)

LF == 10        CR == 13      Colon == 58
Space == 32     Quote == 34   Percent == 37   Ampersand == 38   Apostrophe == 39
Plus == 43      Hyphen == 45  Dot == 46       Slash == 47       Semicolon == 59
Less == 60      Equals == 61  Greater == 62   Question == 63    Backslash == 92
Underscore == 95              Tilde == 126

VARIABLES use, text
vars == <<use, text>>

-----------------------------------------------------------------------------
(* Texts.                                                                  *)

\* The characters of s before the first one of Stops.
Before(s, Stops) ==
    LET stops == {i \in DOMAIN s : s[i] \in Stops}
    IN  IF stops = {} THEN s ELSE SubSeq(s, 1, Min(stops) - 1)

From(s, i) == SubSeq(s, i, Len(s))

\* A string in C ends at its first NUL.
CString(s) == Before(s, {0})

\* strtok: the parts between separators that are not empty.
Tokens(s, separator) ==
    LET Word(i) == Before(From(s, i), {separator})
        tokens[i \in 1 .. Len(s) + 1] ==
            IF i > Len(s) THEN <<>>
            ELSE IF s[i] = separator THEN tokens[i + 1]
            ELSE <<Word(i)>> \o tokens[i + Len(Word(i))]
    IN  tokens[1]

-----------------------------------------------------------------------------
(* Encoding and decoding of values.                                        *)

HexDigits == [d \in 0 .. 15 |-> IF d < 10 THEN 48 + d ELSE 87 + d]

\* Value of a hexadecimal digit, -1 for other characters.
HexValue(c) ==
    IF c \in 48 .. 57 THEN c - 48
    ELSE IF c \in 97 .. 102 THEN c - 87
    ELSE IF c \in 65 .. 70 THEN c - 55 ELSE -1

\* At i, a "%" with two digits behind it.
EscapeAt(s, i) == /\ s[i] = Percent /\ i + 2 <= Len(s)
                  /\ HexValue(s[i + 1]) >= 0 /\ HexValue(s[i + 2]) >= 0

Escaped(s, i) == 16 * HexValue(s[i + 1]) + HexValue(s[i + 2])

Unreserved == (48 .. 57) \cup (65 .. 90) \cup (97 .. 122)
              \cup {Hyphen, Underscore, Dot, Tilde}

\* Mutant: "+" is not encoded.
EncodedButPlus(c) ==
    IF c \in Unreserved \cup {Plus} THEN <<c>>
    ELSE IF c = Space THEN <<Plus>>
    ELSE <<Percent, HexDigits[c \div 16], HexDigits[c % 16]>>

Encoded(c) ==
    IF c \in Unreserved THEN <<c>>
    ELSE IF c = Space THEN <<Plus>>
    ELSE <<Percent, HexDigits[c \div 16], HexDigits[c % 16]>>

url_encode(s) == FlattenSeq([i \in DOMAIN s |-> Encoded(s[i])])

\* urldecode ends at the first escape that is cut or wrong, and after max_size
\* characters.
urldecode(s, max_size) ==
    LET decoded[i \in 1 .. Len(s) + 1] ==
            IF i > Len(s) THEN <<>>
            ELSE IF s[i] = Plus THEN <<Space>> \o decoded[i + 1]
            ELSE IF s[i] # Percent THEN <<s[i]>> \o decoded[i + 1]
            ELSE IF EscapeAt(s, i) THEN <<Escaped(s, i)>> \o decoded[i + 3]
            ELSE <<>>
    IN  SubSeq(decoded[1], 1, Min({Len(decoded[1]), max_size}))

-----------------------------------------------------------------------------
(* XML.                                                                    *)

Markup == {Ampersand, Quote, Apostrophe, Less, Greater}

\* The entity of a character, with its name spelt as that character.
Entity(c) ==
    LET letters == CASE c \in {Less, Greater} -> <<c, c>>
                     [] c = Ampersand -> <<c, c, c>>
                     [] c \in {Quote, Apostrophe} -> <<c, c, c, c>>
    IN  <<Ampersand>> \o letters \o <<Semicolon>>

Piece(c) == IF c \in Markup THEN Entity(c) ELSE <<c>>

\* Mutant: the counter is tested after another character was copied.
AppendedOneMore(length, max_chars) == Min({length, max_chars + 1})

\* smartstrcat: how many characters it leaves.  It writes one more, the NUL,
\* which replaces a character when the source is longer.
Appended(length, max_chars) == Min({length, max_chars})

\* xmlencode, one character: a piece counts with its whole length although it
\* may have been cut; "written" is how many bytes of dst were written.
WithPiece(done, c, max_size) ==
    LET kept == Appended(Len(Piece(c)), max_size - done.size)
        end == Len(done.out) + kept
    IN  IF done.size >= max_size THEN done
        ELSE [size |-> done.size + Len(Piece(c)),
              out |-> done.out \o SubSeq(Piece(c), 1, kept),
              written |-> IF c \in Markup THEN end + 1 ELSE end]

\* xmlencode: the text, and how many bytes of dst it has written.
xmlencode(src, max_size) ==
    LET after[n \in 0 .. Len(src)] ==
            IF n = 0 THEN [size |-> 0, out |-> <<>>, written |-> 0]
            ELSE WithPiece(after[n - 1], src[n], max_size)
        all == after[Len(src)]
    IN  [out |-> all.out, written |-> Max({all.written, Len(all.out) + 1})]

\* How handle_app_status shows a key or a value, in 2 * src_size + 1 bytes.
url_decode_xml_encode(src) ==
    xmlencode(CString(urldecode(src, Len(src))), 2 * Len(src))

-----------------------------------------------------------------------------
(* The path of a request.                                                  *)

\* url_decode of mongoose.c for a URI: "+" stays, and so does a "%" without digits.
url_decode(s) ==
    LET decoded[i \in 1 .. Len(s) + 1] ==
            IF i > Len(s) THEN <<>>
            ELSE IF EscapeAt(s, i) THEN <<Escaped(s, i)>> \o decoded[i + 3]
            ELSE <<s[i]>> \o decoded[i + 1]
    IN  decoded[1]

Slashes == {Slash, Backslash}

\* Where the characters of S that start at i end.
Behind(s, i, S) == Min({j \in i .. Len(s) + 1 : j = Len(s) + 1 \/ s[j] \notin S})

AfterSlashes(s, i) == Behind(s, i, Slashes)
AfterDots(s, i) == i + 2 * ((Behind(s, i, {Dot}) - i) \div 2)

\* Mutant: the two loops in the other order.
SkipDotsFirst(s, i) == AfterSlashes(s, AfterDots(s, i))

\* What is skipped behind a slash.
Skip(s, i) == AfterDots(s, AfterSlashes(s, i))

remove_double_dots_and_double_slashes(s) ==
    LET kept[i \in 1 .. Len(s) + 1] ==
            IF i > Len(s) THEN <<>>
            ELSE <<s[i]>> \o kept[IF s[i] \in Slashes THEN Skip(s, i + 1) ELSE i + 1]
    IN  kept[1]

\* handle_request: the path that the handler sees, without the query.
PathOf(uri) ==
    remove_double_dots_and_double_slashes(CString(url_decode(Before(uri, {Question}))))

Unknown == <<117, 110, 107, 110, 111, 119, 110>>

\* What is between the last slash and the one before it; the first character
\* is skipped as a slash whatever it is.
parse_app_name(uri) ==
    LET slashes == {i \in DOMAIN uri : uri[i] = Slash}
        slash == Max(slashes)
        begin == Max({1} \cup (slashes \ {slash}))
    IN  IF slashes \subseteq {1} THEN Unknown ELSE SubSeq(uri, begin + 1, slash - 1)

-----------------------------------------------------------------------------
(* The head of a request.                                                  *)

\* Mutant: only the delimiter itself is skipped.
SkipDelimiter(s, delimiters, whitespace) ==
    LET word == Before(s, delimiters)
    IN  [word |-> word, rest |-> From(s, Len(word) + 2)]

\* skip_quoted without a quote character: the word before a delimiter, and what
\* is left behind the delimiter and the whitespace after it.
skip_quoted(s, delimiters, whitespace) ==
    LET word == Before(s, delimiters)
    IN  [word |-> word,
         rest |-> IF word = s THEN <<>> ELSE From(s, Behind(s, Len(word) + 2, whitespace))]

skip(s, delimiters) == skip_quoted(s, delimiters, delimiters)

parse_http_headers(s) ==
    LET parsed[n \in 0 .. MaxHeaders] ==
            IF n = 0 THEN [headers |-> <<>>, rest |-> s, more |-> TRUE]
            ELSE LET name == skip_quoted(parsed[n - 1].rest, {Colon}, {Space})
                     value == skip(name.rest, {CR, LF})
                 IN  IF ~parsed[n - 1].more \/ name.word = <<>>
                     THEN [parsed[n - 1] EXCEPT !.more = FALSE]
                     ELSE [headers |-> Append(parsed[n - 1].headers,
                                              [name |-> name.word, value |-> value.word]),
                           rest |-> value.rest, more |-> TRUE]
    IN  parsed[MaxHeaders].headers

GET == <<71, 69, 84>>
POST == <<80, 79, 83, 84>>
DELETE == <<68, 69, 76, 69, 84, 69>>
OPTIONS == <<79, 80, 84, 73, 79, 78, 83>>
HTTP == <<72, 84, 84, 80, Slash>>

\* isspace
Whitespace == (9 .. 13) \cup {Space}

\* Without its status when the method or the version is not accepted.
parse_http_request(buf) ==
    LET method == skip(From(buf, Behind(buf, 1, Whitespace)), {Space})
        uri == skip(method.rest, {Space})
        version == skip(uri.rest, {CR, LF})
    IN  IF method.word \in {GET, POST, DELETE, OPTIONS} /\ IsPrefix(HTTP, version.word)
        THEN {[method |-> method.word, uri |-> uri.word, version |-> From(version.word, 6),
               headers |-> parse_http_headers(version.rest)]}
        ELSE {}

lowercase(s) == [k \in DOMAIN s |-> IF s[k] \in 65 .. 90 THEN s[k] + 32 ELSE s[k]]

\* get_header: the values of the first header with the name, whatever its case.
get_header(headers, name) ==
    {headers[k].value : k \in {j \in DOMAIN headers :
        /\ lowercase(headers[j].name) = lowercase(name)
        /\ \A before \in 1 .. j - 1 : lowercase(headers[before].name) # lowercase(name)}}

-----------------------------------------------------------------------------
(* Origins.                                                                *)

\* Mutant: what is behind the last space is not looked at.
AdmitsButLast(str, list) ==
    \E k \in {0} \cup {j \in DOMAIN list : list[j] = Space} :
        Space \in ToSet(From(list, k + 1)) /\ IsSuffix(Before(From(list, k + 1), {Space}), str)

\* ends_with_in_list: the list is cut at every space, and each part compared with
\* the end of the origin; so the part between two spaces is an empty text.
ends_with_in_list(str, list) ==
    \E k \in {0} \cup {j \in DOMAIN list : list[j] = Space} :
        IsSuffix(Before(From(list, k + 1), {Space}), str)

\* What CHECK_PROTOS compares, the names without the colon: http, https, file.
CHECK_PROTOS == {<<104, 116, 116, 112>>, <<104, 116, 116, 112, 115>>, <<102, 105, 108, 101>>}

should_check_for_origin(origin) == \E proto \in CHECK_PROTOS : IsPrefix(proto, origin)

\* is_allowed_origin, for a registered application with the list.
is_allowed_origin(origin, list) ==
    \/ origin = <<>> \/ ~should_check_for_origin(origin)
    \/ list = <<>> \/ ends_with_in_list(origin, list)

-----------------------------------------------------------------------------
(* Parameters.                                                             *)

\* What malloc left in an array that sscanf did not reach.
Unwritten == <<-1>>

\* Mutant: the end of the value is not looked for.
RestFrom(s, i) == From(s, i)

\* The value that starts at i.
ValueFrom(s, i) == Before(From(s, i), {Ampersand})

\* Where strstr finds a name.
Places(s, name) ==
    {i \in DOMAIN s : i + Len(name) - 1 <= Len(s) /\ SubSeq(s, i, i + Len(name) - 1) = name}

\* parse_param for a name that strstr finds: from there it goes to the next "=".
parse_param(query_string, name) ==
    LET found == Min(Places(query_string, name))
        equals == {i \in found .. Len(query_string) : query_string[i] = Equals}
    IN  ValueFrom(query_string, IF equals = {} THEN Len(query_string) + 1 ELSE Min(equals) + 1)

\* sscanf with "%[^=]=%s".
Pair(token) ==
    LET key == Before(token, {Equals})
        words == Tokens(From(token, Len(key) + 2), Space)
    IN  [key |-> IF key = <<>> THEN Unwritten ELSE key,
         value |-> IF key = <<>> \/ words = <<>> THEN Unwritten ELSE words[1]]

\* parse_params: the last pair comes first; the empty list stands for NULL.
parse_params(query_string) ==
    LET start == IF query_string[1] = Question THEN 2 ELSE 1
        tokens == Tokens(From(query_string, start), Ampersand)
    IN  IF Len(query_string) <= 2 THEN <<>>
        ELSE Reverse([k \in DOMAIN tokens |-> Pair(tokens[k])])

-----------------------------------------------------------------------------
Init == use \in Uses /\ text = <<>>

Type(c) == /\ Len(text) < MaxLength[use]
           /\ text' = Append(text, c)
           /\ UNCHANGED use

Next == \E c \in Alphabet[use] : Type(c)

Spec == Init /\ [][Next]_vars

-----------------------------------------------------------------------------
(* Properties.                                                             *)

\* A payload that nf_callbacks.c encodes for a command line, or a client for
\* dial_data, is decoded to the same text, its code has only characters that
\* cannot be taken for separators, and a code that is shown in the XML of a
\* status is not cut: twice its length is enough.
TextSurvives ==
    use = "value" =>
        LET code == url_encode(text)
        IN  /\ ToSet(code) \subseteq Unreserved \cup {Percent, Plus}
            /\ urldecode(code, Len(code)) = text
            /\ url_decode_xml_encode(code).out
                 = FlattenSeq([i \in DOMAIN text |-> Piece(text[i])])

\* handle_app_status gives xmlencode 2 * n + 1 bytes for a text of n characters,
\* encoded or not, and xmlencode stays within them although smartstrcat writes
\* one character more than it is allowed.
BufferFits ==
    use = "value" => url_decode_xml_encode(text).written <= 2 * Len(text) + 1

\* However the dots and slashes of a URI are written, the path that handlers see
\* has no "/..", and in an absolute path parse_app_name finds the segment before
\* the last, as in /apps/YouTube/dial_data.
PathIsClean ==
    use = "uri" =>
        LET path == PathOf(text)
            last == Max({i \in DOMAIN path : path[i] = Slash})
            first == SubSeq(path, 1, last - 1)
        IN  /\ \A i \in 1 .. Len(path) - 2 : SubSeq(path, i, i + 2) # <<Slash, Dot, Dot>>
            /\ (path # <<>> /\ path[1] = Slash /\ last > 1) =>
                 LET name == parse_app_name(path)
                 IN  Slash \notin ToSet(name) /\ IsSuffix(<<Slash>> \o name, first)

WellFormed(pair) ==
    Len(pair) >= 3 /\ Space \notin ToSet(pair) /\ \E i \in 2 .. Len(pair) - 1 :
        pair[i] = Equals /\ \A j \in 1 .. i - 1 : pair[j] # Equals

\* A body of well-formed pairs can be put together again from the list that
\* parse_params makes of it, and parse_param finds the first value of a key
\* unless the name also stands somewhere before it.
BodyParsed ==
    LET start == IF text # <<>> /\ text[1] = Question THEN 2 ELSE 1
        query == From(text, start)
        pairs == Reverse(parse_params(text))
        Shown(p) == <<Ampersand>> \o p.key \o <<Equals>> \o p.value
    IN  (/\ use = "body" /\ query # <<>>
         /\ \A i \in DOMAIN query : query[i] = Ampersand =>
              i \notin {1, Len(query)} /\ query[i + 1] # Ampersand
         /\ \A token \in ToSet(Tokens(query, Ampersand)) : WellFormed(token)) =>
            /\ FlattenSeq([k \in DOMAIN pairs |-> Shown(pairs[k])]) = <<Ampersand>> \o query
            /\ \A k \in DOMAIN pairs :
                 LET before == FlattenSeq([j \in 1 .. k - 1 |-> Shown(pairs[j])])
                     name == pairs[k].key
                 IN  Places(text, name) \cap 1 .. Len(before) + start - 1 = {}
                       => parse_param(text, name) = pairs[k].value

\* A line of a head: what comes before its colon, and what comes behind it
\* without the spaces at its beginning.
HeaderOf(line) ==
    LET name == Before(line, {Colon})
        value == From(line, Len(name) + 2)
    IN  [name |-> name, value |-> From(value, Behind(value, 1, {Space}))]

\* A request whose lines end in LF or in CR LF is taken apart the same way, with
\* or without empty lines before it: the method, the URI, and the first
\* MaxHeaders lines in their order, empty values included.  A header is found by
\* its name in any case, the first one if there are several.  The lines have no
\* CR of their own.
HeadersParsed ==
    use = "headers" /\ CR \notin ToSet(text) =>
        LET lines == Tokens(text, LF)
            given == [k \in DOMAIN lines |-> HeaderOf(lines[k])]
            kept == SubSeq(given, 1, Min({Len(given), MaxHeaders}))
            Request(end) ==
                GET \o <<Space, Slash, Space>> \o HTTP \o <<49>> \o end
                  \o FlattenSeq([k \in DOMAIN lines |-> lines[k] \o end]) \o end
            \* read_request has put a NUL in place of the last byte.
            Buffer(start, end) == start \o Front(Request(end))
        IN  (\A k \in DOMAIN lines : Colon \in ToSet(lines[k]) /\ lines[k][1] # Colon) =>
            \A start \in {<<>>, <<CR, LF>>} : \A end \in {<<LF>>, <<CR, LF>>} :
                \E request \in parse_http_request(Buffer(start, end)) :
                    /\ request = [method |-> GET, uri |-> <<Slash>>, version |-> <<49>>,
                                  headers |-> kept]
                    /\ \A k \in DOMAIN kept :
                         (\A j \in 1 .. k - 1 : lowercase(kept[j].name) # lowercase(kept[k].name))
                           => get_header(request.headers, lowercase(kept[k].name))
                                = {kept[k].value}

\* An origin whose scheme is checked is admitted when it ends with one of the words
\* of the list, and only then; but an empty list, and one with a space too many, at
\* an end or beside another, admits every origin.
OriginsMatched ==
    use = "origins" =>
        \A origin \in Origins :
            is_allowed_origin(origin, text)
              <=> \/ ~should_check_for_origin(origin)
                  \/ \E word \in ToSet(Tokens(text, Space)) : IsSuffix(word, origin)
                  \/ text = <<>> \/ Space \in {text[1], text[Len(text)]}
                  \/ \E k \in 2 .. Len(text) : text[k - 1] = Space /\ text[k] = Space

=============================================================================
