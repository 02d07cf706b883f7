------------------------------ MODULE HttpText ------------------------------
(***************************************************************************)
(* What civetweb does with the text of a request: it cuts the head into    *)
(* words and headers, decodes the URI, removes double dots and slashes,    *)
(* matches paths with patterns, and computes times from dates.  Operators  *)
(* only; FileService uses them.                                            *)
(*                                                                         *)
(* A text is a sequence of symbols.  A symbol is a character, or a word in *)
(* which no character matters to the code ("GET", "HTTP/1.1", ".cgi", the  *)
(* value of a header).  Letters are in lower case, as the comparisons of   *)
(* the code ignore it.                                                     *)
(***************************************************************************)
EXTENDS Integers, Sequences, SequencesExt, TLC

\* What follows the first n symbols.
Rest(s, n) == SubSeq(s, n + 1, Len(s))

\* strspn: how many symbols at the beginning of s are in D.
Span(s, D) == IF \A i \in DOMAIN s : s[i] \in D THEN Len(s)
              ELSE (CHOOSE i \in DOMAIN s : s[i] \notin D /\ \A j \in 1..(i-1) : s[j] \in D) - 1

\* strcspn: how many of them are not in D.
Until(s, D) == Span(s, {s[i] : i \in DOMAIN s} \ D)

-----------------------------------------------------------------------------
(* The head of a request.                                                  *)

\* skip_quoted, without a quoting character: the word before the first
\* delimiter, and what is left behind the delimiter and the blanks after it.
SkipQuoted(s, delimiters, whitespace) ==
    LET e == Until(s, delimiters)
        behind == Rest(s, e + 1)
    IN [word |-> SubSeq(s, 1, e), rest |-> Rest(behind, Span(behind, whitespace))]

Skip(s, delimiters) == SkipQuoted(s, delimiters, delimiters)

\* One header is cut off what is left of the head; without a name there is
\* nothing more.
TakeHeader(acc) ==
    LET name  == SkipQuoted(acc.rest, {":"}, {" "})
        value == Skip(name.rest, {"\r", "\n"})
    IN IF name.word = <<>> THEN acc
       ELSE [rest    |-> value.rest,
             headers |-> Append(acc.headers, [name |-> name.word, value |-> value.word])]

\* Mutant: there is room for one header less.
ParseFewerHeaders(s, max) ==
    LET take[i \in 0..(max - 1)] ==
          IF i = 0 THEN [rest |-> s, headers |-> <<>>] ELSE TakeHeader(take[i - 1])
    IN take[max - 1].headers

\* parse_http_headers: at most max headers, up to an empty name.
ParseHeaders(s, max) ==
    LET take[i \in 0..max] ==
          IF i = 0 THEN [rest |-> s, headers |-> <<>>] ELSE TakeHeader(take[i - 1])
    IN take[max].headers

Methods == {"GET", "POST", "HEAD", "CONNECT", "PUT", "DELETE", "OPTIONS", "PROPFIND", "MKCOL"}

Versions == {"HTTP/1.0", "HTTP/1.1"}

\* parse_http_message, for a complete head: leading blanks are ignored, the
\* last line end is cut off, and a request has a method that is known and a
\* version.
ParseMessage(s, max) ==
    LET begin   == Rest(SubSeq(s, 1, Len(s) - 1), Span(s, {" ", "\r", "\n"}))
        method  == Skip(begin, {" "})
        uri     == Skip(method.rest, {" "})
        version == Skip(uri.rest, {"\r", "\n"})
    IN [ok      |-> Len(method.word) = 1 /\ method.word[1] \in Methods
                    /\ version.word # <<>> /\ version.word[1] \in Versions,
        method  |-> method.word,
        uri     |-> uri.word,
        headers |-> ParseHeaders(version.rest, max)]

\* mg_get_header: the value of the first header of that name, or none.
None == <<>>

Header(headers, name) ==
    LET places == {i \in DOMAIN headers : headers[i].name = <<name>>}
    IN IF places = {} THEN None
       ELSE headers[CHOOSE i \in places : \A j \in places : i <= j].value

-----------------------------------------------------------------------------
(* The URI.                                                                *)

\* The characters of the models, with their codes, and the hexadecimal
\* digits.  Any other code stands for a character that no path holds.
Ascii == [k \in {37, 46, 47, 92, 97, 100} |->
            CASE k = 37 -> "%" [] k = 46 -> "." [] k = 47 -> "/" [] k = 92 -> "\\"
              [] k = 97 -> "a" [] k = 100 -> "d"]

Hex == [c \in {"0", "1", "2", "3", "4", "5", "6", "7", "8", "9", "a", "b", "c", "d", "e", "f"} |->
          CASE c = "0" -> 0 [] c = "1" -> 1 [] c = "2" -> 2 [] c = "3" -> 3 [] c = "4" -> 4
            [] c = "5" -> 5 [] c = "6" -> 6 [] c = "7" -> 7 [] c = "8" -> 8 [] c = "9" -> 9
            [] c = "a" -> 10 [] c = "b" -> 11 [] c = "c" -> 12 [] c = "d" -> 13
            [] c = "e" -> 14 [] c = "f" -> 15]

Decoded(a, b) == LET code == 16 * Hex[a] + Hex[b]
                 IN IF code \in DOMAIN Ascii THEN Ascii[code] ELSE "other"

\* mg_url_decode into a buffer that is large enough, as handle_request calls
\* it: a percent sign with two digits behind it is one character.
UrlDecode(s) ==
    LET IsCode(i) == i < Len(s) - 1 /\ s[i] = "%" /\ s[i + 1] \in DOMAIN Hex /\ s[i + 2] \in DOMAIN Hex
        from[i \in 1..(Len(s) + 1)] ==
            IF i > Len(s) THEN <<>>
            ELSE IF IsCode(i) THEN <<Decoded(s[i + 1], s[i + 2])>> \o from[i + 3]
            ELSE <<s[i]>> \o from[i + 1]
    IN from[1]

Slashes == {"/", "\\"}

\* remove_double_dots_and_double_slashes: one pass over the path.
RemoveDoubleDots(s) ==
    LET after[i \in 1..(Len(s) + 1)] ==          \* the place behind what is skipped
            IF i > Len(s) THEN i
            ELSE IF s[i] \in Slashes THEN after[i + 1]
            ELSE IF i < Len(s) /\ s[i] = "." /\ s[i + 1] = "." THEN after[i + 2]
            ELSE i
        from[i \in 1..(Len(s) + 1)] ==
            IF i > Len(s) THEN <<>>
            ELSE <<s[i]>> \o from[IF s[i] \in Slashes THEN after[i + 1] ELSE i + 1]
    IN from[1]

\* The same by rewriting: as long as there are two slashes, or a slash and
\* two dots, what is behind the first such slash goes.
Doubled(s) == {i \in DOMAIN s : i < Len(s) /\ s[i] \in Slashes /\ s[i + 1] \in Slashes}

Dotted(s) == {i \in DOMAIN s : i < Len(s) - 1 /\ s[i] \in Slashes /\ s[i + 1] = "." /\ s[i + 2] = "."}

Width(s, i) == IF i \in Doubled(s) THEN 1 ELSE 2

Without(s, i, w) == SubSeq(s, 1, i) \o Rest(s, i + w)

First(s) == CHOOSE i \in Doubled(s) \cup Dotted(s) : \A j \in Doubled(s) \cup Dotted(s) : i <= j

Shortened(s) == IF Doubled(s) \cup Dotted(s) = {} THEN s ELSE Without(s, First(s), Width(s, First(s)))

Rewritten(uri) ==
    LET rest[n \in 0..Len(uri)] == IF n = 0 THEN uri ELSE Shortened(rest[n - 1])
    IN rest[Len(uri)]

-----------------------------------------------------------------------------
(* Patterns.                                                               *)

\* The alternatives of a pattern, which "|" separates.
Alternatives(pattern) ==
    LET bars == {0, Len(pattern) + 1} \cup {i \in DOMAIN pattern : pattern[i] = "|"}
    IN {SubSeq(pattern, b + 1, (CHOOSE e \in bars : e > b /\ \A c \in bars : c > b => e <= c) - 1)
          : b \in bars \ {Len(pattern) + 1}}

\* match_prefix for one alternative: how many symbols of s it matches, or -1.
\* "?" is any symbol, "*" any number of them but slashes, "**" any number,
\* "$" the end of s; the longest run of a star is tried first.
MatchOne(p, s) ==
    LET Longest(i, j) == IF i < Len(p) /\ p[i + 1] = "*" THEN Len(s) - j ELSE Until(Rest(s, j), {"/"})
        Behind(i) == IF i < Len(p) /\ p[i + 1] = "*" THEN i + 2 ELSE i + 1
        match[i \in 1..(Len(p) + 1), j \in 0..Len(s)] ==
            IF i > Len(p) THEN j
            ELSE IF p[i] = "?" /\ j < Len(s) THEN match[i + 1, j + 1]
            ELSE IF p[i] = "$" THEN IF j = Len(s) THEN j ELSE -1
            ELSE IF p[i] = "*"
            THEN IF Behind(i) > Len(p) THEN j + Longest(i, j)
                 ELSE LET good == {n \in 0..Longest(i, j) : match[Behind(i), j + n] # -1}
                      IN IF good = {} THEN -1
                         ELSE match[Behind(i), j + (CHOOSE n \in good : \A k \in good : k <= n)]
            ELSE IF j < Len(s) /\ p[i] = s[j + 1] THEN match[i + 1, j + 1]
            ELSE -1
    IN match[1, 0]

\* match_prefix(...) > 0, as all its callers use it.
MatchPrefix(pattern, s) == \E p \in Alternatives(pattern) : MatchOne(p, s) > 0

\* mg_url_encode: what a listing makes of a name, so that the browser asks
\* for it again.
Plain == DOMAIN Hex \cup {".", "_", "-"}

UrlEncode(s) ==
    LET Digit(n) == CHOOSE c \in DOMAIN Hex : Hex[c] = n
        Code(c)  == CHOOSE k \in DOMAIN Ascii : Ascii[k] = c
        Escaped(c) == IF c \in Plain \/ c \notin {Ascii[k] : k \in DOMAIN Ascii} THEN <<c>>
                      ELSE <<"%", Digit(Code(c) \div 16), Digit(Code(c) % 16)>>
        from[i \in 1..(Len(s) + 1)] == IF i > Len(s) THEN <<>> ELSE Escaped(s[i]) \o from[i + 1]
    IN from[1]

-----------------------------------------------------------------------------
(* Dates, in days since 1 January 1970.                                    *)

num_leap_years(year) == year \div 4 - year \div 100 + year \div 400

days_before_month == <<0, 31, 59, 90, 120, 151, 181, 212, 243, 273, 304, 334>>

\* parse_date_string, for a date that its format matches.
ParseDate(c) ==
    IF c.year > 1970
    THEN 365 * (c.year - 1970) + days_before_month[c.month] + (c.day - 1)
         + (num_leap_years(c.year) - num_leap_years(1970))
    ELSE 0

\* gmtime: the date of a day, by the rules of the calendar.
LeapYear(y) == y % 4 = 0 /\ (y % 100 # 0 \/ y % 400 = 0)

MonthDays(y, m) == IF m = 2 THEN IF LeapYear(y) THEN 29 ELSE 28
                   ELSE IF m \in {4, 6, 9, 11} THEN 30 ELSE 31

DaysBeforeYear(y) == 365 * (y - 1970) + Cardinality({k \in 1970..(y - 1) : LeapYear(k)})

DaysBeforeMonth(y) ==
    LET days[m \in 1..12] == IF m = 1 THEN 0 ELSE days[m - 1] + MonthDays(y, m - 1)
    IN days

CivilDate(t) ==
    CHOOSE c \in [year : (1970 + t \div 366)..(1970 + t \div 365), month : 1..12, day : 1..31] :
        /\ c.day <= MonthDays(c.year, c.month)
        /\ t = DaysBeforeYear(c.year) + DaysBeforeMonth(c.year)[c.month] + c.day - 1

\* The days on which parse_date_string is a day ahead: those before the leap
\* day of a year that has one.
BeforeLeapDay(t) == LET c == CivilDate(t) IN LeapYear(c.year) /\ c.month <= 2
=============================================================================
