--------------------------- MODULE MCFileService ---------------------------
(* A document root with a page, the same page packed, and a directory with *)
(* an index file.                                                          *)
EXTENDS FileService

A(path, size) == [path |-> path, size |-> size, dir |-> FALSE]
D(path)       == [path |-> path, size |-> 0, dir |-> TRUE]

MCAssets == <<A(<<"/", "%">>, 2), A(<<"/", "%", ".gz">>, 1), D(<<"/", "d">>),
              A(<<"/", "d", "/", "0">>, 0)>>

R(method, uri) == [method |-> method, uri |-> uri, range |-> <<>>, gzip |-> FALSE, depth |-> FALSE]

Get(uri) == R("GET", uri)

\* The page, as a browser has to write its name.
Page == <<"/", "%", "2", "5">>

Part(range) == [Get(Page) EXCEPT !.range = range]

Uris == {Page, <<"/">>, <<"/", "d">>, <<"/", "%", "2", "f">>}

MCRequests == {Get(u) : u \in Uris}
    \cup {Part(<<0, 0>>), Part(<<1>>), Part(<<0, 4>>)}
    \cup {[Get(Page) EXCEPT !.gzip = TRUE], [Part(<<0, 0>>) EXCEPT !.gzip = TRUE]}
    \cup {R("HEAD", Page), R("OPTIONS", <<"/", ".", ".", "/", "d", "/", "/">>), R("PUT", Page)}
    \cup {R("PROPFIND", <<"/", "d", "/">>), [R("PROPFIND", <<"/", "d", "/">>) EXCEPT !.depth = TRUE]}

MCIndexFiles == <<<<"i">>, <<"0">>>>

\* The names of the instance are such as ListingIsWholeTheorem is about.
ASSUME NameAssumption == PlainNames

\* One pass over the path does what rewriting does, for all short texts.
ASSUME PathAssumption ==
    \A n \in 0..5 : \A s \in [1..n -> {"/", "\\", ".", "a"}] : RemoveDoubleDots(s) = Rewritten(s)

\* A path is hidden if and only if it ends in .htpasswd.
ASSUME HideAssumption ==
    \A n \in 0..4 : \A s \in [1..n -> {"/", ".htpasswd", "a"}] :
        MustHide(s) = (n > 0 /\ s[n] = ".htpasswd")

\* parse_date_string is the inverse of gmtime, but for a day before the leap
\* day: 1 January 2014 to 31 December 2016.
ASSUME DateAssumption ==
    \A t \in 16071..17166 : ParseDate(CivilDate(t)) = IF BeforeLeapDay(t) THEN t + 1 ELSE t

\* 1 March 2016.
MCStarts == {16861}
=============================================================================
