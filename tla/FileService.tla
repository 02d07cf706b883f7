---------------------------- MODULE FileService ----------------------------
(***************************************************************************)
(* The pages of the DAMN server, from the assets of the app to the cache   *)
(* of a browser.  Extract.java copies the assets to the document root when *)
(* the user interface starts, while the server, a process of its own, may  *)
(* serve that very directory.  civetweb's handle_request finds the file of *)
(* a URI, answers 304, 301, 401 or 404, lists a directory, or sends the    *)
(* file or a range of it piece by piece.                                   *)
(*                                                                         *)
(* One worker and one browser: workers share nothing but the files, which  *)
(* they only read.  The server is the one that start_server configures: no *)
(* keep-alive, password files, scripts, rewrite rules, error pages or      *)
(* throttle, and listings of directories.  Requests that the handlers of   *)
(* damn_server.c answer, redirects to https and websockets are in          *)
(* HttpConnection.  Paths are below the document root.                     *)
(*                                                                         *)
(* A tick of the clock is a second for stat and a day for the calendar:    *)
(* the code compares times, and errs by a whole day.  Sizes are counted in *)
(* units of which a write of Extract.java carries one.                     *)
(***************************************************************************)
EXTENDS HttpText, FiniteSets

CONSTANTS
    Assets,      \* the assets in the order of the copy: [path, size, dir]
    Requests,    \* what a browser may ask: [method, uri, range, gzip, depth]
    IndexFiles,  \* index_files
    MaxHeaders,  \* MAX_REQUEST headers
    BufLen,      \* MG_BUF_LEN
    ArrSize,     \* arr_size of a listing before its first allocation
    Starts,      \* the times at which a behaviour may begin
    MaxTicks,    \* bound: ticks of the clock
    MaxHops      \* bound: redirects that the browser follows

\* The header fields of a request: Host, two for a copy, three that it may
\* have.
Count(r) == 3 + (IF r.range # <<>> THEN 1 ELSE 0) + (IF r.gzip THEN 1 ELSE 0) + (IF r.depth THEN 1 ELSE 0)

\* Assets are listed from the outside to the inside, each once.
ASSUME FileAssumption ==
    /\ Assets \in Seq([path : Seq(STRING), size : Nat, dir : BOOLEAN])
    /\ \A i \in DOMAIN Assets :
         /\ Assets[i].path # <<"/">> /\ Last(Assets[i].path) # ".htpasswd"
         /\ \A j \in DOMAIN Assets : Assets[j].path = Assets[i].path => j = i
         /\ \A n \in 2..Len(Assets[i].path) :
              Assets[i].path[n] = "/" =>
                \E j \in 1..(i - 1) : Assets[j].dir /\ Assets[j].path = SubSeq(Assets[i].path, 1, n - 1)
    /\ \A r \in Requests :
         /\ r.method \in Methods /\ r.gzip \in BOOLEAN /\ r.depth \in BOOLEAN
         /\ r.uri \in Seq(STRING) /\ r.uri # <<>>
         /\ \A i \in DOMAIN r.uri : r.uri[i] \notin {" ", "\r", "\n", "?"}
         /\ r.range \in Seq(Nat) /\ Len(r.range) <= 2
         /\ Count(r) <= MaxHeaders
    /\ IndexFiles \in Seq(Seq(STRING))
    /\ \A i \in DOMAIN IndexFiles : IndexFiles[i] # <<>> /\ Last(IndexFiles[i]) # "/"
    /\ Starts \subseteq Nat \ {0}
    /\ {MaxHeaders, BufLen, ArrSize} \subseteq Nat \ {0}
    /\ {MaxTicks, MaxHops} \subseteq Nat

\* Names that lead back to their files: no two slashes and no slash and two
\* dots are in a path, and neither a backslash nor a percent sign in the path
\* of a directory.
PlainNames ==
    \A i \in DOMAIN Assets :
      LET p == Assets[i].path
      IN /\ Last(p) # "/" /\ Doubled(p) \cup Dotted(p) = {}
         /\ Assets[i].dir => \A k \in DOMAIN p : p[k] \notin {"\\", "%"}

VARIABLES
    tree,     \* the files: path -> [dir, size, mtime]
    clock,
    todo,     \* assets that this copy has still to look at
    writing,  \* the first of them is open for writing
    browser,  \* "idle", "waiting" or "gone"
    asked,    \* its request
    hops,     \* how many redirects led to it
    cached,   \* the last file that it got whole
    pc,       \* where the worker is
    conn,     \* what the worker knows of the request
    answer    \* what has been sent of the answer

disk    == <<tree, todo, writing>>
user    == <<browser, asked, hops, cached>>
server  == <<pc, conn, answer>>
vars    == <<disk, clock, user, server>>

-----------------------------------------------------------------------------
Root == <<"/">>

Least(a, b) == IF a < b THEN a ELSE b

\* stat: a trailing slash is allowed behind a directory only.
Missing == [dir |-> FALSE, size |-> 0, mtime |-> 0]

Stripped(p) == LET ends == {n \in 1..Len(p) : \A i \in (n + 1)..Len(p) : p[i] = "/"}
               IN SubSeq(p, 1, CHOOSE n \in ends : \A m \in ends : n <= m)

\* mg_stat; a file whose time is 0 does not exist.
Stat(p) == LET q == Stripped(p)
           IN IF q \in DOMAIN tree /\ (q = p \/ tree[q].dir) THEN tree[q] ELSE Missing

Exists(f) == f.mtime # 0

NoRequest == [method |-> "", uri |-> <<>>, range |-> <<>>, gzip |-> FALSE, depth |-> FALSE,
              copy |-> <<>>, at |-> 0]

NoConn == [method |-> <<>>, headers |-> <<>>, buffer |-> <<>>, uri |-> <<>>, path |-> <<>>,
           file |-> Missing, gzipped |-> FALSE, index |-> 0, fp |-> FALSE,
           offset |-> 0, left |-> 0,
           dir |-> FALSE, there |-> {}, unread |-> {}, entries |-> <<>>, arr |-> 0, failed |-> FALSE]

NoAnswer == [status |-> 0, announced |-> 0, body |-> 0, location |-> <<>>, shown |-> <<>>,
             name |-> <<>>, file |-> Missing]

Init ==
    /\ clock \in Starts
    /\ tree = [p \in {Root} |-> [dir |-> TRUE, size |-> 0, mtime |-> clock]]
    /\ todo = <<>> /\ writing = FALSE
    /\ browser = "idle" /\ asked = NoRequest /\ hops = 0 /\ cached = <<>>
    /\ pc = "idle" /\ conn = NoConn /\ answer = NoAnswer

Tick ==
    /\ \E s \in Starts : clock \in s..(s + MaxTicks - 1)
    /\ clock' = clock + 1
    /\ UNCHANGED <<disk, user, server>>

-----------------------------------------------------------------------------
(* Extract.copyAssetFolder, which AppListActivity.onCreate calls.          *)

Asset == todo[1]

WithFile(path, file) == [p \in DOMAIN tree \cup {path} |-> IF p = path THEN file ELSE tree[p]]

StartCopy ==
    /\ todo = <<>>
    /\ todo' = Assets
    /\ UNCHANGED <<tree, writing, clock, user, server>>

\* Mutant: the copy begins again at the beginning of a file that exists.
ExtractAnew ==
    /\ todo # <<>> /\ ~writing
    /\ tree' = WithFile(Asset.path, [dir |-> Asset.dir, size |-> 0, mtime |-> clock])
    /\ writing' = ~Asset.dir
    /\ todo' = IF Asset.dir THEN Tail(todo) ELSE todo
    /\ UNCHANGED <<clock, user, server>>

\* extractFiles: what exists is left as it is, a directory is made, and a
\* file is created empty, to be filled.
Extract ==
    /\ todo # <<>> /\ ~writing
    /\ IF Asset.path \in DOMAIN tree
       THEN /\ todo' = Tail(todo)
            /\ UNCHANGED <<tree, writing>>
       ELSE /\ tree' = WithFile(Asset.path, [dir |-> Asset.dir, size |-> 0, mtime |-> clock])
            /\ writing' = ~Asset.dir
            /\ todo' = IF Asset.dir THEN Tail(todo) ELSE todo
    /\ UNCHANGED <<clock, user, server>>

\* copyFile: one buffer after the other, until the asset ends.
CopyFile ==
    /\ writing
    /\ IF tree[Asset.path].size < Asset.size
       THEN /\ tree' = [tree EXCEPT ![Asset.path].size = @ + 1, ![Asset.path].mtime = clock]
            /\ UNCHANGED <<todo, writing>>
       ELSE /\ todo' = Tail(todo) /\ writing' = FALSE
            /\ UNCHANGED tree
    /\ UNCHANGED <<clock, user, server>>

\* The file cannot be written: the next asset is taken up.  (One that cannot
\* be made is passed over likewise; the model leaves that out.)
WriteFails ==
    /\ writing
    /\ todo' = Tail(todo) /\ writing' = FALSE
    /\ UNCHANGED <<tree, clock, user, server>>

\* The process of the user interface ends.
Kill ==
    /\ todo # <<>>
    /\ todo' = <<>> /\ writing' = FALSE
    /\ UNCHANGED <<tree, clock, user, server>>

-----------------------------------------------------------------------------
(* The browser.  In its message the words "range", "etag" and "date" stand *)
(* for the numbers that the fields of the request carry.                   *)

Line == <<"\r", "\n">>

Field(c, name, value) == IF c THEN <<name, ":", " ", value>> \o Line ELSE <<>>

HeaderLines(r) ==
    Field(TRUE, "Host", "device")
    \o Field(r.copy # <<>>, "If-None-Match", "etag")
    \o Field(r.copy # <<>>, "If-Modified-Since", "date")
    \o Field(r.range # <<>>, "Range", "range")
    \o Field(r.gzip, "Accept-Encoding", "gzip")
    \o Field(r.depth, "Depth", "0")

Message(r) == <<r.method, " ">> \o r.uri \o <<" ", "HTTP/1.1">> \o Line \o HeaderLines(r) \o Line

\* The copy of the page that r asks for, if the browser has it.
KeptFor(r) == IF cached # <<>> /\ cached[1].uri = r.uri /\ cached[1].gzip = r.gzip THEN cached ELSE <<>>

\* The user asks for a page.  A copy of it makes the request conditional; one
\* of another page is of no use then, and is forgotten.
Ask ==
    /\ browser = "idle"
    /\ \E r \in Requests :
         /\ asked' = [method |-> r.method, uri |-> r.uri, range |-> r.range, gzip |-> r.gzip,
                      depth |-> r.depth, at |-> clock, copy |-> KeptFor(r)]
         /\ cached' = KeptFor(r)
    /\ browser' = "waiting" /\ hops' = 0
    /\ pc' = "request"
    /\ UNCHANGED <<disk, clock, conn, answer>>

\* The answer has ended.  A redirect is followed; a file that came whole is
\* kept, with its dates.
GetAnswer ==
    /\ browser = "waiting" /\ pc = "done"
    /\ IF answer.status = 301 /\ hops < MaxHops
       THEN /\ asked' = [asked EXCEPT !.uri = answer.location, !.copy = <<>>, !.at = clock]
            /\ hops' = hops + 1 /\ pc' = "request"
            /\ UNCHANGED <<browser, cached>>
       ELSE /\ browser' = "idle" /\ asked' = NoRequest /\ hops' = 0 /\ pc' = "idle"
            /\ cached' = IF answer.status = 200 /\ answer.name # <<>> /\ asked.method = "GET"
                            /\ answer.body = answer.announced
                         THEN <<[uri |-> asked.uri, gzip |-> asked.gzip, name |-> answer.name,
                                 at |-> asked.at, size |-> answer.body,
                                 mtime |-> answer.file.mtime]>>
                         ELSE cached
    /\ conn' = NoConn /\ answer' = NoAnswer
    /\ UNCHANGED <<disk, clock>>

\* The browser closes the connection.  The worker finds out when it writes:
\* that it had gone before makes no difference.
Leave ==
    /\ browser = "waiting" /\ pc = "send"
    /\ browser' = "gone"
    /\ UNCHANGED <<disk, clock, asked, hops, cached, server>>

\* close_connection, and the browser may come again.
CloseConnection ==
    /\ browser = "gone" /\ pc = "done"
    /\ browser' = "idle" /\ asked' = NoRequest /\ hops' = 0
    /\ pc' = "idle" /\ conn' = NoConn /\ answer' = NoAnswer
    /\ UNCHANGED <<disk, clock, cached>>

-----------------------------------------------------------------------------
(* The worker: from the message to the file.                               *)

Go(place, c) == pc' = place /\ conn' = c /\ UNCHANGED <<disk, clock, user, answer>>

\* The bytes of a buffer after a string t and its end were written into it.
Overwrite(b, t) == [i \in DOMAIN b |-> IF i <= Len(t) THEN t[i]
                                       ELSE IF i = Len(t) + 1 THEN "nul" ELSE b[i]]

\* handle_request, its beginning: the query is cut off, the URI is decoded
\* and cleaned in its place.  uri_len is the length that it had before, so
\* uri[uri_len - 1] is the last symbol of the buffer.  Then
\* convert_uri_to_file_name looks for the file, and for a browser that takes
\* it, for the file packed.  None of the paths holds a script.
ReadRequest ==
    /\ pc = "request"
    /\ \E m \in {ParseMessage(Message(asked), MaxHeaders)} :
       \E raw \in {SubSeq(m.uri, 1, Until(m.uri, {"?"}))} :
       \E decoded \in {UrlDecode(raw)} :
       \E clean \in {RemoveDoubleDots(decoded)} :
         LET f == Stat(clean)
         IN Go(IF ~Exists(f) /\ Header(m.headers, "Accept-Encoding") = <<"gzip">>
               THEN "stat gz" ELSE "decide",
               [NoConn EXCEPT !.method = m.method, !.headers = m.headers, !.uri = clean,
                              !.path = clean, !.file = f,
                              !.buffer = Overwrite(Overwrite(raw, decoded), clean)])

\* The file is not there: it may be there packed.
ConvertGz ==
    /\ pc = "stat gz"
    /\ LET f == Stat(Append(conn.path, ".gz"))
       IN Go("decide", [conn EXCEPT !.file = f, !.gzipped = Exists(f)])

MustHide(name) == MatchPrefix(<<"*", "*", ".htpasswd", "$">>, name)

IsPutOrDelete == conn.method[1] \in {"PUT", "DELETE", "MKCOL"}

\* Nothing but a head is sent.
Reply(status, location) ==
    /\ answer' = [NoAnswer EXCEPT !.status = status, !.location = location]
    /\ pc' = "done"
    /\ UNCHANGED <<disk, clock, user, conn>>

InDir(d, name) == IF d = Root THEN d \o name ELSE d \o <<"/">> \o name

\* open_auth_file: the passwords of a directory, or of the one around a file.
OpenAuthFile(p) ==
    IF Stat(p).dir THEN InDir(Stripped(p), <<".htpasswd">>)
    ELSE LET slashes == {i \in DOMAIN p : p[i] = "/"}
         IN SubSeq(p, 1, CHOOSE i \in slashes : \A j \in slashes : j <= i) \o <<".htpasswd">>

\* check_authorization: no passwords, no questions.  The assets hold none, so
\* authorize is never called.
CheckAuthorization == ~Exists(Stat(OpenAuthFile(conn.path)))

\* handle_request: requests that no file answers.
SendOptions ==
    pc = "decide" /\ conn.method = <<"OPTIONS">> /\ CheckAuthorization /\ Reply(200, <<>>)

\* No passwords file: is_authorized_for_put refuses.
SendAuthorizationRequest ==
    pc = "decide" /\ IsPutOrDelete /\ Reply(401, <<>>)

Served == pc = "decide" /\ conn.method # <<"OPTIONS">> /\ ~IsPutOrDelete /\ CheckAuthorization

Found == Exists(conn.file) /\ ~MustHide(conn.path)

NotFound == Served /\ ~Found /\ Reply(404, <<>>)

\* Mutant: the slash is looked for in the path that is left.
SendToDirectory ==
    /\ Served /\ Found /\ conn.file.dir /\ Last(conn.buffer) # "/"
    /\ Reply(301, conn.uri)

\* A directory without a slash behind it is sent to the same with one.
Redirect ==
    /\ Served /\ Found /\ conn.file.dir /\ Last(conn.buffer) # "/"
    /\ Reply(301, Append(conn.uri, "/"))

HasSlash == conn.file.dir => Last(conn.buffer) = "/"

\* substitute_index_file begins: the path is that of the directory.
OpenDirectory ==
    /\ Served /\ Found /\ HasSlash
    /\ conn.method # <<"PROPFIND">> /\ conn.file.dir
    /\ Go("index", [conn EXCEPT !.path = Stripped(@), !.index = 1])

OpenFile ==
    /\ Served /\ Found /\ HasSlash
    /\ conn.method # <<"PROPFIND">> /\ ~conn.file.dir
    /\ Go("file", conn)

\* One of the index files is looked for; without any the directory is
\* listed.
SubstituteIndexFile ==
    /\ pc = "index"
    /\ IF conn.index > Len(IndexFiles) THEN Go("opendir", conn)
       ELSE LET p == InDir(conn.path, IndexFiles[conn.index])
                f == Stat(p)
            IN IF Exists(f) THEN Go("file", [conn EXCEPT !.path = p, !.file = f, !.gzipped = FALSE])
               ELSE Go("index", [conn EXCEPT !.index = @ + 1])

-----------------------------------------------------------------------------
(* The worker: a file.                                                     *)

\* Mutant: a file that is younger than the copy is not modified.
IsNotModifiedNewer ==
    /\ Header(conn.headers, "If-Modified-Since") # None
    /\ conn.file.mtime >= ParseDate(CivilDate(asked.copy[1].mtime))

\* is_not_modified: the entity tag is the time and the size.  Either header
\* is enough.
IsNotModified ==
    \/ /\ Header(conn.headers, "If-None-Match") # None
       /\ asked.copy[1].mtime = conn.file.mtime /\ asked.copy[1].size = conn.file.size
    \/ /\ Header(conn.headers, "If-Modified-Since") # None
       /\ conn.file.mtime <= ParseDate(CivilDate(asked.copy[1].mtime))

NotModified == pc = "file" /\ IsNotModified /\ Reply(304, <<>>)

\* handle_static_file_request: the head is sent, with the size that stat has
\* told.  A range is the numbers of parse_range_header.
Announced(range) ==
    IF range = <<>> THEN conn.file.size
    ELSE IF Len(range) = 2 THEN Least(range[2], conn.file.size) - range[1] + 1
    ELSE conn.file.size - range[1]

SendHead ==
    /\ pc = "file" /\ ~IsNotModified
    /\ LET range  == IF Header(conn.headers, "Range") = None THEN <<>> ELSE asked.range
           length == Announced(range)
       IN IF conn.gzipped /\ range # <<>>
          THEN Reply(501, <<>>)
          ELSE /\ answer' = [NoAnswer EXCEPT !.status = IF range = <<>> THEN 200 ELSE 206,
                                             !.announced = length, !.name = conn.path,
                                             !.file = conn.file]
               /\ conn' = [conn EXCEPT !.fp = TRUE, !.left = length,
                               !.offset = IF range = <<>> THEN 0 ELSE Least(range[1], conn.file.size)]
               /\ pc' = IF conn.method = <<"HEAD">> THEN "close" ELSE "send"
               /\ UNCHANGED <<disk, clock, user>>

FopenFails == pc = "file" /\ ~IsNotModified /\ Reply(500, <<>>)

\* Mutant: the end of the file does not end the loop.
SendFileDataForEver ==
    /\ pc = "send"
    /\ LET name  == IF conn.gzipped THEN Append(conn.path, ".gz") ELSE conn.path
           there == Stat(name).size - conn.offset
           n     == Least(Least(BufLen, conn.left), there)
       IN /\ conn' = [conn EXCEPT !.left = @ - n, !.offset = @ + n]
          /\ answer' = [answer EXCEPT !.body = @ + n]
          /\ pc' = IF conn.left <= 0 THEN "close" ELSE "send"
          /\ UNCHANGED <<disk, clock, user>>

\* send_file_data: pieces of at most MG_BUF_LEN, until all is sent, the file
\* ends or the browser has gone.
SendFileData ==
    /\ pc = "send"
    /\ LET name  == IF conn.gzipped THEN Append(conn.path, ".gz") ELSE conn.path
           there == Stat(name).size - conn.offset
           n     == Least(Least(BufLen, conn.left), there)
       IN IF n <= 0 \/ browser = "gone"
          THEN pc' = "close" /\ UNCHANGED <<disk, clock, user, conn, answer>>
          ELSE /\ conn' = [conn EXCEPT !.left = @ - n, !.offset = @ + n]
               /\ answer' = [answer EXCEPT !.body = @ + n]
               /\ UNCHANGED <<disk, clock, user, pc>>

CloseFile == pc = "close" /\ Go("done", [conn EXCEPT !.fp = FALSE])

-----------------------------------------------------------------------------
(* The worker: a directory.                                                *)

\* The names in the directory d.
Names(d) == {SubSeq(p, Len(InDir(d, <<>>)) + 1, Len(p)) :
               p \in {q \in DOMAIN tree \ {Root} :
                        /\ IsPrefix(InDir(d, <<>>), q)
                        /\ Until(Rest(q, Len(InDir(d, <<>>))), {"/"}) = Len(q) - Len(InDir(d, <<>>))}}

\* handle_propfind, and scan_directory for a listing.
Propfind ==
    /\ Served /\ Found /\ HasSlash /\ conn.method = <<"PROPFIND">>
    /\ answer' = [NoAnswer EXCEPT !.status = 207,
                                  !.shown = <<[href |-> conn.uri, name |-> <<>>, file |-> conn.file]>>]
    /\ IF conn.file.dir /\ Header(conn.headers, "Depth") # <<"0">>
       THEN /\ pc' = "readdir"
            /\ conn' = [conn EXCEPT !.path = Stripped(@), !.dir = TRUE,
                            !.there = Names(Stripped(conn.path)),
                            !.unread = Names(Stripped(conn.path))]
       ELSE pc' = "done" /\ UNCHANGED conn
    /\ UNCHANGED <<disk, clock, user>>

OpenDir ==
    /\ pc = "opendir"
    /\ Go("readdir", [conn EXCEPT !.dir = TRUE, !.there = Names(conn.path),
                                  !.unread = Names(conn.path), !.arr = ArrSize])

OpenDirFails == pc = "opendir" /\ Reply(500, <<>>)

\* Mutant: the array grows when it is more than full.
GrowLate(c, e, mem) ==
    IF c.entries = <<>> \/ Len(c.entries) > c.arr
    THEN IF mem THEN [c EXCEPT !.arr = 2 * @, !.entries = Append(@, e)]
         ELSE [c EXCEPT !.arr = 2 * @, !.entries = <<>>, !.failed = TRUE]
    ELSE IF Len(c.entries) < c.arr THEN [c EXCEPT !.entries = Append(@, e)] ELSE c

\* dir_scan_callback: the array is doubled when it is full; without memory
\* for it, the entries so far are lost.
DirScanCallback(c, e, mem) ==
    IF c.entries = <<>> \/ Len(c.entries) >= c.arr
    THEN IF mem THEN [c EXCEPT !.arr = 2 * @, !.entries = Append(@, e)]
         ELSE [c EXCEPT !.arr = 2 * @, !.entries = <<>>, !.failed = TRUE]
    ELSE [c EXCEPT !.entries = Append(@, e)]

IsListing == answer.status # 207

\* scan_directory reads one name: "." and ".." and hidden files are left
\* out.  A listing keeps the entry, handle_propfind prints it at once.
ReadDir ==
    /\ pc = "readdir" /\ conn.unread # {}
    /\ \E name \in conn.unread, mem \in BOOLEAN :
         LET c == [conn EXCEPT !.unread = @ \ {name}]
             f == Stat(InDir(c.path, name))
             e == [name |-> name, file |-> f,
                   href |-> IF IsListing THEN c.uri \o UrlEncode(name) \o (IF f.dir THEN <<"/">> ELSE <<>>)
                            ELSE UrlEncode(c.uri \o name)]
         IN /\ conn' = IF MustHide(name) \/ ~IsListing THEN c ELSE DirScanCallback(c, e, mem)
            /\ answer' = IF MustHide(name) \/ IsListing THEN answer
                         ELSE [answer EXCEPT !.shown = Append(@, e)]
    /\ UNCHANGED <<pc, disk, clock, user>>

\* compare_dir_entries, without a query: directories first, then by name.
\* strcmp of two names is their order as texts.
Order == [c \in {"%", ".", "/", "0", "a", "d", ".gz"} |->
            CASE c = "%" -> 37 [] c = "." -> 46 [] c = ".gz" -> 46 [] c = "/" -> 47
              [] c = "0" -> 48 [] c = "a" -> 97 [] c = "d" -> 100]

Precedes(n, m) ==
    \/ IsStrictPrefix(n, m)
    \/ \E i \in DOMAIN n \cap DOMAIN m : Order[n[i]] < Order[m[i]] /\ SubSeq(n, 1, i - 1) = SubSeq(m, 1, i - 1)

CompareDirEntries(a, b) ==
    \/ a.file.dir /\ ~b.file.dir
    \/ a.file.dir = b.file.dir /\ Precedes(a.name, b.name)

\* What qsort may make of the entries: none comes before one that precedes it.
Sorted(entries) ==
    {s \in {[i \in DOMAIN entries |-> entries[f[i]]] : f \in Bijection(DOMAIN entries, DOMAIN entries)} :
       \A i, j \in DOMAIN entries : i < j => ~CompareDirEntries(s[j], s[i])}

\* handle_directory_request: the entries are sorted and printed, and freed.
PrintDirectory ==
    /\ pc = "readdir" /\ conn.unread = {}
    /\ IF IsListing
       THEN \E s \in Sorted(conn.entries) : answer' = [NoAnswer EXCEPT !.status = 200, !.shown = s]
       ELSE answer' = answer
    /\ conn' = [conn EXCEPT !.dir = FALSE, !.entries = <<>>]
    /\ pc' = "done"
    /\ UNCHANGED <<disk, clock, user>>

-----------------------------------------------------------------------------
Copy == StartCopy \/ Extract \/ CopyFile \/ WriteFails \/ Kill

Browser == Ask \/ GetAnswer \/ Leave \/ CloseConnection

Decide == SendOptions \/ SendAuthorizationRequest \/ NotFound \/ Redirect \/ OpenDirectory \/ OpenFile

File == SubstituteIndexFile \/ SendFileData \/ CloseFile

Directory == Propfind \/ OpenDir \/ OpenDirFails \/ ReadDir \/ PrintDirectory

Work == ReadRequest \/ NotModified \/ SendHead \/ FopenFails

Serve == ConvertGz \/ Decide \/ File \/ Directory

Next == Tick \/ Copy \/ Browser \/ Work \/ Serve

\* Weak fairness of the worker and of what follows an answer.  Work can be
\* done whenever there is a request or a file to answer it with, so the first
\* conjunct is WF_vars(Work), without an ENABLED for which TLC would parse
\* messages and dates over and over.
Fairness == /\ []<>(pc \notin {"request", "file"}) \/ []<><<Work>>_vars
            /\ WF_vars(Serve)
            /\ WF_vars(GetAnswer \/ CloseConnection)

Spec == Init /\ [][Next]_vars /\ Fairness

-----------------------------------------------------------------------------
(* Properties.                                                             *)

TypeOK ==
    /\ \A p \in DOMAIN tree : tree[p].dir \in BOOLEAN /\ {tree[p].size, tree[p].mtime} \subseteq Nat
    /\ writing \in BOOLEAN /\ clock \in Nat
    /\ browser \in {"idle", "waiting", "gone"}
    /\ pc \in {"idle", "request", "stat gz", "decide", "index", "file", "send", "close",
               "opendir", "readdir", "done"}
    /\ answer.status \in {0, 200, 206, 207, 301, 304, 401, 404, 500, 501}
    /\ conn.left \in Int /\ conn.offset \in Nat

\* Whatever a browser writes, the worker reads: its method, each header that
\* the answer depends on, and a path without double slashes or slash and
\* double dots, so that it stays below the document root.  The in-place
\* parsers of civetweb cut and overwrite one buffer.
ReadAsSent ==
    pc \notin {"idle", "request"} =>
        /\ conn.method = <<asked.method>>
        /\ conn.uri = Rewritten(UrlDecode(asked.uri))
        /\ (Header(conn.headers, "Range") # None) = (asked.range # <<>>)
        /\ (Header(conn.headers, "Accept-Encoding") # None) = asked.gzip
        /\ (Header(conn.headers, "Depth") # None) = asked.depth
        /\ (Header(conn.headers, "If-None-Match") # None) = (asked.copy # <<>>)
        /\ (Header(conn.headers, "If-Modified-Since") # None) = (asked.copy # <<>>)

Inside(range, size) ==
    /\ \A i \in DOMAIN range : range[i] < size
    /\ Len(range) = 2 => range[1] <= range[2]

\* A browser that waits gets the file, or the part of it that it asked for,
\* in full, although the user interface writes the same file: what was
\* announced by the size that stat told is there when it is read.  The file
\* and the directory are closed by then.  (Of a range that ends at the size
\* or behind it one byte too many is announced, of one that ends before it
\* begins less than nothing.)
AnswersAreWhole ==
    pc = "done" =>
        /\ ~conn.fp /\ ~conn.dir
        /\ answer.name # <<>> /\ browser = "waiting" /\ asked.method # "HEAD"
           /\ Inside(asked.range, answer.file.size)
           => /\ answer.body = answer.announced
              /\ answer.body = IF asked.range = <<>> THEN answer.file.size
                               ELSE IF Len(asked.range) = 2 THEN 1 + asked.range[2] - asked.range[1]
                               ELSE answer.file.size - asked.range[1]

\* A listing, or the properties of a directory, show each file that was
\* there when the directory was opened, and none that is not, directories
\* first, and a browser that follows a link of it finds the file; unless
\* memory for the listing was refused.
ListingIsWhole ==
    pc = "done" /\ answer.status \in {200, 207} /\ conn.there # {} /\ ~conn.failed =>
        LET shown == {answer.shown[i].name : i \in DOMAIN answer.shown} \ {<<>>}
        IN /\ {n \in conn.there : ~MustHide(n)} \subseteq shown
           /\ shown \subseteq Names(conn.path)
           /\ \A i \in DOMAIN answer.shown :
                LET e == answer.shown[i]
                IN Stat(Rewritten(UrlDecode(e.href))) = Stat(InDir(conn.path, e.name))
           /\ answer.status = 200 =>
                \A i, j \in DOMAIN answer.shown :
                  i < j /\ answer.shown[j].file.dir => answer.shown[i].file.dir

\* 304 is answered only if the copy of the browser is the file as it is,
\* for a copy that was asked for in a later second than the file was
\* written in, and that is not from the first two months of a leap year,
\* when parse_date_string is a day ahead.
NotModifiedIsTrue ==
    answer.status = 304 =>
        LET copy == asked.copy[1]
        IN copy.mtime < copy.at /\ ~BeforeLeapDay(copy.mtime)
           => copy.size = conn.file.size /\ copy.name = conn.path

\* A browser that was redirected is not redirected again, unless its URI
\* had slashes or dots that the server removes (then for ever).
RedirectHelps ==
    answer.status = 301 /\ hops > 0 => asked.uri # Rewritten(UrlDecode(asked.uri))

\* Every request comes to an end, whatever the copy and the browser do, also
\* if the file is shorter than what was announced.
Answered == (pc # "idle") ~> (pc = "idle")
=============================================================================
