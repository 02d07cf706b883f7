------------------------- MODULE FileServiceProofs -------------------------
(***************************************************************************)
(* Proofs about the file service: for all assets, requests, index files,   *)
(* buffer sizes and bounds that FileAssumption allows.                     *)
(*                                                                         *)
(* The in-place loops of civetweb are recursive functions over a text.     *)
(* What they compute is proved by the least number for which it would not  *)
(* be so.  That gives PathTheorem (no path leaves the document root), what *)
(* the worker reads of the message that a browser writes                   *)
(* (ReadAsSentTheorem), and how far parse_date_string is from the calendar *)
(* (DateTheorem).  The invariant of the worker, ReadInv and WholeInv, then *)
(* follows a request from the line that was read to the last piece that is *)
(* sent, while the user interface writes the files.  CopyInv relates the   *)
(* files to the copy of a browser: whichever of them the worker finds for  *)
(* the URI of the copy, if it has not changed since, is that of the copy   *)
(* (NotModifiedIsTrueTheorem).  A name that mg_url_encode has encoded is   *)
(* decoded to itself (LinkTheorem), and ListInv relates what has been read *)
(* of a directory to the names in it (ListingIsWholeTheorem, for assets    *)
(* with PlainNames).                                                       *)
(***************************************************************************)
EXTENDS FileService, SequenceTheorems, WellFoundedInduction, FiniteSetTheorems, TLAPS

-----------------------------------------------------------------------------
(* Induction.  The induction theorems of the library are about operators,   *)
(* these about sets.                                                        *)

\* Each set of numbers that is not empty has a least element.
LEMMA LeastNumber ==
    ASSUME NEW S, S \subseteq Nat, S # {} PROVE \E m \in S : \A k \in S : m <= k
<1> DEFINE R == OpToRel(<, Nat)
<1>1. IsWellFoundedOn(R, Nat)
  BY NatLessThanWellFounded
<1>2. ASSUME NEW x \in Nat, NEW y \in Nat PROVE <<x, y>> \in R <=> x < y
  BY DEF OpToRel
<1> HIDE DEF R
<1>3. \E x \in S : \A y \in S : ~ (<<y, x>> \in R)
  BY <1>1, WFMin
<1>4. ASSUME NEW x \in S, \A y \in S : ~ (<<y, x>> \in R), NEW y \in S PROVE x <= y
  <2>1. x \in Nat /\ y \in Nat
    OBVIOUS
  <2>2. ~(y < x)
    BY <1>2, <1>4, <2>1
  <2> QED
    BY <2>1, <2>2
<1> QED
  BY <1>3, <1>4

\* A set that has 0, and the successor of each of its numbers, has all.
LEMMA Induction ==
    ASSUME NEW S, 0 \in S, \A n \in Nat : n \in S => n + 1 \in S
    PROVE  \A n \in Nat : n \in S
<1> SUFFICES ASSUME NEW n \in Nat, n \notin S PROVE FALSE
  OBVIOUS
<1> DEFINE T == {m \in Nat : m \notin S}
<1>1. n \in T
  OBVIOUS
<1>2. PICK m \in T : \A k \in T : m <= k
  <2>1. T \subseteq Nat /\ T # {}
    BY <1>1
  <2> HIDE DEF T
  <2> QED
    BY <2>1, LeastNumber
<1>3. m # 0 /\ m \in Nat /\ m \notin S
  BY <1>2
<1>4. m - 1 \in Nat /\ m - 1 \notin T
  BY <1>2, <1>3
<1>5. m - 1 \in S
  BY <1>4
<1> QED
  BY <1>3, <1>4, <1>5

\* From n down: a set that has a number from m to n whenever it has all those
\* from there up to n, has all numbers from m to n.
LEMMA Downward ==
    ASSUME NEW S, NEW m \in Int, NEW n \in Int,
           \A i \in m..n : (\A j \in (i + 1)..n : j \in S) => i \in S
    PROVE  \A i \in m..n : i \in S
<1> SUFFICES ASSUME NEW i \in m..n, i \notin S PROVE FALSE
  OBVIOUS
<1> DEFINE T == {k \in Nat : k <= n - m /\ n - k \notin S}
<1>1. n - i \in T
  <2>1. n - i \in Nat /\ n - i <= n - m /\ n - (n - i) = i
    OBVIOUS
  <2> QED
    BY <2>1
<1>2. PICK k \in T : \A l \in T : k <= l
  <2>1. T \subseteq Nat /\ T # {}
    BY <1>1
  <2> HIDE DEF T
  <2> QED
    BY <2>1, LeastNumber
<1>3. k \in Nat /\ n - k \in m..n /\ n - k \notin S
  BY <1>2
<1>4. ASSUME NEW j \in (n - k + 1)..n PROVE j \in S
  <2>1. n - j \in Nat /\ n - j <= n - m /\ n - (n - j) = j /\ n - j < k
    BY <1>3
  <2>2. n - j \notin T
    <3>1. ~(k <= n - j)
      BY <1>3, <2>1
    <3> HIDE DEF T
    <3> QED
      BY <1>2, <3>1
  <2> QED
    BY <2>1, <2>2
<1> QED
  BY <1>3, <1>4

-----------------------------------------------------------------------------
(* Recursive functions.  A LET with a recursive function chooses one that   *)
(* satisfies its equation: these lemmas say that there is one.              *)

\* The value of f at i depends on the one at next[i], which is behind it.
Down(f, n, V, base, step, next) ==
    /\ f \in [1..(n + 1) -> V]
    /\ \A i \in 1..(n + 1) : f[i] = IF i > n THEN base ELSE step[i][f[next[i]]]

\* Such a function exists.
LEMMA RecursionDown ==
    ASSUME NEW n \in Nat, NEW V, NEW base \in V, NEW step \in [1..n -> [V -> V]],
           NEW next, \A i \in 1..n : next[i] \in (i + 1)..(n + 1)
    PROVE  \E f : Down(f, n, V, base, step, next)
<1> DEFINE Good(k, f) == \A i \in k..(n + 1) : f[i] = IF i > n THEN base ELSE step[i][f[next[i]]]
           S == {k \in 1..(n + 1) : \E f \in [k..(n + 1) -> V] : Good(k, f)}
<1>1. n + 1 \in S
  <2> DEFINE f == [i \in (n + 1)..(n + 1) |-> base]
  <2>1. f \in [(n + 1)..(n + 1) -> V]
    OBVIOUS
  <2>2. \A i \in (n + 1)..(n + 1) : i > n /\ f[i] = base
    OBVIOUS
  <2> HIDE DEF f
  <2>3. Good(n + 1, f)
    BY <2>2
  <2>4. n + 1 \in 1..(n + 1)
    OBVIOUS
  <2> HIDE DEF Good
  <2> QED
    BY <2>1, <2>3, <2>4
<1>2. ASSUME NEW k \in 2..(n + 1), k \in S PROVE k - 1 \in S
  <2>1. PICK f \in [k..(n + 1) -> V] : Good(k, f)
    BY <1>2
  <2> DEFINE g == [i \in (k - 1)..(n + 1) |-> IF i = k - 1 THEN step[i][f[next[i]]] ELSE f[i]]
  <2>2. ASSUME NEW i \in (k - 1)..(n + 1), i <= n
        PROVE next[i] \in k..(n + 1) /\ next[i] \in (k - 1)..(n + 1) /\ i \in 1..n
    BY <2>2
  <2>3. k - 1 \in 1..n /\ k - 1 <= n
    OBVIOUS
  <2>4. /\ \A i \in (k - 1)..(n + 1) : i # k - 1 => i \in k..(n + 1) /\ g[i] = f[i]
        /\ g[k - 1] = step[k - 1][f[next[k - 1]]]
        /\ \A i \in k..(n + 1) : i \in (k - 1)..(n + 1) /\ i # k - 1
    OBVIOUS
  <2>5. g \in [(k - 1)..(n + 1) -> V]
    <3>1. next[k - 1] \in k..(n + 1)
      BY <2>2, <2>3
    <3>2. step[k - 1][f[next[k - 1]]] \in V
      BY <2>3, <3>1
    <3> QED
      BY <2>4, <3>2
  <2> HIDE DEF g
  <2>6. ASSUME NEW i \in (k - 1)..(n + 1)
        PROVE  g[i] = IF i > n THEN base ELSE step[i][g[next[i]]]
    <3>1. i <= n => g[next[i]] = f[next[i]]
      <4> SUFFICES ASSUME i <= n PROVE g[next[i]] = f[next[i]]
        OBVIOUS
      <4> DEFINE j == next[i]
      <4>1. j \in k..(n + 1)
        BY <2>2
      <4> HIDE DEF j
      <4>2. j \in (k - 1)..(n + 1) /\ j # k - 1
        BY <2>4, <4>1
      <4>3. g[j] = f[j]
        BY <2>4, <4>2
      <4> QED
        BY <4>3 DEF j
    <3>2. CASE i = k - 1
      <4>1. i <= n /\ ~(i > n)
        BY <2>3, <3>2
      <4>2. g[i] = step[i][f[next[i]]]
        BY <2>4, <3>2
      <4> QED
        BY <3>1, <4>1, <4>2
    <3>3. CASE i # k - 1
      <4>1. g[i] = f[i] /\ i \in k..(n + 1)
        BY <2>4, <3>3
      <4>2. f[i] = IF i > n THEN base ELSE step[i][f[next[i]]]
        BY <2>1, <4>1
      <4>3. CASE i > n
        BY <4>1, <4>2, <4>3
      <4>4. CASE i <= n
        <5>1. ~(i > n)
          BY <4>4
        <5> QED
          BY <3>1, <4>1, <4>2, <4>4, <5>1
      <4> QED
        BY <4>3, <4>4
    <3> QED
      BY <3>2, <3>3
  <2>7. Good(k - 1, g)
    BY <2>6
  <2>8. k - 1 \in 1..(n + 1)
    OBVIOUS
  <2> HIDE DEF Good
  <2> QED
    BY <2>5, <2>7, <2>8
<1>3. 1 \in S
  <2>1. 1 \in Int /\ n + 1 \in Int /\ 1 \in 1..(n + 1)
    OBVIOUS
  <2> HIDE DEF S
  <2>2. ASSUME NEW i \in 1..(n + 1), \A j \in (i + 1)..(n + 1) : j \in S PROVE i \in S
    <3>1. CASE i = n + 1
      BY <1>1, <3>1
    <3>2. CASE i # n + 1
      <4>1. i + 1 \in 2..(n + 1) /\ i + 1 \in (i + 1)..(n + 1) /\ (i + 1) - 1 = i
        BY <3>2
      <4> QED
        BY <1>2, <2>2, <4>1
    <3> QED
      BY <3>1, <3>2
  <2>3. \A k \in 1..(n + 1) : k \in S
    BY <2>1, <2>2, Downward
  <2> QED
    BY <2>1, <2>3
<1> QED
  BY <1>3 DEF Down

\* The value of f at i depends on the one at i - 1.
Up(f, n, V, base, step) ==
    /\ f \in [0..n -> V]
    /\ \A i \in 0..n : f[i] = IF i = 0 THEN base ELSE step[i][f[i - 1]]

\* Such a function exists.
LEMMA RecursionUp ==
    ASSUME NEW n \in Nat, NEW V, NEW base \in V, NEW step \in [1..n -> [V -> V]]
    PROVE  \E f : Up(f, n, V, base, step)
<1> DEFINE back == [i \in 1..n |-> step[n + 1 - i]]
           next == [i \in 1..n |-> i + 1]
<1>1. back \in [1..n -> [V -> V]] /\ \A i \in 1..n : next[i] = i + 1
  OBVIOUS
<1>2. \A i \in 1..n : n + 1 - i \in 1..n /\ back[n + 1 - i] = step[i]
  OBVIOUS
<1> HIDE DEF back, next
<1>3. PICK g : Down(g, n, V, base, back, next)
  <2>1. \A i \in 1..n : next[i] \in (i + 1)..(n + 1)
    BY <1>1
  <2>2. n \in Nat /\ base \in V /\ back \in [1..n -> [V -> V]]
    BY <1>1
  <2> QED
    BY <2>1, <2>2, RecursionDown
<1> DEFINE f == [i \in 0..n |-> g[n + 1 - i]]
<1>4. f \in [0..n -> V]
  BY <1>3 DEF Down
<1>5. \A i \in 0..n : f[i] = g[n + 1 - i]
  OBVIOUS
<1> HIDE DEF f
<1>6. ASSUME NEW i \in 0..n PROVE f[i] = IF i = 0 THEN base ELSE step[i][f[i - 1]]
  <2>1. CASE i = 0
    <3>1. n + 1 \in 1..(n + 1) /\ n + 1 > n /\ n + 1 - i = n + 1
      BY <2>1
    <3> QED
      BY <1>3, <1>5, <2>1, <3>1 DEF Down
  <2>2. CASE i # 0
    <3> DEFINE j == n + 1 - i
    <3>1. j \in 1..n /\ j \in 1..(n + 1) /\ ~(j > n) /\ i \in 1..n /\ i - 1 \in 0..n /\ n + 1 - (i - 1) = j + 1
      BY <2>2
    <3>2. f[i] = g[j]
      BY <1>5
    <3>3. back[j] = step[i]
      BY <1>2, <3>1
    <3> HIDE DEF j
    <3>4. f[i - 1] = g[j + 1] /\ next[j] = j + 1
      BY <1>1, <1>5, <3>1
    <3>5. g[j] = back[j][g[j + 1]]
      BY <1>3, <3>1, <3>4 DEF Down
    <3> QED
      BY <2>2, <3>2, <3>3, <3>4, <3>5
  <2> QED
    BY <2>1, <2>2
<1> QED
  BY <1>4, <1>6 DEF Up

-----------------------------------------------------------------------------
(* Texts.                                                                   *)

\* All strings.  (The provers do not know that each of those that are named
\* here is one.)
Named == {"%", ".", "/", "\\", "a", "d", "other", " ", ":", "\r", "\n", "HTTP/1.1", "Host", "device",
          "If-None-Match", "etag", "If-Modified-Since", "date", "Range", "range",
          "Accept-Encoding", "gzip", "Depth", "0", ".gz"}

Symbol == STRING \cup Named \cup Methods \cup DOMAIN Hex

Text == Seq(Symbol)

\* The symbols of a path: no blanks, and nothing that begins a query.
Blank == {" ", "\r", "\n", "?"}

Letter == Symbol \ Blank

Path == Seq(Letter)

\* A text that is joined of pieces: at each place there is a piece, and the
\* place where the next one is found, behind it.
IsJoined(f, n, piece, next) ==
    f = [i \in 1..(n + 1) |-> IF i > n THEN <<>> ELSE piece[i] \o f[next[i]]]

\* There is such a function,
LEMMA JoinedExists ==
    ASSUME NEW n \in Nat, NEW piece \in [1..n -> Text],
           NEW next, \A i \in 1..n : next[i] \in (i + 1)..(n + 1)
    PROVE  \E f : IsJoined(f, n, piece, next)
<1> DEFINE step == [i \in 1..n |-> [v \in Text |-> piece[i] \o v]]
<1>1. <<>> \in Text /\ step \in [1..n -> [Text -> Text]]
  <2>1. \A u, v \in Text : u \o v \in Text
    BY DEF Text
  <2> QED
    BY <2>1 DEF Text
<1>2. \A i \in 1..n, v \in Text : step[i][v] = piece[i] \o v
  OBVIOUS
<1> HIDE DEF step
<1>3. PICK f : Down(f, n, Text, <<>>, step, next)
  BY <1>1, RecursionDown
<1>4. ASSUME NEW i \in 1..(n + 1) PROVE f[i] = IF i > n THEN <<>> ELSE piece[i] \o f[next[i]]
  <2>1. CASE i > n
    BY <1>3, <2>1 DEF Down
  <2>2. CASE i <= n
    <3>1. i \in 1..n /\ ~(i > n)
      BY <2>2
    <3>2. f[i] = step[i][f[next[i]]] /\ next[i] \in 1..(n + 1)
      BY <1>3, <3>1 DEF Down
    <3>3. f[next[i]] \in Text
      BY <1>3, <3>2 DEF Down
    <3>4. f[i] = piece[i] \o f[next[i]]
      BY <1>2, <3>1, <3>2, <3>3
    <3> QED
      BY <3>1, <3>4
  <2> QED
    BY <2>1, <2>2
<1>5. f = [i \in 1..(n + 1) |-> f[i]]
  BY <1>3 DEF Down
<1> QED
  BY <1>4, <1>5 DEF IsJoined

\* and its values have the symbols of the pieces.
LEMMA JoinedHas ==
    ASSUME NEW V, NEW n \in Nat, NEW piece \in [1..n -> Seq(V)],
           NEW next, \A i \in 1..n : next[i] \in (i + 1)..(n + 1),
           NEW f, IsJoined(f, n, piece, next)
    PROVE  \A i \in 1..(n + 1) : f[i] \in Seq(V)
<1> DEFINE S == {i \in 1..(n + 1) : f[i] \in Seq(V)}
<1>1. ASSUME NEW i \in 1..(n + 1), \A j \in (i + 1)..(n + 1) : j \in S PROVE i \in S
  <2>1. CASE i > n
    BY <2>1 DEF IsJoined
  <2>2. CASE i <= n
    <3>1. i \in 1..n /\ ~(i > n)
      BY <2>2
    <3>2. f[i] = piece[i] \o f[next[i]]
      BY <3>1 DEF IsJoined
    <3>3. piece[i] \in Seq(V) /\ f[next[i]] \in Seq(V)
      BY <1>1, <3>1
    <3>4. \A u, v \in Seq(V) : u \o v \in Seq(V)
      OBVIOUS
    <3> QED
      BY <3>2, <3>3, <3>4
  <2> QED
    BY <2>1, <2>2
<1>2. 1 \in Int /\ n + 1 \in Int
  OBVIOUS
<1>3. \A i \in 1..(n + 1) : i \in S
  <2> HIDE DEF S
  <2> QED
    BY <1>1, <1>2, Downward
<1> QED
  BY <1>3

\* What is left of a text.
LEMMA RestIs ==
    ASSUME NEW s \in Text, NEW k \in 0..Len(s)
    PROVE  /\ Rest(s, k) \in Text
           /\ Len(Rest(s, k)) = Len(s) - k
           /\ \A i \in 1..(Len(s) - k) : Rest(s, k)[i] = s[k + i]
  BY DEF Rest, Text

\* What is behind nothing is the text.
LEMMA RestOfNone == ASSUME NEW s \in Text PROVE Rest(s, 0) = s
<1> DEFINE v == Rest(s, 0)
<1>1. 0 \in 0..Len(s) /\ Len(s) \in Nat
  BY DEF Text
<1>2. v \in Text /\ Len(v) = Len(s) - 0 /\ \A i \in 1..(Len(s) - 0) : v[i] = s[0 + i]
  BY <1>1, RestIs
<1>3. v \in Seq(Symbol) /\ s \in Seq(Symbol) /\ Len(v) = Len(s) /\ \A i \in 1..Len(v) : v[i] = s[i]
  BY <1>1, <1>2 DEF Text
<1> HIDE DEF v
<1>4. v = s
  BY <1>3, SeqEqual
<1> QED
  BY <1>4 DEF v

\* What is behind l symbols of what is behind k symbols.
LEMMA RestOfRest ==
    ASSUME NEW s \in Text, NEW k \in 0..Len(s), NEW l \in 0..(Len(s) - k)
    PROVE  Rest(Rest(s, k), l) = Rest(s, k + l)
<1>1. Len(s) \in Nat /\ k + l \in 0..Len(s) /\ l \in 0..Len(Rest(s, k))
  BY RestIs DEF Text
<1> DEFINE u == Rest(s, k)
           v == Rest(u, l)
           w == Rest(s, k + l)
<1>2. /\ u \in Text /\ Len(u) = Len(s) - k /\ \A i \in 1..(Len(s) - k) : u[i] = s[k + i]
      /\ w \in Text /\ Len(w) = Len(s) - (k + l) /\ \A i \in 1..(Len(s) - (k + l)) : w[i] = s[k + l + i]
  BY <1>1, RestIs
<1> HIDE DEF u, w
<1>3. v \in Text /\ Len(v) = Len(u) - l /\ \A i \in 1..(Len(u) - l) : v[i] = u[l + i]
  BY <1>1, <1>2, RestIs DEF u
<1> HIDE DEF v
<1>4. Len(v) = Len(w)
  BY <1>1, <1>2, <1>3
<1>5. ASSUME NEW i \in 1..Len(v) PROVE v[i] = w[i]
  <2>1. i \in 1..(Len(u) - l) /\ l + i \in 1..(Len(s) - k) /\ i \in 1..(Len(s) - (k + l)) /\ k + (l + i) = k + l + i
    BY <1>1, <1>2, <1>3
  <2> QED
    BY <1>2, <1>3, <2>1
<1>6. v = w
  <2>1. v \in Seq(Symbol) /\ w \in Seq(Symbol)
    BY <1>2, <1>3 DEF Text
  <2> QED
    BY <1>4, <1>5, <2>1, SeqEqual
<1> QED
  BY <1>6 DEF u, v, w

-----------------------------------------------------------------------------
(* The path of a URI.                                                       *)

\* Paths are texts.
LEMMA PathIsText == Path \subseteq Text
<1>1. ASSUME NEW s \in Seq(Letter) PROVE s \in Seq(Symbol)
  <2>1. \A i \in 1..Len(s) : s[i] \in Symbol
    BY DEF Letter
  <2> QED
    BY <2>1
<1> QED
  BY <1>1 DEF Path, Text

\* A code of two digits stands for a letter.
LEMMA DecodedIsLetter ==
    ASSUME NEW a, NEW b PROVE Decoded(a, b) \in Letter
<1> DEFINE code == 16 * Hex[a] + Hex[b]
<1>1. DOMAIN Ascii = {37, 46, 47, 92, 97, 100}
  BY DEF Ascii
<1>2. {"%", ".", "/", "\\", "a", "d", "other"} \subseteq Letter
  BY DEF Letter, Symbol, Named, Blank
<1>3. \A k \in {37, 46, 47, 92, 97, 100} : Ascii[k] \in {"%", ".", "/", "\\", "a", "d"}
  BY DEF Ascii
<1>4. Decoded(a, b) = IF code \in DOMAIN Ascii THEN Ascii[code] ELSE "other"
  BY DEF Decoded
<1> HIDE DEF code
<1>5. code \in DOMAIN Ascii => Ascii[code] \in Letter
  BY <1>1, <1>2, <1>3
<1> QED
  BY <1>2, <1>4, <1>5

\* What is decoded is a path.
LEMMA UrlDecodeIsPath ==
    ASSUME NEW s \in Path
    PROVE  UrlDecode(s) \in Path /\ (s # <<>> => UrlDecode(s) # <<>>)
<1> DEFINE n == Len(s)
           IsCode(i) == i < Len(s) - 1 /\ s[i] = "%" /\ s[i + 1] \in DOMAIN Hex /\ s[i + 2] \in DOMAIN Hex
           from[i \in 1..(Len(s) + 1)] ==
               IF i > Len(s) THEN <<>>
               ELSE IF IsCode(i) THEN <<Decoded(s[i + 1], s[i + 2])>> \o from[i + 3]
               ELSE <<s[i]>> \o from[i + 1]
<1>1. UrlDecode(s) = from[1]
  BY Zenon DEF UrlDecode
<1> HIDE DEF from
<1> DEFINE piece == [i \in 1..n |-> IF IsCode(i) THEN <<Decoded(s[i + 1], s[i + 2])>> ELSE <<s[i]>>]
           next == [i \in 1..n |-> IF IsCode(i) THEN i + 3 ELSE i + 1]
<1>2. n \in Nat /\ piece \in [1..n -> Path] /\ \A i \in 1..n : piece[i] # <<>>
  <2>1. \A i \in 1..n : s[i] \in Letter
    BY DEF Path
  <2>2. \A i \in 1..n : Decoded(s[i + 1], s[i + 2]) \in Letter
    BY DecodedIsLetter
  <2>3. ASSUME NEW c \in Letter PROVE <<c>> \in Path /\ <<c>> # <<>>
    BY DEF Path
  <2>4. n \in Nat
    BY DEF Path
  <2> HIDE DEF n, IsCode
  <2>5. \A i \in 1..n : piece[i] \in Path /\ piece[i] # <<>>
    BY <2>1, <2>2, <2>3
  <2> QED
    BY <2>4, <2>5
<1>3. \A i \in 1..n : next[i] \in (i + 1)..(n + 1)
  BY <1>2 DEF Path
<1>4. \A i \in 1..n : /\ piece[i] = IF IsCode(i) THEN <<Decoded(s[i + 1], s[i + 2])>> ELSE <<s[i]>>
                      /\ next[i] = IF IsCode(i) THEN i + 3 ELSE i + 1
  OBVIOUS
<1> HIDE DEF n, piece, next, IsCode
<1>5. ASSUME NEW f, NEW i \in 1..(n + 1)
      PROVE  (IF i > n THEN <<>> ELSE piece[i] \o f[next[i]])
               = IF i > n THEN <<>>
                 ELSE IF IsCode(i) THEN <<Decoded(s[i + 1], s[i + 2])>> \o f[i + 3]
                 ELSE <<s[i]>> \o f[i + 1]
  <2>1. ~(i > n) => i \in 1..n
    BY <1>2
  <2> QED
    BY <1>4, <2>1
<1>6. IsJoined(from, n, piece, next)
  <2>1. PICK f : IsJoined(f, n, piece, next)
    <3>1. Path \subseteq Text
      BY PathIsText
    <3> QED
      BY <1>2, <1>3, <3>1, JoinedExists
  <2>2. f = [i \in 1..(n + 1) |-> IF i > n THEN <<>>
                 ELSE IF IsCode(i) THEN <<Decoded(s[i + 1], s[i + 2])>> \o f[i + 3]
                 ELSE <<s[i]>> \o f[i + 1]]
    BY <1>5, <2>1 DEF IsJoined
  <2>3. from = [i \in 1..(n + 1) |-> IF i > n THEN <<>>
                 ELSE IF IsCode(i) THEN <<Decoded(s[i + 1], s[i + 2])>> \o from[i + 3]
                 ELSE <<s[i]>> \o from[i + 1]]
    BY <2>2 DEF from, n
  <2> QED
    BY <1>5, <2>3 DEF IsJoined
<1>7. \A i \in 1..(n + 1) : from[i] \in Path
  BY <1>2, <1>3, <1>6, JoinedHas DEF Path
<1>8. 1 \in 1..(n + 1)
  BY <1>2
<1>9. ASSUME s # <<>> PROVE from[1] # <<>>
  <2>1. 1 \in 1..n /\ ~(1 > n)
    BY <1>9 DEF Path, n
  <2>2. from[1] = piece[1] \o from[next[1]]
    BY <1>6, <1>8, <2>1 DEF IsJoined
  <2>3. next[1] \in 1..(n + 1)
    BY <1>2, <1>3, <2>1
  <2> DEFINE u == piece[1]
             v == from[next[1]]
  <2>4. u \in Seq(Letter) /\ v \in Seq(Letter) /\ u # <<>>
    BY <1>2, <1>7, <2>1, <2>3 DEF Path
  <2> HIDE DEF u, v
  <2>5. Len(u \o v) = Len(u) + Len(v) /\ Len(u) > 0 /\ Len(v) \in Nat /\ Len(u) \in Nat
    BY <2>4, ConcatProperties, EmptySeq, LenProperties
  <2>6. u \o v # <<>>
    BY <2>5
  <2> QED
    BY <2>2, <2>6 DEF u, v
<1> QED
  BY <1>1, <1>7, <1>8, <1>9

\* The two functions of remove_double_dots_and_double_slashes.
IsAfter(s, after) ==
    after = [i \in 1..(Len(s) + 1) |->
               IF i > Len(s) THEN i
               ELSE IF s[i] \in Slashes THEN after[i + 1]
               ELSE IF i < Len(s) /\ s[i] = "." /\ s[i + 1] = "." THEN after[i + 2]
               ELSE i]

IsFrom(s, after, from) ==
    from = [i \in 1..(Len(s) + 1) |->
              IF i > Len(s) THEN <<>>
              ELSE <<s[i]>> \o from[IF s[i] \in Slashes THEN after[i + 1] ELSE i + 1]]

\* The first function exists,
LEMMA AfterExists == ASSUME NEW s \in Text PROVE \E after : IsAfter(s, after)
<1> DEFINE n == Len(s)
           V == 1..(n + 1)
           Dots(i) == i < n /\ s[i] = "." /\ s[i + 1] = "."
           next == [i \in 1..n |-> IF s[i] \in Slashes THEN i + 1 ELSE IF Dots(i) THEN i + 2 ELSE i + 1]
           step == [i \in 1..n |-> [v \in V |-> IF s[i] \in Slashes \/ Dots(i) THEN v ELSE i]]
<1>1. n \in Nat /\ n + 1 \in V /\ step \in [1..n -> [V -> V]]
  BY DEF Text
<1>2. \A i \in 1..n : next[i] \in (i + 1)..(n + 1)
  BY <1>1
<1>3. /\ \A i \in 1..n : next[i] = IF s[i] \in Slashes THEN i + 1 ELSE IF Dots(i) THEN i + 2 ELSE i + 1
      /\ \A i \in 1..n, v \in V : step[i][v] = IF s[i] \in Slashes \/ Dots(i) THEN v ELSE i
  OBVIOUS
<1> HIDE DEF n, next, step, V, Dots
<1>4. PICK f : Down(f, n, V, n + 1, step, next)
  BY <1>1, <1>2, RecursionDown
<1>5. ASSUME NEW i \in V
      PROVE  f[i] = IF i > n THEN i ELSE IF s[i] \in Slashes THEN f[i + 1] ELSE IF Dots(i) THEN f[i + 2] ELSE i
  <2>1. CASE i > n
    BY <1>1, <1>4, <2>1 DEF Down, V
  <2>2. CASE i <= n
    <3>1. i \in 1..n /\ ~(i > n)
      BY <1>1, <2>2 DEF V
    <3>2. f[i] = step[i][f[next[i]]] /\ next[i] \in 1..(n + 1)
      BY <1>2, <1>4, <3>1 DEF Down, V
    <3>3. f[next[i]] \in V
      BY <1>4, <3>2 DEF Down
    <3>4. f[i] = IF s[i] \in Slashes \/ Dots(i) THEN f[next[i]] ELSE i
      BY <1>3, <3>1, <3>2, <3>3
    <3> QED
      BY <1>3, <3>1, <3>4
  <2> QED
    BY <1>1, <2>1, <2>2 DEF V
<1>6. f = [i \in V |-> f[i]]
  BY <1>4 DEF Down, V
<1>7. f = [i \in V |-> IF i > n THEN i ELSE IF s[i] \in Slashes THEN f[i + 1] ELSE IF Dots(i) THEN f[i + 2] ELSE i]
  BY <1>5, <1>6
<1> QED
  BY <1>7 DEF IsAfter, n, V, Dots

\* and never points back.
LEMMA AfterIsBehind ==
    ASSUME NEW s \in Text, NEW after, IsAfter(s, after)
    PROVE  \A i \in 1..(Len(s) + 1) : after[i] \in i..(Len(s) + 1)
<1> DEFINE n == Len(s)
           S == {i \in 1..(n + 1) : after[i] \in i..(n + 1)}
<1>1. n \in Nat /\ 1 \in Int /\ n + 1 \in Int
  BY DEF Text
<1>2. ASSUME NEW i \in 1..(n + 1), \A j \in (i + 1)..(n + 1) : j \in S PROVE i \in S
  <2>1. after[i] = IF i > n THEN i ELSE IF s[i] \in Slashes THEN after[i + 1]
                   ELSE IF i < n /\ s[i] = "." /\ s[i + 1] = "." THEN after[i + 2] ELSE i
    BY DEF IsAfter
  <2>2. i <= n => i + 1 \in S
    BY <1>1, <1>2
  <2>3. i < n => i + 2 \in S
    BY <1>1, <1>2
  <2> QED
    BY <1>1, <2>1, <2>2, <2>3
<1>3. \A i \in 1..(n + 1) : i \in S
  <2> HIDE DEF S, n
  <2> QED
    BY <1>1, <1>2, Downward
<1> QED
  BY <1>3

\* The second exists.
LEMMA FromExists ==
    ASSUME NEW s \in Text, NEW after, IsAfter(s, after)
    PROVE  \E from : IsFrom(s, after, from)
<1> DEFINE n == Len(s)
           piece == [i \in 1..n |-> <<s[i]>>]
           next == [i \in 1..n |-> IF s[i] \in Slashes THEN after[i + 1] ELSE i + 1]
<1>1. n \in Nat /\ piece \in [1..n -> Text]
  <2>1. \A i \in 1..n : <<s[i]>> \in Text
    BY DEF Text
  <2> QED
    BY <2>1 DEF Text
<1>2. \A i \in 1..n : next[i] \in (i + 1)..(n + 1)
  <2>1. \A i \in 1..(n + 1) : after[i] \in i..(n + 1)
    BY AfterIsBehind
  <2> HIDE DEF n
  <2> QED
    BY <1>1, <2>1
<1>3. \A i \in 1..n : piece[i] = <<s[i]>> /\ next[i] = IF s[i] \in Slashes THEN after[i + 1] ELSE i + 1
  OBVIOUS
<1> HIDE DEF n, piece, next
<1>4. PICK f : IsJoined(f, n, piece, next)
  BY <1>1, <1>2, JoinedExists
<1>5. ASSUME NEW i \in 1..(n + 1)
      PROVE  f[i] = IF i > n THEN <<>> ELSE <<s[i]>> \o f[IF s[i] \in Slashes THEN after[i + 1] ELSE i + 1]
  <2>1. f[i] = IF i > n THEN <<>> ELSE piece[i] \o f[next[i]]
    BY <1>4 DEF IsJoined
  <2>2. ~(i > n) => i \in 1..n
    BY <1>1
  <2> QED
    BY <1>3, <2>1, <2>2
<1>6. f = [i \in 1..(n + 1) |-> f[i]]
  BY <1>4 DEF IsJoined
<1>7. f = [i \in 1..(n + 1) |-> IF i > n THEN <<>> ELSE <<s[i]>> \o f[IF s[i] \in Slashes THEN after[i + 1] ELSE i + 1]]
  BY <1>5, <1>6
<1> QED
  BY <1>7 DEF IsFrom, n

\* What RemoveDoubleDots chooses.
LEMMA RemoveDoubleDotsIs ==
    ASSUME NEW s \in Text
    PROVE  \E after, from : IsAfter(s, after) /\ IsFrom(s, after, from) /\ RemoveDoubleDots(s) = from[1]
<1> DEFINE after[i \in 1..(Len(s) + 1)] ==
            IF i > Len(s) THEN i
            ELSE IF s[i] \in Slashes THEN after[i + 1]
            ELSE IF i < Len(s) /\ s[i] = "." /\ s[i + 1] = "." THEN after[i + 2]
            ELSE i
<1> DEFINE from[i \in 1..(Len(s) + 1)] ==
            IF i > Len(s) THEN <<>>
            ELSE <<s[i]>> \o from[IF s[i] \in Slashes THEN after[i + 1] ELSE i + 1]
<1>1. RemoveDoubleDots(s) = from[1]
  BY Zenon DEF RemoveDoubleDots
<1> HIDE DEF from
<1>2. IsAfter(s, after)
  <2>1. \E f : IsAfter(s, f)
    BY AfterExists
  <2> QED
    BY <2>1 DEF IsAfter
<1> HIDE DEF after
<1>3. IsFrom(s, after, from)
  <2>1. \E f : IsFrom(s, after, f)
    BY <1>2, FromExists
  <2> QED
    BY <2>1 DEF IsFrom, from
<1> QED
  BY <1>1, <1>2, <1>3

\* The equations of the two functions, place by place.
LEMMA AfterAt ==
    ASSUME NEW s \in Text, NEW after, IsAfter(s, after), NEW i \in 1..(Len(s) + 1)
    PROVE  /\ i > Len(s) => after[i] = i
           /\ i <= Len(s) /\ s[i] \in Slashes => after[i] = after[i + 1]
           /\ i < Len(s) /\ s[i] = "." /\ s[i + 1] = "." => after[i] = after[i + 2]
           /\ i <= Len(s) /\ s[i] \notin Slashes /\ ~(i < Len(s) /\ s[i] = "." /\ s[i + 1] = ".") => after[i] = i
<1>1. after[i] = IF i > Len(s) THEN i
                 ELSE IF s[i] \in Slashes THEN after[i + 1]
                 ELSE IF i < Len(s) /\ s[i] = "." /\ s[i + 1] = "." THEN after[i + 2]
                 ELSE i
  BY DEF IsAfter
<1>2. "." \notin Slashes /\ Len(s) \in Nat
  BY DEF Slashes, Text
<1> QED
  BY <1>1, <1>2

\* Each entry of the filter that removes dots, by its equation.
LEMMA FromAt ==
    ASSUME NEW s \in Text, NEW after, NEW from, IsFrom(s, after, from), NEW i \in 1..(Len(s) + 1)
    PROVE  /\ i > Len(s) => from[i] = <<>>
           /\ i <= Len(s) /\ s[i] \in Slashes => from[i] = Cons(s[i], from[after[i + 1]])
           /\ i <= Len(s) /\ s[i] \notin Slashes => from[i] = Cons(s[i], from[i + 1])
<1>1. from[i] = IF i > Len(s) THEN <<>>
                ELSE <<s[i]>> \o from[IF s[i] \in Slashes THEN after[i + 1] ELSE i + 1]
  BY DEF IsFrom
<1>2. Len(s) \in Nat
  BY DEF Text
<1> QED
  BY <1>1, <1>2 DEF Cons

\* The pass writes only symbols that it reads.
LEMMA CleanIsPath ==
    ASSUME NEW s \in Path
    PROVE  RemoveDoubleDots(s) \in Path /\ (s # <<>> => RemoveDoubleDots(s) # <<>>)
<1>1. s \in Text /\ Len(s) \in Nat
  BY PathIsText DEF Text
<1>2. PICK after, from : IsAfter(s, after) /\ IsFrom(s, after, from) /\ RemoveDoubleDots(s) = from[1]
  BY <1>1, RemoveDoubleDotsIs
<1> DEFINE n == Len(s)
           S == {i \in 1..(n + 1) : from[i] \in Path}
<1>3. \A i \in 1..(n + 1) : after[i] \in i..(n + 1)
  BY <1>1, <1>2, AfterIsBehind
<1>4. ASSUME NEW c \in Letter, NEW v \in Path PROVE Cons(c, v) \in Path /\ Cons(c, v) # <<>>
  <2> DEFINE u == <<c>>
  <2>1. u \in Seq(Letter) /\ v \in Seq(Letter) /\ Len(u) = 1
    BY DEF Path
  <2> HIDE DEF u
  <2>2. u \o v \in Seq(Letter) /\ Len(u \o v) = 1 + Len(v) /\ Len(v) \in Nat
    BY <2>1, ConcatProperties, LenProperties
  <2>3. u \o v # <<>>
    BY <2>2
  <2> QED
    BY <2>2, <2>3 DEF u, Cons, Path
<1>5. ASSUME NEW i \in 1..(n + 1), \A j \in (i + 1)..(n + 1) : j \in S PROVE from[i] \in Path
  <2>1. CASE i > n
    <3>1. from[i] = <<>>
      BY <1>1, <1>2, <2>1, FromAt
    <3> QED
      BY <3>1 DEF Path
  <2>2. CASE i <= n
    <3>1. i \in 1..n /\ i + 1 \in (i + 1)..(n + 1) /\ i + 1 \in 1..(n + 1)
      BY <1>1, <2>2
    <3>2. s[i] \in Letter
      BY <1>1, <3>1 DEF Path
    <3>3. after[i + 1] \in (i + 1)..(n + 1)
      BY <1>3, <3>1
    <3>4. from[i + 1] \in Path /\ from[after[i + 1]] \in Path
      BY <1>5, <3>1, <3>3
    <3>5. from[i] = Cons(s[i], from[after[i + 1]]) \/ from[i] = Cons(s[i], from[i + 1])
      BY <1>1, <1>2, <2>2, FromAt
    <3> QED
      BY <1>4, <3>2, <3>4, <3>5
  <2> QED
    BY <1>1, <2>1, <2>2
<1>6. 1 \in Int /\ n + 1 \in Int /\ 1 \in 1..(n + 1)
  BY <1>1
<1>7. \A i \in 1..(n + 1) : i \in S
  <2>1. \A i \in 1..(n + 1) : (\A j \in (i + 1)..(n + 1) : j \in S) => i \in S
    BY <1>5
  <2> HIDE DEF S
  <2> QED
    BY <1>6, <2>1, Downward
<1>8. ASSUME s # <<>> PROVE from[1] # <<>>
  <2>1. 1 \in 1..n /\ 1 <= n /\ 1 + 1 \in 1..(n + 1)
    BY <1>1, <1>8 DEF Path
  <2>2. s[1] \in Letter
    BY <2>1 DEF Path
  <2>3. after[1 + 1] \in 1..(n + 1)
    BY <1>1, <1>3, <2>1
  <2>4. from[1] = Cons(s[1], from[after[1 + 1]]) \/ from[1] = Cons(s[1], from[1 + 1])
    BY <1>1, <1>2, <1>6, <2>1, FromAt
  <2>5. from[after[1 + 1]] \in Path /\ from[1 + 1] \in Path
    BY <1>7, <2>1, <2>3
  <2> HIDE DEF n
  <2> QED
    BY <1>4, <2>2, <2>4, <2>5
<1> QED
  BY <1>2, <1>6, <1>7, <1>8

\* Where nothing is doubled or dotted nothing is skipped.
LEMMA AfterOrdinary ==
    ASSUME NEW s \in Text, NEW after, IsAfter(s, after), NEW i \in 1..Len(s), s[i] \in Slashes,
           i \notin Doubled(s) \cup Dotted(s)
    PROVE  after[i + 1] = i + 1
<1>1. Len(s) \in Nat /\ i \in DOMAIN s /\ i + 1 \in 1..(Len(s) + 1)
  BY DEF Text
<1>2. /\ i < Len(s) => s[i + 1] \notin Slashes
      /\ i < Len(s) - 1 => ~(s[i + 1] = "." /\ s[i + 2] = ".")
  BY <1>1 DEF Doubled, Dotted
<1>3. i + 1 < Len(s) => ~(s[i + 1] = "." /\ s[(i + 1) + 1] = ".")
  BY <1>1, <1>2
<1> QED
  BY <1>1, <1>2, <1>3, AfterAt

\* The pass over a path leaves one with no such place as it is.
LEMMA OrdinaryPath ==
    ASSUME NEW s \in Text, Doubled(s) \cup Dotted(s) = {}
    PROVE  RemoveDoubleDots(s) = s
<1>1. PICK after, from : IsAfter(s, after) /\ IsFrom(s, after, from) /\ RemoveDoubleDots(s) = from[1]
  BY RemoveDoubleDotsIs
<1> DEFINE n == Len(s)
           S == {i \in 1..(n + 1) : from[i] = SubSeq(s, i, n)}
<1>2. n \in Nat /\ 1 \in Int /\ n + 1 \in Int
  BY DEF Text
<1>3. ASSUME NEW i \in 1..(n + 1), \A j \in (i + 1)..(n + 1) : j \in S PROVE i \in S
  <2>1. CASE i = n + 1
    <3>1. from[i] = <<>>
      <4>1. i \in 1..(Len(s) + 1) /\ i > Len(s)
        BY <1>2, <2>1
      <4> QED
        BY <1>1, <4>1, FromAt
    <3>2. SubSeq(s, i, n) = <<>>
      BY <1>2, <2>1 DEF Text
    <3> QED
      BY <3>1, <3>2
  <2>2. CASE i # n + 1
    <3>1. i \in 1..n /\ i + 1 \in S
      BY <1>2, <1>3, <2>2
    <3>2. s[i] \in Slashes => after[i + 1] = i + 1
      BY <1>1, <1>2, <3>1, AfterOrdinary
    <3>5. from[i] = Cons(s[i], from[i + 1])
      BY <1>1, <1>2, <3>1, <3>2, FromAt
    <3>3. from[i] = <<s[i]>> \o SubSeq(s, i + 1, n)
      BY <3>1, <3>5 DEF Cons
    <3>4. <<s[i]>> \o SubSeq(s, i + 1, n) = SubSeq(s, i, n)
      BY <1>2, <3>1 DEF Text
    <3> QED
      BY <3>3, <3>4
  <2> QED
    BY <2>1, <2>2
<1>4. \A i \in 1..(n + 1) : i \in S
  <2> HIDE DEF S, n
  <2> QED
    BY <1>2, <1>3, Downward
<1>5. from[1] = SubSeq(s, 1, n)
  BY <1>2, <1>4
<1> QED
  BY <1>1, <1>5 DEF Text

\* A path from which w symbols behind the place i are taken.
LEMMA WithoutIs ==
    ASSUME NEW s \in Text, NEW i \in 1..Len(s), NEW w \in {1, 2}, i + w <= Len(s)
    PROVE  /\ Without(s, i, w) \in Text
           /\ Len(Without(s, i, w)) = Len(s) - w
           /\ \A j \in 1..i : Without(s, i, w)[j] = s[j]
           /\ \A k \in (i + 1)..(Len(s) - w) : Without(s, i, w)[k] = s[k + w]
<1> DEFINE n == Len(s)
           u == SubSeq(s, 1, i)
           v == SubSeq(s, i + w + 1, n)
<1>1. n \in Nat /\ i \in Nat /\ w \in Nat /\ i <= n
  BY DEF Text
<1>2. u \in Text /\ Len(u) = i /\ \A j \in 1..i : u[j] = s[j]
  BY <1>1 DEF Text
<1>3. v \in Text /\ Len(v) = n - (i + w) /\ \A j \in 1..(n - (i + w)) : v[j] = s[j + i + w]
  BY <1>1 DEF Text
<1>4. Without(s, i, w) = u \o v
  BY DEF Without, Rest
<1> HIDE DEF u, v
<1>5. u \o v \in Text /\ Len(u \o v) = n - w
  <2>1. u \in Seq(Symbol) /\ v \in Seq(Symbol)
    BY <1>2, <1>3 DEF Text
  <2>2. u \o v \in Seq(Symbol) /\ Len(u \o v) = Len(u) + Len(v)
    BY <2>1, ConcatProperties
  <2>3. i + (n - (i + w)) = n - w
    BY <1>1
  <2> QED
    BY <1>2, <1>3, <2>2, <2>3 DEF Text
<1>6. ASSUME NEW j \in 1..i PROVE (u \o v)[j] = s[j]
  BY <1>1, <1>2, <1>3 DEF Text
<1>7. ASSUME NEW k \in (i + 1)..(n - w) PROVE (u \o v)[k] = s[k + w]
  <2>1. (u \o v)[k] = v[k - i]
    BY <1>1, <1>2, <1>3 DEF Text
  <2>2. k - i \in 1..(n - (i + w)) /\ (k - i) + i + w = k + w
    BY <1>1
  <2> QED
    BY <1>3, <2>1, <2>2
<1> QED
  BY <1>4, <1>5, <1>6, <1>7

\* The first such place: what the pass makes of the path does not change
\* when what is behind the slash is taken out before it.
LEMMA FirstTakenOut ==
    ASSUME NEW s \in Text, NEW i \in Doubled(s) \cup Dotted(s),
           \A j \in Doubled(s) \cup Dotted(s) : i <= j
    PROVE  RemoveDoubleDots(Without(s, i, Width(s, i))) = RemoveDoubleDots(s)
<1> DEFINE n == Len(s)
           w == Width(s, i)
           t == Without(s, i, w)
           m == Len(t)
<1>1. /\ n \in Nat /\ w \in {1, 2} /\ i \in 1..n /\ i + w <= n /\ s[i] \in Slashes
      /\ w = 1 => s[i + 1] \in Slashes
      /\ w = 2 => s[i + 1] = "." /\ s[i + 2] = "."
  BY DEF Width, Doubled, Dotted, Text
<1> HIDE DEF w
<1>2. /\ t \in Text /\ Len(t) = m /\ m = n - w /\ m \in Nat
      /\ \A j \in 1..i : t[j] = s[j]
      /\ \A k \in (i + 1)..m : t[k] = s[k + w]
  <2>1. i \in 1..Len(s) /\ w \in {1, 2} /\ i + w <= Len(s)
    BY <1>1
  <2>2. /\ t \in Text /\ Len(t) = Len(s) - w
        /\ \A j \in 1..i : t[j] = s[j]
        /\ \A k \in (i + 1)..(Len(s) - w) : t[k] = s[k + w]
    BY <2>1, WithoutIs
  <2>3. n - w \in Nat
    BY <1>1
  <2> QED
    BY <2>2, <2>3
<1> HIDE DEF t
<1>3. PICK a, f : IsAfter(s, a) /\ IsFrom(s, a, f) /\ RemoveDoubleDots(s) = f[1]
  BY RemoveDoubleDotsIs
<1>4. PICK b, g : IsAfter(t, b) /\ IsFrom(t, b, g) /\ RemoveDoubleDots(t) = g[1]
  BY <1>2, RemoveDoubleDotsIs
<1>5. a[i + 1] = a[i + 1 + w]
  <2>1. i + 1 \in 1..(n + 1)
    BY <1>1
  <2>2. CASE w = 1
    BY <1>1, <1>3, <2>1, <2>2, AfterAt
  <2>3. CASE w = 2
    <3>1. i + 1 < n /\ s[i + 1] = "." /\ s[(i + 1) + 1] = "." /\ (i + 1) + 2 = i + 1 + w
      BY <1>1, <2>3
    <3> QED
      BY <1>3, <2>1, <3>1, AfterAt
  <2> QED
    BY <1>1, <2>2, <2>3
<1>6. \A k \in (i + 1)..(m + 1) : b[k] + w = a[k + w]
  <2> DEFINE S == {k \in (i + 1)..(m + 1) : b[k] + w = a[k + w]}
  <2>1. ASSUME NEW k \in (i + 1)..(m + 1), \A j \in (k + 1)..(m + 1) : j \in S PROVE k \in S
    <3>1. k \in 1..(m + 1) /\ k + w \in 1..(n + 1)
      BY <1>1, <1>2
    <3>2. CASE k > m
      <4>1. k + w > n /\ k \in Int
        BY <1>1, <1>2, <3>2
      <4>2. b[k] = k /\ a[k + w] = k + w
        BY <1>2, <1>3, <1>4, <3>1, <3>2, <4>1, AfterAt
      <4> QED
        BY <4>2
    <3>3. CASE k <= m
      <4>1. k + w <= n /\ t[k] = s[k + w] /\ (k + 1) + w = (k + w) + 1 /\ (k + 2) + w = (k + w) + 2
        BY <1>1, <1>2, <3>3
      <4>2. CASE t[k] \in Slashes
        <5>1. b[k] = b[k + 1] /\ a[k + w] = a[(k + w) + 1]
          BY <1>2, <1>3, <1>4, <3>1, <3>3, <4>1, <4>2, AfterAt
        <5>2. k + 1 \in S
          BY <1>2, <2>1, <3>3
        <5> QED
          BY <4>1, <5>1, <5>2
      <4>3. CASE k < m /\ t[k] = "." /\ t[k + 1] = "."
        <5>1. k + w < n /\ s[(k + w) + 1] = "."
          BY <1>1, <1>2, <4>1, <4>3
        <5>2. b[k] = b[k + 2] /\ a[k + w] = a[(k + w) + 2]
          BY <1>2, <1>3, <1>4, <3>1, <4>1, <4>3, <5>1, AfterAt, SMTT(20)
        <5>3. k + 2 \in S
          BY <1>2, <2>1, <4>3
        <5> QED
          BY <4>1, <5>2, <5>3
      <4>4. CASE t[k] \notin Slashes /\ ~(k < m /\ t[k] = "." /\ t[k + 1] = ".")
        <5>1. ~(k + w < n /\ s[k + w] = "." /\ s[(k + w) + 1] = ".")
          BY <1>1, <1>2, <4>1, <4>4
        <5>2. b[k] = k
          BY <1>2, <1>4, <3>1, <3>3, <4>4, AfterAt
        <5>3. a[k + w] = k + w
          BY <1>3, <3>1, <4>1, <4>4, <5>1, AfterAt
        <5> QED
          BY <5>2, <5>3
      <4> QED
        BY <4>2, <4>3, <4>4
    <3> QED
      BY <1>2, <3>2, <3>3
  <2>2. i + 1 \in Int /\ m + 1 \in Int
    BY <1>1, <1>2
  <2>3. \A k \in (i + 1)..(m + 1) : k \in S
    <3> HIDE DEF S
    <3> QED
      BY <2>1, <2>2, Downward
  <2> QED
    BY <2>3
<1>7. \A k \in (i + 1)..(m + 1) : g[k] = f[k + w]
  <2> DEFINE S == {k \in (i + 1)..(m + 1) : g[k] = f[k + w]}
  <2>1. ASSUME NEW k \in (i + 1)..(m + 1), \A j \in (k + 1)..(m + 1) : j \in S PROVE k \in S
    <3>1. k \in 1..(m + 1) /\ k + w \in 1..(n + 1)
      BY <1>1, <1>2
    <3>2. CASE k > m
      <4>1. k + w > n
        BY <1>1, <1>2, <3>2
      <4>2. g[k] = <<>>
        BY <1>2, <1>4, <3>1, <3>2, FromAt
      <4>3. f[k + w] = <<>>
        BY <1>3, <3>1, <4>1, FromAt
      <4> QED
        BY <4>2, <4>3
    <3>3. CASE k <= m
      <4>1. k + w <= n /\ t[k] = s[k + w] /\ (k + 1) + w = (k + w) + 1 /\ k + 1 \in (i + 1)..(m + 1)
        BY <1>1, <1>2, <3>3
      <4>2. CASE t[k] \in Slashes
        <5>1. g[k] = Cons(t[k], g[b[k + 1]])
          BY <1>2, <1>4, <3>1, <3>3, <4>2, FromAt
        <5>6. f[k + w] = Cons(t[k], f[a[(k + w) + 1]])
          BY <1>3, <3>1, <4>1, <4>2, FromAt
        <5>2. b[k + 1] \in (k + 1)..(m + 1)
          <6>1. k + 1 \in 1..(m + 1)
            BY <1>2, <3>1, <3>3
          <6> QED
            BY <1>2, <1>4, <6>1, AfterIsBehind
        <5>3. g[b[k + 1]] = f[b[k + 1] + w]
          BY <2>1, <5>2
        <5>4. b[k + 1] + w = a[(k + w) + 1]
          BY <1>6, <4>1
        <5> QED
          BY <5>1, <5>3, <5>4, <5>6
      <4>3. CASE t[k] \notin Slashes
        <5>1. g[k] = Cons(t[k], g[k + 1])
          BY <1>2, <1>4, <3>1, <3>3, <4>3, FromAt
        <5>2. f[k + w] = Cons(t[k], f[(k + w) + 1])
          BY <1>3, <3>1, <4>1, <4>3, FromAt
        <5>3. k + 1 \in S
          BY <1>2, <2>1, <3>3
        <5> QED
          BY <4>1, <5>1, <5>2, <5>3
      <4> QED
        BY <4>2, <4>3
    <3> QED
      BY <1>2, <3>2, <3>3
  <2>2. i + 1 \in Int /\ m + 1 \in Int
    BY <1>1, <1>2
  <2>3. \A k \in (i + 1)..(m + 1) : k \in S
    <3> HIDE DEF S
    <3> QED
      BY <2>1, <2>2, Downward
  <2> QED
    BY <2>3
<1>8. g[i] = f[i]
  <2>1. i \in 1..(m + 1) /\ i \in 1..(n + 1) /\ i <= m /\ i <= n /\ t[i] = s[i] /\ i + 1 \in (i + 1)..(m + 1)
    BY <1>1, <1>2
  <2>2. g[i] = Cons(s[i], g[b[i + 1]])
    BY <1>1, <1>2, <1>4, <2>1, FromAt
  <2>6. f[i] = Cons(s[i], f[a[i + 1]])
    BY <1>1, <1>3, <2>1, FromAt
  <2>3. b[i + 1] \in (i + 1)..(m + 1)
    BY <1>2, <1>4, <2>1, AfterIsBehind
  <2>4. g[b[i + 1]] = f[b[i + 1] + w]
    BY <1>7, <2>3
  <2>5. b[i + 1] + w = a[i + 1]
    BY <1>5, <1>6, <2>1
  <2> QED
    BY <2>2, <2>4, <2>5, <2>6
<1>9. \A j \in 1..i : g[j] = f[j]
  <2> DEFINE S == {j \in 1..i : g[j] = f[j]}
  <2>1. ASSUME NEW j \in 1..i, \A k \in (j + 1)..i : k \in S PROVE j \in S
    <3>1. CASE j = i
      BY <1>8, <3>1
    <3>2. CASE j # i
      <4>1. /\ j \in 1..(m + 1) /\ j \in 1..(n + 1) /\ j \in 1..n /\ j \in 1..m /\ j <= m /\ j <= n
            /\ j + 1 \in 1..i /\ j + 1 \in S /\ t[j] = s[j] /\ t[j + 1] = s[j + 1] /\ j < i
        BY <1>1, <1>2, <2>1, <3>2
      <4>2. j \notin Doubled(s) \cup Dotted(s)
        BY <1>1, <4>1
      <4>6. s[j] \in Slashes => a[j + 1] = j + 1
        BY <1>3, <4>1, <4>2, AfterOrdinary
      <4>3. f[j] = Cons(s[j], f[j + 1])
        BY <1>3, <4>1, <4>6, FromAt
      <4>4. j \notin Doubled(t) \cup Dotted(t)
        <5>1. j \in DOMAIN s /\ j < n
          BY <1>1, <4>1 DEF Text
        <5>2. s[j] \in Slashes => s[j + 1] \notin Slashes
          BY <4>2, <5>1 DEF Doubled
        <5>3. j \notin Doubled(t)
          BY <4>1, <5>2 DEF Doubled
        <5>4. ASSUME s[j] \in Slashes, j < m - 1, t[j + 1] = ".", t[j + 2] = "." PROVE FALSE
          <6>1. j + 1 # i
            BY <1>1, <5>2, <5>4
          <6>2. j + 2 \in 1..i /\ j < n - 1
            BY <1>1, <1>2, <4>1, <6>1
          <6>3. j \in Dotted(s)
            BY <1>2, <4>1, <5>1, <5>4, <6>2 DEF Dotted
          <6> QED
            BY <4>2, <6>3
        <5>5. j \notin Dotted(t)
          BY <4>1, <5>4 DEF Dotted
        <5> QED
          BY <5>3, <5>5
      <4>7. t[j] \in Slashes => b[j + 1] = j + 1
        BY <1>2, <1>4, <4>1, <4>4, AfterOrdinary
      <4>5. g[j] = Cons(s[j], g[j + 1])
        BY <1>2, <1>4, <4>1, <4>7, FromAt
      <4> QED
        BY <4>1, <4>3, <4>5
    <3> QED
      BY <3>1, <3>2
  <2>2. 1 \in Int /\ i \in Int
    BY <1>1
  <2>3. \A j \in 1..i : j \in S
    <3> HIDE DEF S
    <3> QED
      BY <2>1, <2>2, Downward
  <2> QED
    BY <2>3
<1>10. RemoveDoubleDots(t) = RemoveDoubleDots(s)
  <2>1. 1 \in 1..i
    BY <1>1
  <2> QED
    BY <1>3, <1>4, <1>9, <2>1
<1> USE DEF t, w
<1> QED
  BY <1>10

\* One step of rewriting shortens a path, and the pass makes the same of it.
LEMMA ShortenedIs ==
    ASSUME NEW s \in Text
    PROVE  /\ Shortened(s) \in Text
           /\ RemoveDoubleDots(Shortened(s)) = RemoveDoubleDots(s)
           /\ Doubled(s) \cup Dotted(s) # {} => Len(Shortened(s)) < Len(s)
           /\ Doubled(s) \cup Dotted(s) = {} => Shortened(s) = s
<1>1. CASE Doubled(s) \cup Dotted(s) = {}
  BY <1>1 DEF Shortened
<1>2. CASE Doubled(s) \cup Dotted(s) # {}
  <2> DEFINE B == Doubled(s) \cup Dotted(s)
             i == First(s)
             w == Width(s, i)
  <2>1. i \in B /\ \A j \in B : i <= j
    <3>1. B \subseteq Nat /\ B # {}
      BY <1>2 DEF Doubled, Dotted, Text
    <3> HIDE DEF B
    <3>2. \E k \in B : \A j \in B : k <= j
      BY <3>1, LeastNumber
    <3> USE DEF B
    <3> QED
      BY <3>2 DEF First
  <2> HIDE DEF i
  <2>2. /\ i \in 1..Len(s) /\ w \in {1, 2} /\ i + w <= Len(s) /\ Len(s) \in Nat
    BY <2>1 DEF Width, Doubled, Dotted, Text
  <2>3. Shortened(s) = Without(s, i, w)
    BY <1>2 DEF Shortened, i
  <2>4. RemoveDoubleDots(Without(s, i, w)) = RemoveDoubleDots(s)
    BY <2>1, FirstTakenOut
  <2> HIDE DEF w
  <2>5. Without(s, i, w) \in Text /\ Len(Without(s, i, w)) = Len(s) - w
    BY <2>2, WithoutIs
  <2>6. Len(s) - w < Len(s)
    BY <2>2
  <2> QED
    BY <1>2, <2>3, <2>4, <2>5, <2>6
<1> QED
  BY <1>1, <1>2

\* remove_double_dots_and_double_slashes reads and writes one buffer in one
\* pass, and makes of every path what rewriting makes of it.
THEOREM PathTheorem ==
    ASSUME NEW s \in Text
    PROVE  RemoveDoubleDots(s) = Rewritten(s) /\ Rewritten(s) \in Text
           /\ Doubled(Rewritten(s)) \cup Dotted(Rewritten(s)) = {}
<1> DEFINE n == Len(s)
<1>1. n \in Nat
  BY DEF Text
<1> DEFINE rest[k \in 0..n] == IF k = 0 THEN s ELSE Shortened(rest[k - 1])
<1>2. Rewritten(s) = rest[n]
  BY Zenon DEF Rewritten
<1>3. \E f : f = [k \in 0..n |-> IF k = 0 THEN s ELSE Shortened(f[k - 1])]
  <2> DEFINE step == [k \in 1..n |-> [v \in Text |-> Shortened(v)]]
  <2>1. step \in [1..n -> [Text -> Text]]
    BY ShortenedIs
  <2>2. \A k \in 1..n, v \in Text : step[k][v] = Shortened(v)
    OBVIOUS
  <2> HIDE DEF step, n
  <2>3. PICK f : Up(f, n, Text, s, step)
    BY <1>1, <2>1, RecursionUp
  <2>4. ASSUME NEW k \in 0..n PROVE f[k] = IF k = 0 THEN s ELSE Shortened(f[k - 1])
    <3>1. CASE k = 0
      BY <2>3, <3>1 DEF Up
    <3>2. CASE k # 0
      <4>1. k \in 1..n /\ k - 1 \in 0..n
        BY <1>1, <3>2
      <4>2. f[k] = step[k][f[k - 1]] /\ f[k - 1] \in Text
        BY <2>3, <3>2, <4>1 DEF Up
      <4> QED
        BY <2>2, <3>2, <4>1, <4>2
    <3> QED
      BY <3>1, <3>2
  <2>5. f = [k \in 0..n |-> f[k]]
    BY <2>3 DEF Up
  <2> QED
    BY <2>4, <2>5
<1>4. rest = [k \in 0..n |-> IF k = 0 THEN s ELSE Shortened(rest[k - 1])]
  BY <1>3
<1> HIDE DEF rest
<1> DEFINE Good(k) == /\ rest[k] \in Text
                      /\ RemoveDoubleDots(rest[k]) = RemoveDoubleDots(s)
                      /\ Doubled(rest[k]) \cup Dotted(rest[k]) # {} => Len(rest[k]) <= n - k
           S == {k \in Nat : k <= n => Good(k)}
<1>5. 0 \in S
  <2>1. rest[0] = s
    BY <1>1, <1>4
  <2>2. Good(0)
    BY <1>1, <2>1
  <2> HIDE DEF Good
  <2> QED
    BY <2>2
<1>6. ASSUME NEW k \in Nat, k \in S PROVE k + 1 \in S
  <2> SUFFICES ASSUME k + 1 <= n PROVE Good(k + 1)
    OBVIOUS
  <2>1. Good(k)
    BY <1>1, <1>6
  <2> DEFINE t == rest[k]
  <2>2. rest[k + 1] = Shortened(t)
    <3>1. k + 1 \in 0..n /\ k + 1 # 0 /\ (k + 1) - 1 = k
      BY <1>1
    <3> QED
      BY <1>4, <3>1
  <2> HIDE DEF t
  <2>3. /\ t \in Text
        /\ RemoveDoubleDots(t) = RemoveDoubleDots(s)
        /\ Doubled(t) \cup Dotted(t) # {} => Len(t) <= n - k
    BY <2>1 DEF t
  <2>4. /\ Shortened(t) \in Text
        /\ RemoveDoubleDots(Shortened(t)) = RemoveDoubleDots(s)
        /\ Doubled(t) \cup Dotted(t) # {} => Len(Shortened(t)) < Len(t)
        /\ Doubled(t) \cup Dotted(t) = {} => Shortened(t) = t
    BY <2>3, ShortenedIs
  <2>5. Doubled(Shortened(t)) \cup Dotted(Shortened(t)) # {} => Len(Shortened(t)) <= n - (k + 1)
    <3>1. Len(t) \in Nat /\ Len(Shortened(t)) \in Nat
      BY <2>3, <2>4 DEF Text
    <3>2. CASE Doubled(t) \cup Dotted(t) = {}
      BY <2>4, <3>2
    <3>3. CASE Doubled(t) \cup Dotted(t) # {}
      BY <1>1, <2>3, <2>4, <3>1, <3>3
    <3> QED
      BY <3>2, <3>3
  <2> QED
    BY <2>2, <2>4, <2>5
<1>7. \A k \in Nat : k \in S
  <2> HIDE DEF S
  <2> QED
    BY <1>5, <1>6, Induction
<1>8. Good(n)
  BY <1>1, <1>7
<1> DEFINE t == rest[n]
<1>9. /\ t \in Text
      /\ RemoveDoubleDots(t) = RemoveDoubleDots(s)
      /\ Doubled(t) \cup Dotted(t) # {} => Len(t) <= n - n
  BY <1>8
<1> HIDE DEF t
<1>10. Doubled(t) \cup Dotted(t) = {}
  <2>1. Len(t) \in Nat /\ (Len(t) = 0 => DOMAIN t = {})
    BY <1>9 DEF Text
  <2>2. Len(t) = 0 => Doubled(t) \cup Dotted(t) = {}
    BY <2>1 DEF Doubled, Dotted
  <2> QED
    BY <1>1, <1>9, <2>1, <2>2
<1>11. RemoveDoubleDots(t) = t
  BY <1>9, <1>10, OrdinaryPath
<1> QED
  BY <1>2, <1>9, <1>10, <1>11 DEF t

-----------------------------------------------------------------------------
(* The head of a request.                                                   *)

\* How many symbols at the beginning of a text are in a set,
LEMMA SpanBound ==
    ASSUME NEW s \in Text, NEW D
    PROVE  Span(s, D) \in 0..Len(s)
<1>1. Len(s) \in Nat /\ DOMAIN s = 1..Len(s)
  BY DEF Text
<1>2. CASE \A i \in DOMAIN s : s[i] \in D
  BY <1>1, <1>2 DEF Span
<1>3. CASE \E i \in DOMAIN s : s[i] \notin D
  <2> DEFINE B == {i \in DOMAIN s : s[i] \notin D}
  <2>1. PICK k \in B : \A i \in B : k <= i
    <3>1. B \subseteq Nat /\ B # {}
      BY <1>1, <1>3
    <3> HIDE DEF B
    <3> QED
      BY <3>1, LeastNumber
  <2>2. k \in DOMAIN s /\ s[k] \notin D /\ \A j \in 1..(k - 1) : s[j] \in D
    BY <1>1, <2>1
  <2> DEFINE c == CHOOSE i \in DOMAIN s : s[i] \notin D /\ \A j \in 1..(i - 1) : s[j] \in D
  <2>3. c \in DOMAIN s
    BY <2>2
  <2>4. Span(s, D) = c - 1
    BY <1>3 DEF Span
  <2> HIDE DEF c
  <2> QED
    BY <1>1, <2>3, <2>4
<1> QED
  BY <1>2, <1>3

\* and which number it is.
LEMMA SpanIs ==
    ASSUME NEW s \in Text, NEW D, NEW e \in 0..Len(s), \A j \in 1..e : s[j] \in D,
           e = Len(s) \/ s[e + 1] \notin D
    PROVE  Span(s, D) = e
<1>1. Len(s) \in Nat /\ e \in Nat
  BY DEF Text
<1>2. CASE e = Len(s)
  BY <1>1, <1>2 DEF Span
<1>3. CASE e # Len(s)
  <2>1. e + 1 \in DOMAIN s /\ s[e + 1] \notin D /\ \A j \in 1..((e + 1) - 1) : s[j] \in D
    <3>1. e + 1 \in DOMAIN s /\ (e + 1) - 1 = e
      BY <1>1, <1>3
    <3>2. s[e + 1] \notin D
      BY <1>3
    <3> QED
      BY <3>1, <3>2
  <2> DEFINE c == CHOOSE i \in DOMAIN s : s[i] \notin D /\ \A j \in 1..(i - 1) : s[j] \in D
  <2>2. c \in DOMAIN s /\ s[c] \notin D /\ \A j \in 1..(c - 1) : s[j] \in D
    BY <2>1
  <2>3. Span(s, D) = c - 1
    BY <2>1 DEF Span
  <2> HIDE DEF c
  <2>4. c \in 1..Len(s)
    BY <1>1, <2>2
  <2>5. ASSUME c < e + 1 PROVE FALSE
    <3>1. c \in 1..e
      BY <1>1, <2>4, <2>5
    <3> QED
      BY <2>2, <3>1
  <2>6. ASSUME c > e + 1 PROVE FALSE
    <3>1. e + 1 \in 1..(c - 1)
      BY <1>1, <2>4, <2>6
    <3> QED
      BY <2>1, <2>2, <3>1
  <2> QED
    BY <1>1, <2>3, <2>4, <2>5, <2>6
<1> QED
  BY <1>2, <1>3

\* A scan ends in the text or at its end.
LEMMA UntilBound ==
    ASSUME NEW s \in Text, NEW D
    PROVE  Until(s, D) \in 0..Len(s)
  BY SpanBound DEF Until

\* Where no stop is before e, and one behind it, a scan ends.
LEMMA UntilIs ==
    ASSUME NEW s \in Text, NEW D, NEW e \in 0..Len(s), \A j \in 1..e : s[j] \notin D,
           e = Len(s) \/ s[e + 1] \in D
    PROVE  Until(s, D) = e
<1> DEFINE C == {s[i] : i \in DOMAIN s} \ D
<1>1. Len(s) \in Nat /\ e \in Nat
  BY DEF Text
<1>2. ASSUME NEW j \in 1..e PROVE s[j] \in C
  <2>1. j \in DOMAIN s /\ s[j] \notin D
    BY <1>1
  <2> QED
    BY <2>1
<1>3. e = Len(s) \/ s[e + 1] \notin C
  BY <1>1
<1> HIDE DEF C
<1>4. Span(s, C) = e
  BY <1>2, <1>3, SpanIs
<1> QED
  BY <1>4 DEF Until, C

\* The word that is cut off and what is left are texts,
LEMMA SkipQuotedIsText ==
    ASSUME NEW s \in Text, NEW D, NEW W
    PROVE  SkipQuoted(s, D, W).word \in Text /\ SkipQuoted(s, D, W).rest \in Text
<1> DEFINE e == Until(s, D)
           behind == Rest(s, e + 1)
<1>1. e \in 0..Len(s) /\ Len(s) \in Nat
  BY UntilBound DEF Text
<1> HIDE DEF e
<1>2. behind \in Text
  BY <1>1 DEF Rest, Text
<1> HIDE DEF behind
<1>3. Rest(behind, Span(behind, W)) \in Text
  <2>1. Span(behind, W) \in 0..Len(behind)
    BY <1>2, SpanBound
  <2> QED
    BY <1>2, <2>1, RestIs
<1>4. SubSeq(s, 1, e) \in Text
  BY <1>1 DEF Text
<1> QED
  BY <1>3, <1>4 DEF SkipQuoted, e, behind

\* The first delimiter is at e + 1, and the blanks behind it end at b.
CutsAt(s, D, W, e, b) ==
    /\ e \in 0..(Len(s) - 1) /\ (\A j \in 1..e : s[j] \notin D) /\ s[e + 1] \in D
    /\ b \in (e + 1)..Len(s) /\ (\A j \in (e + 2)..b : s[j] \in W) /\ (b = Len(s) \/ s[b + 1] \notin W)

\* Then the word is what is before e + 1, and what is left begins behind b.
LEMMA SkipQuotedIs ==
    ASSUME NEW s \in Text, NEW D, NEW W, NEW e, NEW b, CutsAt(s, D, W, e, b)
    PROVE  SkipQuoted(s, D, W) = [word |-> SubSeq(s, 1, e), rest |-> Rest(s, b)]
<1>0. /\ e \in 0..(Len(s) - 1) /\ (\A j \in 1..e : s[j] \notin D) /\ s[e + 1] \in D
      /\ b \in (e + 1)..Len(s) /\ (\A j \in (e + 2)..b : s[j] \in W) /\ (b = Len(s) \/ s[b + 1] \notin W)
  BY DEF CutsAt
<1> DEFINE behind == Rest(s, e + 1)
           l == b - (e + 1)
<1>1. Len(s) \in Nat /\ e \in Nat /\ b \in Nat /\ e + 1 \in 0..Len(s) /\ e \in 0..Len(s)
  BY <1>0 DEF Text
<1>2. Until(s, D) = e
  BY <1>0, <1>1, UntilIs
<1>3. behind \in Text /\ Len(behind) = Len(s) - (e + 1) /\ \A i \in 1..(Len(s) - (e + 1)) : behind[i] = s[(e + 1) + i]
  BY <1>1, RestIs
<1> HIDE DEF behind
<1>4. Span(behind, W) = l
  <2>1. l \in 0..Len(behind)
    BY <1>0, <1>1, <1>3
  <2>2. ASSUME NEW j \in 1..l PROVE behind[j] \in W
    <3>1. j \in 1..(Len(s) - (e + 1)) /\ (e + 1) + j \in (e + 2)..b
      BY <1>0, <1>1
    <3> QED
      BY <1>0, <1>3, <3>1
  <2>3. l = Len(behind) \/ behind[l + 1] \notin W
    <3>1. CASE b = Len(s)
      BY <1>1, <1>3, <3>1
    <3>2. CASE b # Len(s)
      <4>1. l + 1 \in 1..(Len(s) - (e + 1)) /\ (e + 1) + (l + 1) = b + 1
        BY <1>0, <1>1, <3>2
      <4> QED
        BY <1>0, <1>3, <3>2, <4>1
    <3> QED
      BY <3>1, <3>2
  <2> HIDE DEF l
  <2> QED
    BY <1>3, <2>1, <2>2, <2>3, SpanIs
<1>5. Rest(behind, l) = Rest(s, b)
  <2>1. l \in 0..(Len(s) - (e + 1)) /\ (e + 1) + l = b
    BY <1>0, <1>1
  <2> HIDE DEF l
  <2> QED
    BY <1>1, <2>1, RestOfRest DEF behind
<1> QED
  BY <1>2, <1>4, <1>5 DEF SkipQuoted, behind

\* Headers, and what ParseHeaders carries from one to the next.
Fields == [name : Text, value : Text]

Heads == [rest : Text, headers : Seq(Fields)]

\* A turn of parse_http_headers leaves a head.
LEMMA TakeHeaderIsHead ==
    ASSUME NEW acc \in Heads
    PROVE  TakeHeader(acc) \in Heads
<1> DEFINE name  == SkipQuoted(acc.rest, {":"}, {" "})
           value == Skip(name.rest, {"\r", "\n"})
           h     == [name |-> name.word, value |-> value.word]
<1>1. acc.rest \in Text /\ acc.headers \in Seq(Fields)
  BY DEF Heads
<1>2. name.word \in Text /\ name.rest \in Text
  BY <1>1, SkipQuotedIsText
<1>3. TakeHeader(acc) = IF name.word = <<>> THEN acc
                        ELSE [rest |-> value.rest, headers |-> Append(acc.headers, h)]
  BY DEF TakeHeader
<1> HIDE DEF name
<1>4. value.word \in Text /\ value.rest \in Text
  BY <1>2, SkipQuotedIsText DEF Skip
<1> HIDE DEF value
<1>5. h \in Fields
  BY <1>2, <1>4 DEF Fields
<1> HIDE DEF h
<1>6. Append(acc.headers, h) \in Seq(Fields)
  BY <1>1, <1>5
<1> QED
  BY <1>3, <1>4, <1>6 DEF Heads

\* What ParseHeaders chooses.
LEMMA ParseHeadersIs ==
    ASSUME NEW s \in Text, NEW max \in Nat
    PROVE  \E take : /\ take[0] = [rest |-> s, headers |-> <<>>]
                     /\ \A i \in 1..max : take[i] = TakeHeader(take[i - 1])
                     /\ ParseHeaders(s, max) = take[max].headers
<1> DEFINE base == [rest |-> s, headers |-> <<>>]
           take[i \in 0..max] ==
             IF i = 0 THEN [rest |-> s, headers |-> <<>>] ELSE TakeHeader(take[i - 1])
<1>1. ParseHeaders(s, max) = take[max].headers
  BY Zenon DEF ParseHeaders
<1>2. \E f : f = [i \in 0..max |-> IF i = 0 THEN base ELSE TakeHeader(f[i - 1])]
  <2> HIDE DEF take
  <2> DEFINE step == [i \in 1..max |-> [v \in Heads |-> TakeHeader(v)]]
  <2>1. base \in Heads
    BY DEF Heads
  <2>2. step \in [1..max -> [Heads -> Heads]]
    BY TakeHeaderIsHead
  <2>3. \A i \in 1..max, v \in Heads : step[i][v] = TakeHeader(v)
    OBVIOUS
  <2> HIDE DEF step, base
  <2>4. PICK f : Up(f, max, Heads, base, step)
    BY <2>1, <2>2, RecursionUp
  <2>5. ASSUME NEW i \in 0..max PROVE f[i] = IF i = 0 THEN base ELSE TakeHeader(f[i - 1])
    <3>1. CASE i = 0
      BY <2>4, <3>1 DEF Up
    <3>2. CASE i # 0
      <4>1. i \in 1..max /\ i - 1 \in 0..max
        BY <3>2
      <4>2. f[i] = step[i][f[i - 1]] /\ f[i - 1] \in Heads
        BY <2>4, <3>2, <4>1 DEF Up
      <4> QED
        BY <2>3, <3>2, <4>1, <4>2
    <3> QED
      BY <3>1, <3>2
  <2>6. f = [i \in 0..max |-> f[i]]
    BY <2>4 DEF Up
  <2> QED
    BY <2>5, <2>6
<1>3. take = [i \in 0..max |-> IF i = 0 THEN base ELSE TakeHeader(take[i - 1])]
  BY <1>2
<1> HIDE DEF take
<1>4. take[0] = base
  BY <1>3
<1>5. ASSUME NEW i \in 1..max PROVE take[i] = TakeHeader(take[i - 1])
  <2>1. i \in 0..max /\ i # 0
    OBVIOUS
  <2> QED
    BY <1>3, <2>1
<1> QED
  BY <1>1, <1>4, <1>5

\* Two texts behind each other.
LEMMA JoinIs ==
    ASSUME NEW u \in Text, NEW v \in Text
    PROVE  /\ u \o v \in Text
           /\ Len(u \o v) = Len(u) + Len(v)
           /\ \A i \in 1..(Len(u) + Len(v)) : (u \o v)[i] = IF i <= Len(u) THEN u[i] ELSE v[i - Len(u)]
           /\ Len(u) \in Nat /\ Len(v) \in Nat
<1>1. u \in Seq(Symbol) /\ v \in Seq(Symbol)
  BY DEF Text
<1> QED
  BY <1>1, ConcatProperties DEF Text

\* A word is cut off at the first delimiter behind it, and the blanks go.
IsWord(w, D) == \A i \in 1..Len(w) : w[i] \notin D

IsBlank(b, W) == \A i \in 1..Len(b) : b[i] \in W

BlanksEnd(t, W) == t = <<>> \/ t[1] \notin W

\* SkipQuoted cuts a word, its stop, and the blanks behind it.
LEMMA Cut ==
    ASSUME NEW D, NEW W, NEW w \in Text, IsWord(w, D), NEW d \in Symbol, d \in D,
           NEW b \in Text, IsBlank(b, W), NEW t \in Text, BlanksEnd(t, W)
    PROVE  SkipQuoted(w \o Cons(d, b \o t), D, W) = [word |-> w, rest |-> t]
<1> DEFINE v == b \o t
           c == Cons(d, v)
           s == w \o c
           e == Len(w)
           f == (e + 1) + Len(b)
<1>1. /\ v \in Text /\ Len(v) = Len(b) + Len(t)
      /\ \A i \in 1..(Len(b) + Len(t)) : v[i] = IF i <= Len(b) THEN b[i] ELSE t[i - Len(b)]
      /\ Len(b) \in Nat /\ Len(t) \in Nat /\ Len(w) \in Nat
  BY JoinIs
<1> HIDE DEF v
<1>2. /\ c \in Text /\ Len(c) = 1 + Len(v) /\ c[1] = d
      /\ \A i \in 1..Len(v) : c[1 + i] = v[i]
  <2>1. <<d>> \in Text /\ Len(<<d>>) = 1 /\ <<d>>[1] = d
    BY DEF Text
  <2> DEFINE u == <<d>>
  <2> HIDE DEF u
  <2>2. /\ u \o v \in Text /\ Len(u \o v) = Len(u) + Len(v)
        /\ \A i \in 1..(Len(u) + Len(v)) : (u \o v)[i] = IF i <= Len(u) THEN u[i] ELSE v[i - Len(u)]
    BY <1>1, <2>1, JoinIs DEF u
  <2>3. c = u \o v
    BY DEF Cons, u
  <2>4. Len(u) = 1 /\ u[1] = d
    BY <2>1 DEF u
  <2> HIDE DEF c
  <2> QED
    BY <1>1, <2>2, <2>3, <2>4
<1> HIDE DEF c
<1>3. /\ s \in Text /\ Len(s) = e + Len(c)
      /\ \A i \in 1..(e + Len(c)) : s[i] = IF i <= e THEN w[i] ELSE c[i - e]
  BY <1>2, JoinIs
<1> HIDE DEF s
<1>4. \A j \in 1..e : s[j] \notin D
  <2> SUFFICES ASSUME NEW j \in 1..e PROVE s[j] \notin D
    OBVIOUS
  <2>1. s[j] = w[j]
    BY <1>1, <1>2, <1>3
  <2> QED
    BY <2>1 DEF IsWord
<1>5. s[e + 1] \in D
  <2>1. s[e + 1] = c[1]
    BY <1>1, <1>2, <1>3
  <2> QED
    BY <1>2, <2>1
<1>6. ASSUME NEW j \in 1..Len(v) PROVE s[(e + 1) + j] = v[j]
  <2>1. s[(e + 1) + j] = c[1 + j]
    BY <1>1, <1>2, <1>3
  <2> QED
    BY <1>2, <2>1
<1>7. \A j \in (e + 2)..f : s[j] \in W
  <2> SUFFICES ASSUME NEW j \in (e + 2)..f PROVE s[j] \in W
    OBVIOUS
  <2>1. j - (e + 1) \in 1..Len(b) /\ j - (e + 1) \in 1..Len(v) /\ (e + 1) + (j - (e + 1)) = j
    BY <1>1
  <2>2. s[j] = b[j - (e + 1)]
    BY <1>1, <1>6, <2>1
  <2> QED
    BY <2>1, <2>2 DEF IsBlank
<1>8. f = Len(s) \/ s[f + 1] \notin W
  <2>1. CASE t = <<>>
    <3>1. Len(t) = 0
      BY <2>1
    <3> QED
      BY <1>1, <1>2, <1>3, <3>1
  <2>2. CASE Len(t) > 0 /\ t[1] \notin W
    <3>1. Len(b) + 1 \in 1..Len(v) /\ (e + 1) + (Len(b) + 1) = f + 1 /\ (Len(b) + 1) - Len(b) = 1
          /\ ~(Len(b) + 1 <= Len(b))
      BY <1>1, <2>2
    <3>2. s[f + 1] = t[1]
      BY <1>1, <1>6, <3>1
    <3> QED
      BY <2>2, <3>2
  <2>3. t = <<>> \/ (Len(t) > 0 /\ t[1] \notin W)
    BY DEF Text, BlanksEnd
  <2> QED
    BY <2>1, <2>2, <2>3
<1>9. SkipQuoted(s, D, W) = [word |-> SubSeq(s, 1, e), rest |-> Rest(s, f)]
  <2>1. e \in 0..(Len(s) - 1) /\ f \in (e + 1)..Len(s)
    BY <1>1, <1>2, <1>3
  <2>2. s \in Text
    BY <1>3
  <2>3. CutsAt(s, D, W, e, f)
    <3> HIDE DEF e, f
    <3> QED
      BY <1>4, <1>5, <1>7, <1>8, <2>1 DEF CutsAt
  <2> QED
    BY <2>2, <2>3, SkipQuotedIs
<1>10. SubSeq(s, 1, e) = w
  <2> DEFINE x == SubSeq(s, 1, e)
  <2>1. x \in Text /\ Len(x) = e /\ \A i \in 1..e : x[i] = s[i]
    BY <1>1, <1>2, <1>3 DEF Text
  <2>2. \A i \in 1..e : s[i] = w[i]
    BY <1>1, <1>2, <1>3
  <2>3. x \in Seq(Symbol) /\ w \in Seq(Symbol)
    BY <2>1 DEF Text
  <2> HIDE DEF x
  <2>4. x = w
    BY <2>1, <2>2, <2>3, SeqEqual
  <2> QED
    BY <2>4 DEF x
<1>11. Rest(s, f) = t
  <2> DEFINE x == Rest(s, f)
  <2>1. f \in 0..Len(s) /\ Len(s) - f = Len(t)
    BY <1>1, <1>2, <1>3
  <2>2. x \in Text /\ Len(x) = Len(s) - f /\ \A i \in 1..(Len(s) - f) : x[i] = s[f + i]
    BY <1>3, <2>1, RestIs
  <2>3. ASSUME NEW i \in 1..Len(t) PROVE s[f + i] = t[i]
    <3>1. Len(b) + i \in 1..Len(v) /\ (e + 1) + (Len(b) + i) = f + i /\ (Len(b) + i) - Len(b) = i
          /\ ~(Len(b) + i <= Len(b))
      BY <1>1
    <3> QED
      BY <1>1, <1>6, <3>1
  <2>4. x \in Seq(Symbol) /\ t \in Seq(Symbol)
    BY <2>2 DEF Text
  <2> HIDE DEF x
  <2>5. x = t
    BY <2>1, <2>2, <2>3, <2>4, SeqEqual
  <2> QED
    BY <2>5 DEF x
<1> QED
  BY <1>9, <1>10, <1>11 DEF s, c, v
\* One symbol in front of a text.
LEMMA ConsIs ==
    ASSUME NEW c \in Symbol, NEW t \in Text
    PROVE  Cons(c, t) \in Text /\ Cons(c, t) # <<>> /\ Cons(c, t)[1] = c
<1> DEFINE u == <<c>>
<1>1. u \in Text /\ Len(u) = 1 /\ u[1] = c
  BY DEF Text
<1> HIDE DEF u
<1> DEFINE v == u \o t
<1>2. /\ v \in Text /\ Len(v) = Len(u) + Len(t)
      /\ \A i \in 1..(Len(u) + Len(t)) : v[i] = IF i <= Len(u) THEN u[i] ELSE t[i - Len(u)]
      /\ Len(t) \in Nat
  BY <1>1, JoinIs
<1> HIDE DEF v
<1>3. 1 \in 1..(Len(u) + Len(t)) /\ 1 <= Len(u) /\ Len(v) # 0
  BY <1>1, <1>2
<1>4. v[1] = c
  BY <1>1, <1>2, <1>3
<1>5. v # <<>>
  BY <1>3
<1> QED
  BY <1>2, <1>4, <1>5 DEF Cons, u, v

\* A text of two symbols.
LEMMA PairIs ==
    ASSUME NEW x \in Symbol, NEW d \in Symbol
    PROVE  <<x, d>> = Cons(x, <<d>>)
<1> DEFINE b == <<x, d>>
           y == <<x>>
           z == <<d>>
           v == y \o z
<1>1. y \in Text /\ z \in Text /\ Len(y) = 1 /\ Len(z) = 1 /\ y[1] = x /\ z[1] = d
  BY DEF Text
<1> HIDE DEF y, z
<1>2. /\ v \in Text /\ Len(v) = Len(y) + Len(z)
      /\ \A i \in 1..(Len(y) + Len(z)) : v[i] = IF i <= Len(y) THEN y[i] ELSE z[i - Len(y)]
  BY <1>1, JoinIs
<1> HIDE DEF v
<1>3. Len(v) = 2 /\ v[1] = x /\ v[2] = d
  BY <1>1, <1>2
<1>4. Len(b) = 2 /\ b[1] = x /\ b[2] = d
  OBVIOUS
<1>5. v \in Seq(Symbol) /\ b \in Seq(Symbol)
  BY <1>2 DEF Text
<1> HIDE DEF b
<1>6. \A i \in 1..Len(v) : v[i] = b[i]
  BY <1>3, <1>4
<1>7. v = b
  BY <1>3, <1>4, <1>5, <1>6, SeqEqual
<1> QED
  BY <1>7 DEF Cons, v, y, z, b

\* One of four.
LEMMA FourIs ==
    ASSUME NEW a \in Symbol, NEW b \in Symbol, NEW c \in Symbol, NEW d \in Symbol
    PROVE  <<a, b, c, d>> = Cons(a, Cons(b, <<c, d>>))
<1> DEFINE f == <<a, b, c, d>>
           y == <<a>>
           z == <<b>>
           u == <<c, d>>
           v == z \o u
           w == y \o v
<1>1. /\ y \in Text /\ z \in Text /\ u \in Text /\ Len(y) = 1 /\ Len(z) = 1 /\ Len(u) = 2
      /\ y[1] = a /\ z[1] = b /\ u[1] = c /\ u[2] = d
  BY DEF Text
<1> HIDE DEF y, z, u
<1>2. /\ v \in Text /\ Len(v) = Len(z) + Len(u)
      /\ \A i \in 1..(Len(z) + Len(u)) : v[i] = IF i <= Len(z) THEN z[i] ELSE u[i - Len(z)]
  BY <1>1, JoinIs
<1> HIDE DEF v
<1>3. Len(v) = 3 /\ v[1] = b /\ v[2] = c /\ v[3] = d
  BY <1>1, <1>2
<1>4. /\ w \in Text /\ Len(w) = Len(y) + Len(v)
      /\ \A i \in 1..(Len(y) + Len(v)) : w[i] = IF i <= Len(y) THEN y[i] ELSE v[i - Len(y)]
  BY <1>1, <1>2, JoinIs
<1> HIDE DEF w
<1>5. Len(w) = 4 /\ w[1] = a /\ w[2] = b /\ w[3] = c /\ w[4] = d
  BY <1>1, <1>3, <1>4
<1>6. Len(f) = 4 /\ f[1] = a /\ f[2] = b /\ f[3] = c /\ f[4] = d
  OBVIOUS
<1>7. w \in Seq(Symbol) /\ f \in Seq(Symbol)
  BY <1>4 DEF Text
<1> HIDE DEF f
<1>8. \A i \in 1..Len(w) : w[i] = f[i]
  BY <1>5, <1>6
<1>9. w = f
  BY <1>5, <1>6, <1>7, <1>8, SeqEqual
<1> QED
  BY <1>9 DEF Cons, v, w, y, z, u, f

\* What is joined to a text with a symbol in front.
LEMMA ConsJoin ==
    ASSUME NEW c \in Symbol, NEW s \in Text, NEW t \in Text
    PROVE  Cons(c, s) \o t = Cons(c, s \o t)
<1>1. <<c>> \in Seq(Symbol) /\ s \in Seq(Symbol) /\ t \in Seq(Symbol)
  BY DEF Text
<1> DEFINE u == <<c>>
<1> HIDE DEF u
<1>2. (u \o s) \o t = u \o (s \o t)
  BY <1>1, ConcatAssociative DEF u
<1> QED
  BY <1>2 DEF Cons, u

\* Six symbols in two tuples, in front of a text.
LEMMA SixIs ==
    ASSUME NEW a \in Symbol, NEW b \in Symbol, NEW c \in Symbol, NEW d \in Symbol,
           NEW e \in Symbol, NEW f \in Symbol, NEW t \in Text
    PROVE  /\ <<a, b, c, d>> \o <<e, f>> \in Text
           /\ (<<a, b, c, d>> \o <<e, f>>) \o t = Cons(a, Cons(b, Cons(c, Cons(d, Cons(e, Cons(f, t))))))
<1> DEFINE y == <<d>>
           z == <<f>>
           line == Cons(e, z)
           pair == Cons(c, y)
           two == Cons(b, pair)
           all == Cons(a, two)
<1>1. y \in Text /\ z \in Text
  BY DEF Text
<1>2. y \o (line \o t) = Cons(d, line \o t)
  BY DEF Cons
<1>14. z \o t = Cons(f, t)
  BY DEF Cons
<1>3. <<e, f>> = line
  BY PairIs
<1>4. <<a, b, c, d>> = all
  <2>1. <<c, d>> = pair
    BY PairIs
  <2>2. <<a, b, c, d>> = Cons(a, Cons(b, <<c, d>>))
    BY FourIs
  <2> QED
    BY <2>1, <2>2
<1> HIDE DEF y, z
<1>5. line \in Text /\ pair \in Text
  BY <1>1, ConsIs
<1>6. two \in Text
  BY <1>5, ConsIs
<1>7. all \in Text
  BY <1>6, ConsIs
<1>8. line \o t = Cons(e, Cons(f, t))
  <2>1. line \o t = Cons(e, z \o t)
    BY <1>1, ConsJoin
  <2> QED
    BY <1>14, <2>1
<1> DEFINE u == line \o t
<1>9. (all \o line) \o t = all \o u /\ all \o line \in Text /\ u \in Text
  <2>1. all \in Seq(Symbol) /\ line \in Seq(Symbol) /\ t \in Seq(Symbol)
    BY <1>5, <1>7 DEF Text
  <2> HIDE DEF all, line
  <2> QED
    BY <2>1, ConcatAssociative, ConcatProperties DEF Text
<1> HIDE DEF u
<1>10. pair \o u = Cons(c, y \o u)
  BY <1>1, <1>9, ConsJoin
<1> HIDE DEF pair
<1>11. two \o u = Cons(b, pair \o u)
  BY <1>5, <1>9, ConsJoin
<1> HIDE DEF two
<1>12. all \o u = Cons(a, two \o u)
  BY <1>6, <1>9, ConsJoin
<1> HIDE DEF all, line
<1>13. all \o u = Cons(a, Cons(b, Cons(c, Cons(d, u))))
  BY <1>2, <1>10, <1>11, <1>12 DEF u
<1> QED
  BY <1>3, <1>4, <1>8, <1>9, <1>13 DEF u

\* A word of one symbol, and one blank behind it or none.
LEMMA CutSymbol ==
    ASSUME NEW D, NEW W, NEW w \in Symbol, w \notin D, NEW d \in Symbol, d \in D,
           NEW t \in Text, BlanksEnd(t, W)
    PROVE  /\ SkipQuoted(Cons(w, Cons(d, t)), D, W) = [word |-> <<w>>, rest |-> t]
           /\ \A b \in Symbol : b \in W =>
                SkipQuoted(Cons(w, Cons(d, Cons(b, t))), D, W) = [word |-> <<w>>, rest |-> t]
<1> DEFINE u == <<w>>
<1>1. u \in Text /\ IsWord(u, D)
  BY DEF Text, IsWord
<1>2. SkipQuoted(Cons(w, Cons(d, t)), D, W) = [word |-> <<w>>, rest |-> t]
  <2> DEFINE b == <<>>
  <2>1. b \in Text /\ IsBlank(b, W)
    BY DEF Text, IsBlank
  <2>2. b \o t = t
    <3>1. t \in Seq(Symbol)
      BY DEF Text
    <3> QED
      BY <3>1, ConcatEmptySeq
  <2> HIDE DEF b, u
  <2>3. SkipQuoted(u \o Cons(d, b \o t), D, W) = [word |-> u, rest |-> t]
    BY <1>1, <2>1, Cut
  <2> QED
    BY <2>2, <2>3 DEF Cons, u
<1>3. ASSUME NEW x \in Symbol, x \in W
      PROVE  SkipQuoted(Cons(w, Cons(d, Cons(x, t))), D, W) = [word |-> <<w>>, rest |-> t]
  <2> DEFINE b == <<x>>
  <2>1. b \in Text /\ IsBlank(b, W)
    BY <1>3 DEF Text, IsBlank
  <2>2. b \o t = Cons(x, t)
    BY DEF Cons
  <2> HIDE DEF b, u
  <2>3. SkipQuoted(u \o Cons(d, b \o t), D, W) = [word |-> u, rest |-> t]
    BY <1>1, <2>1, Cut
  <2> QED
    BY <2>2, <2>3 DEF Cons, u
<1> QED
  BY <1>2, <1>3

\* A word of one symbol, with two blanks and nothing else behind it.
LEMMA CutLast ==
    ASSUME NEW W, NEW w \in Symbol, w \notin W, NEW d \in Symbol, d \in W, NEW x \in Symbol, x \in W
    PROVE  SkipQuoted(Cons(w, Cons(d, Cons(x, <<d>>))), W, W) = [word |-> <<w>>, rest |-> <<>>]
<1> DEFINE u == <<w>>
           b == <<x, d>>
           e == <<>>
<1>1. u \in Text /\ IsWord(u, W)
  BY DEF Text, IsWord
<1>2. b \in Text /\ IsBlank(b, W)
  BY DEF Text, IsBlank
<1>3. e \in Text /\ BlanksEnd(e, W)
  BY DEF Text, BlanksEnd
<1>4. b \o e = b
  <2>1. b \in Seq(Symbol)
    BY <1>2 DEF Text
  <2> QED
    BY <2>1, ConcatEmptySeq
<1>5. b = Cons(x, <<d>>)
  BY PairIs
<1> HIDE DEF u, b, e
<1>6. SkipQuoted(u \o Cons(d, b \o e), W, W) = [word |-> u, rest |-> e]
  BY <1>1, <1>2, <1>3, Cut
<1> QED
  BY <1>4, <1>5, <1>6 DEF Cons, u, e

\* One header is taken from the head of a request.  Behind it is the next, or
\* the "\r" of the last line, which is taken for a blank.
LineEnds == {"\r", "\n"}

Return == <<"\r">>

Left(t) == IF t = Return THEN <<>> ELSE t

IsName(name) == name \in Symbol /\ name # ":" /\ name \notin LineEnds

IsValue(value) == value \in Symbol /\ value # " " /\ value \notin LineEnds

Lines(name, value, t) == Cons(name, Cons(":", Cons(" ", Cons(value, Cons("\r", Cons("\n", t))))))

Taken(rest, headers) == [rest |-> rest, headers |-> headers]

Pair(name, value) == [name |-> <<name>>, value |-> <<value>>]

\* The symbols that part a head.
LEMMA Blanks ==
    /\ ":" \in Symbol /\ " " \in Symbol /\ "\r" \in Symbol /\ "\n" \in Symbol
    /\ "\r" \in LineEnds /\ "\n" \in LineEnds
  BY DEF Symbol, Named, LineEnds

\* Its name is cut off,
LEMMA CutName ==
    ASSUME NEW name \in Symbol, NEW colon \in Symbol, name # colon, NEW space \in Symbol,
           NEW r \in Text, BlanksEnd(r, {space})
    PROVE  SkipQuoted(Cons(name, Cons(colon, Cons(space, r))), {colon}, {space})
             = [word |-> <<name>>, rest |-> r]
<1> DEFINE D == {colon}
           W == {space}
<1>1. name \notin D /\ colon \in D /\ space \in W
  OBVIOUS
<1>2. BlanksEnd(r, W)
  OBVIOUS
<1> HIDE DEF D, W
<1>3. SkipQuoted(Cons(name, Cons(colon, Cons(space, r))), D, W) = [word |-> <<name>>, rest |-> r]
  BY <1>1, <1>2, CutSymbol
<1> QED
  BY <1>3 DEF D, W

\* and then its value.
LEMMA CutValue ==
    ASSUME NEW value \in Symbol, value \notin LineEnds, NEW t \in Text, t = Return \/ BlanksEnd(t, LineEnds)
    PROVE  SkipQuoted(Cons(value, Cons("\r", Cons("\n", t))), LineEnds, LineEnds)
             = [word |-> <<value>>, rest |-> Left(t)]
<1> DEFINE cr == "\r"
           lf == "\n"
<1>1. cr \in Symbol /\ lf \in Symbol /\ cr \in LineEnds /\ lf \in LineEnds /\ Return = <<cr>>
  BY Blanks DEF Return
<1> HIDE DEF cr, lf
<1>2. CASE t = Return
  <2>1. SkipQuoted(Cons(value, Cons(cr, Cons(lf, <<cr>>))), LineEnds, LineEnds) = [word |-> <<value>>, rest |-> <<>>]
    BY <1>1, CutLast
  <2>2. Left(t) = <<>>
    BY <1>2 DEF Left
  <2> QED
    BY <1>1, <1>2, <2>1, <2>2 DEF cr, lf
<1>3. CASE t # Return
  <2>1. BlanksEnd(t, LineEnds)
    BY <1>3
  <2>2. SkipQuoted(Cons(value, Cons(cr, Cons(lf, t))), LineEnds, LineEnds) = [word |-> <<value>>, rest |-> t]
    BY <1>1, <2>1, CutSymbol
  <2>3. Left(t) = t
    BY <1>3 DEF Left
  <2> QED
    BY <2>2, <2>3 DEF cr, lf
<1> QED
  BY <1>2, <1>3

\* A turn of parse_http_headers takes the first header line, and no more.
LEMMA TakeHeaderIs ==
    ASSUME NEW name, IsName(name), NEW value, IsValue(value),
           NEW t \in Text, t = Return \/ BlanksEnd(t, LineEnds), NEW hs
    PROVE  TakeHeader(Taken(Lines(name, value, t), hs)) = Taken(Left(t), Append(hs, Pair(name, value)))
<1> DEFINE r == Cons(value, Cons("\r", Cons("\n", t)))
           s == Cons(name, Cons(":", Cons(" ", r)))
           acc == Taken(s, hs)
           first == SkipQuoted(acc.rest, {":"}, {" "})
           second == SkipQuoted(first.rest, {"\r", "\n"}, {"\r", "\n"})
<1>1. TakeHeader(acc) = IF first.word = <<>> THEN acc
                        ELSE [rest |-> second.rest,
                              headers |-> Append(acc.headers, [name |-> first.word, value |-> second.word])]
  BY DEF TakeHeader, Skip
<1>2. acc.rest = s /\ acc.headers = hs
  BY DEF Taken
<1> HIDE DEF acc
<1>3. r \in Text /\ BlanksEnd(r, {" "})
  <2>1. Cons("\n", t) \in Text
    BY Blanks, ConsIs
  <2>2. Cons("\r", Cons("\n", t)) \in Text
    BY <2>1, Blanks, ConsIs
  <2>3. r \in Text /\ r[1] = value
    BY <2>2, ConsIs DEF IsValue
  <2> QED
    BY <2>3 DEF IsValue, BlanksEnd
<1> HIDE DEF r
<1>4. SkipQuoted(s, {":"}, {" "}) = [word |-> <<name>>, rest |-> r]
  <2>1. name \in Symbol /\ name # ":"
    BY DEF IsName
  <2> QED
    BY <1>3, <2>1, Blanks, CutName
<1> HIDE DEF s
<1>5. first = [word |-> <<name>>, rest |-> r]
  BY <1>2, <1>4
<1> HIDE DEF first
<1>6. second = [word |-> <<value>>, rest |-> Left(t)]
  <2>1. SkipQuoted(r, LineEnds, LineEnds) = [word |-> <<value>>, rest |-> Left(t)]
    BY CutValue DEF IsValue, r
  <2>2. first.rest = r
    BY <1>5
  <2> QED
    BY <2>1, <2>2 DEF LineEnds
<1> HIDE DEF second
<1>7. first.word # <<>>
  BY <1>5
<1>8. TakeHeader(acc) = Taken(Left(t), Append(hs, Pair(name, value)))
  BY <1>1, <1>2, <1>5, <1>6, <1>7 DEF Taken, Pair
<1> QED
  BY <1>8 DEF Lines, acc, s, r

\* A field is there or it is not, and something is behind it.
Before(c, name, value, t) == IF c THEN Lines(name, value, t) ELSE t

IsLeft(t) == t \in Text /\ (t = Return \/ (t # <<>> /\ BlanksEnd(t, LineEnds)))

\* What header lines may stand before, they and it may stand before.
LEMMA BeforeIsLeft ==
    ASSUME NEW c \in BOOLEAN, NEW name, IsName(name), NEW value, IsValue(value), NEW t, IsLeft(t)
    PROVE  IsLeft(Before(c, name, value, t)) /\ (c => Left(Before(c, name, value, t)) = Before(c, name, value, t))
<1>1. CASE c
  <2> DEFINE s == Lines(name, value, t)
  <2>1. name \in Symbol /\ value \in Symbol /\ name \notin LineEnds /\ t \in Text
    BY DEF IsName, IsValue, IsLeft
  <2>2. Cons("\r", Cons("\n", t)) \in Text
    BY <2>1, Blanks, ConsIs
  <2>3. Cons(value, Cons("\r", Cons("\n", t))) \in Text
    BY <2>1, <2>2, ConsIs
  <2>4. Cons(":", Cons(" ", Cons(value, Cons("\r", Cons("\n", t))))) \in Text
    BY <2>3, Blanks, ConsIs
  <2>5. s \in Text /\ s # <<>> /\ s[1] = name
    BY <2>1, <2>4, ConsIs DEF Lines
  <2> HIDE DEF s
  <2>6. s # Return
    <3>1. Return[1] \in LineEnds
      BY Blanks DEF Return
    <3> QED
      BY <2>1, <2>5, <3>1
  <2>7. BlanksEnd(s, LineEnds)
    BY <2>1, <2>5 DEF BlanksEnd
  <2> QED
    BY <1>1, <2>5, <2>6, <2>7 DEF s, Before, IsLeft, Left
<1>2. CASE ~c
  BY <1>2 DEF Before
<1> QED
  BY <1>1, <1>2

\* The names in a list of headers; each has a value.
Carries(hs, names) ==
    /\ hs \in Seq(Fields)
    /\ \A i \in DOMAIN hs : hs[i].value # None /\ \E n \in names : hs[i].name = <<n>>
    /\ \A n \in names : \E i \in DOMAIN hs : hs[i].name = <<n>>

\* get_header finds the headers that were taken, and no other.
LEMMA HeaderIs ==
    ASSUME NEW names, NEW hs, Carries(hs, names), NEW name
    PROVE  Header(hs, name) # None <=> name \in names
<1> DEFINE places == {i \in DOMAIN hs : hs[i].name = <<name>>}
<1>1. /\ hs \in Seq(Fields)
      /\ \A i \in DOMAIN hs : hs[i].value # None /\ \E n \in names : hs[i].name = <<n>>
      /\ \A n \in names : \E i \in DOMAIN hs : hs[i].name = <<n>>
  BY DEF Carries
<1>2. Header(hs, name) = IF places = {} THEN None
                         ELSE hs[CHOOSE i \in places : \A j \in places : i <= j].value
  BY DEF Header
<1>3. CASE places = {}
  <2>1. name \notin names
    BY <1>1, <1>3
  <2> QED
    BY <1>2, <1>3, <2>1
<1>4. CASE places # {}
  <2>1. places \subseteq Nat
    BY <1>1
  <2> HIDE DEF places
  <2>2. \E i \in places : \A j \in places : i <= j
    BY <1>4, <2>1, LeastNumber
  <2> DEFINE m == CHOOSE i \in places : \A j \in places : i <= j
  <2>3. m \in places
    BY <2>2
  <2>4. Header(hs, name) = hs[m].value
    BY <1>2, <1>4 DEF places
  <2> HIDE DEF m
  <2>5. m \in DOMAIN hs /\ hs[m].name = <<name>>
    BY <2>3 DEF places
  <2>6. hs[m].value # None
    BY <1>1, <2>5
  <2>7. PICK n \in names : hs[m].name = <<n>>
    BY <1>1, <2>5
  <2>8. n = name
    <3>1. <<n>> = <<name>>
      BY <2>5, <2>7
    <3> QED
      BY <3>1
  <2> QED
    BY <2>4, <2>6, <2>8
<1> QED
  BY <1>3, <1>4

\* One header more is carried.
LEMMA CarriesMore ==
    ASSUME NEW names, NEW hs, Carries(hs, names), NEW name, IsName(name), NEW value, IsValue(value)
    PROVE  Carries(Append(hs, Pair(name, value)), names \cup {name})
<1> DEFINE h == Pair(name, value)
           gs == Append(hs, h)
<1>1. /\ hs \in Seq(Fields)
      /\ \A i \in DOMAIN hs : hs[i].value # None /\ \E n \in names : hs[i].name = <<n>>
      /\ \A n \in names : \E i \in DOMAIN hs : hs[i].name = <<n>>
  BY DEF Carries
<1>2. h \in Fields /\ h.value # None /\ h.name = <<name>>
  <2>1. name \in Symbol /\ value \in Symbol
    BY DEF IsName, IsValue
  <2>2. <<name>> \in Text /\ <<value>> \in Text /\ <<value>> # <<>>
    BY <2>1 DEF Text
  <2> QED
    BY <2>2 DEF Pair, Fields, None
<1> HIDE DEF h
<1>3. /\ gs \in Seq(Fields) /\ DOMAIN gs = (DOMAIN hs) \cup {Len(hs) + 1}
      /\ (\A i \in DOMAIN hs : gs[i] = hs[i]) /\ gs[Len(hs) + 1] = h
  BY <1>1, <1>2
<1> HIDE DEF gs
<1>4. ASSUME NEW i \in DOMAIN gs PROVE gs[i].value # None /\ \E n \in names \cup {name} : gs[i].name = <<n>>
  BY <1>1, <1>2, <1>3
<1>5. ASSUME NEW n \in names \cup {name} PROVE \E i \in DOMAIN gs : gs[i].name = <<n>>
  <2>1. CASE n \in names
    <3>1. PICK i \in DOMAIN hs : hs[i].name = <<n>>
      BY <1>1, <2>1
    <3> QED
      BY <1>3, <3>1
  <2>2. CASE n = name
    BY <1>2, <1>3, <2>2
  <2> QED
    BY <2>1, <2>2
<1>6. Carries(gs, names \cup {name})
  BY <1>3, <1>4, <1>5 DEF Carries
<1> QED
  BY <1>6 DEF gs, h

\* What ParseHeaders has after n headers: what is left of t, and headers of
\* these names.
Takes(take, max) == \A i \in 1..max : take[i] = TakeHeader(take[i - 1])

HasTaken(take, n, t, names) == \E hs : take[n] = Taken(Left(t), hs) /\ Carries(hs, names)

Plus(n, c) == IF c THEN n + 1 ELSE n

With(names, c, name) == IF c THEN names \cup {name} ELSE names

\* It takes a field that is there, and passes over one that is not.
LEMMA FieldIsTaken ==
    ASSUME NEW take, NEW max \in Nat, Takes(take, max), NEW n \in Nat, NEW c \in BOOLEAN, Plus(n, c) <= max,
           NEW name, IsName(name), NEW value, IsValue(value), NEW t, IsLeft(t), NEW names,
           HasTaken(take, n, Before(c, name, value, t), names)
    PROVE  HasTaken(take, Plus(n, c), t, With(names, c, name))
<1>1. PICK hs : take[n] = Taken(Left(Before(c, name, value, t)), hs) /\ Carries(hs, names)
  BY DEF HasTaken
<1>2. CASE ~c
  <2>1. take[n] = Taken(Left(t), hs)
    BY <1>1, <1>2 DEF Before
  <2> QED
    BY <1>1, <1>2, <2>1 DEF HasTaken, Plus, With
<1>3. CASE c
  <2>1. take[n] = Taken(Lines(name, value, t), hs)
    <3>1. Left(Before(c, name, value, t)) = Lines(name, value, t)
      BY <1>3, BeforeIsLeft DEF Before
    <3> QED
      BY <1>1, <3>1
  <2>2. take[n + 1] = TakeHeader(take[n])
    <3>1. n + 1 \in 1..max /\ (n + 1) - 1 = n
      BY <1>3 DEF Plus
    <3> QED
      BY <3>1 DEF Takes
  <2>3. t \in Text /\ (t = Return \/ BlanksEnd(t, LineEnds))
    BY DEF IsLeft
  <2>4. take[n + 1] = Taken(Left(t), Append(hs, Pair(name, value)))
    <3>1. TakeHeader(Taken(Lines(name, value, t), hs)) = Taken(Left(t), Append(hs, Pair(name, value)))
      BY <2>3, TakeHeaderIs
    <3> QED
      BY <2>1, <2>2, <3>1
  <2>5. Carries(Append(hs, Pair(name, value)), names \cup {name})
    BY <1>1, CarriesMore
  <2> QED
    BY <1>3, <2>4, <2>5 DEF HasTaken, Plus, With
<1> QED
  BY <1>2, <1>3

\* When nothing but the last line is left, nothing more is taken.
LEMMA AllTaken ==
    ASSUME NEW take, NEW max \in Nat, Takes(take, max), NEW n \in 0..max, NEW names,
           HasTaken(take, n, Return, names)
    PROVE  Carries(take[max].headers, names)
<1>1. PICK hs : take[n] = Taken(<<>>, hs) /\ Carries(hs, names)
  BY DEF HasTaken, Left
<1> DEFINE last == Taken(<<>>, hs)
<1>2. TakeHeader(last) = last
  <2> DEFINE name  == SkipQuoted(last.rest, {":"}, {" "})
             value == Skip(name.rest, {"\r", "\n"})
  <2>1. TakeHeader(last) = IF name.word = <<>> THEN last
                           ELSE [rest    |-> value.rest,
                                 headers |-> Append(last.headers, [name |-> name.word, value |-> value.word])]
    BY DEF TakeHeader
  <2>2. last.rest = <<>>
    BY DEF Taken
  <2> DEFINE e == Until(<<>>, {":"})
  <2>3. e = 0
    <3> DEFINE s == <<>>
    <3>1. s \in Text /\ Len(s) = 0
      BY DEF Text
    <3> HIDE DEF s
    <3>2. Until(s, {":"}) \in 0..Len(s)
      BY <3>1, UntilBound
    <3>3. Until(s, {":"}) = 0
      BY <3>1, <3>2
    <3> QED
      BY <3>3 DEF s
  <2>4. name.word = SubSeq(<<>>, 1, e)
    BY <2>2 DEF SkipQuoted
  <2> HIDE DEF e, name, value
  <2>5. name.word = <<>>
    BY <2>3, <2>4
  <2> QED
    BY <2>1, <2>5
<1> HIDE DEF last
<1> DEFINE S == {k \in Nat : n + k <= max => take[n + k] = last}
<1>3. 0 \in S
  BY <1>1 DEF last
<1>4. ASSUME NEW k \in Nat, k \in S PROVE k + 1 \in S
  <2> SUFFICES ASSUME n + (k + 1) <= max PROVE take[n + (k + 1)] = last
    OBVIOUS
  <2>1. take[n + k] = last
    BY <1>4
  <2>2. n + (k + 1) \in 1..max /\ (n + (k + 1)) - 1 = n + k
    OBVIOUS
  <2>3. take[n + (k + 1)] = TakeHeader(take[n + k])
    BY <2>2 DEF Takes
  <2> QED
    BY <1>2, <2>1, <2>3
<1>5. \A k \in Nat : k \in S
  <2> HIDE DEF S
  <2> QED
    BY <1>3, <1>4, Induction
<1>6. take[max] = last
  <2>1. max - n \in Nat /\ n + (max - n) = max
    OBVIOUS
  <2> QED
    BY <1>5, <2>1
<1> QED
  BY <1>1, <1>6 DEF last, Taken

\* The rest of parse_http_message: three words, then the headers.
IsPath(uri) == uri \in Path /\ uri # <<>>

Lead(method, uri, t) == Cons(method, Cons(" ", uri \o Cons(" ", Cons("HTTP/1.1", Cons("\r", Cons("\n", t))))))

IsCut(b, method, uri, t) ==
    LET m == Skip(b, {" "})
        u == Skip(m.rest, {" "})
        v == Skip(u.rest, {"\r", "\n"})
    IN m.word = <<method>> /\ u.word = uri /\ v.word = <<"HTTP/1.1">> /\ v.rest = t

\* The request line is cut into its three words.
LEMMA CutLead ==
    ASSUME NEW method \in Methods, NEW uri, IsPath(uri), NEW t, IsLeft(t), t # Return
    PROVE  /\ Lead(method, uri, t) \in Text /\ Len(Lead(method, uri, t)) > 0
           /\ Lead(method, uri, t)[1] \notin {" ", "\r", "\n"}
           /\ IsCut(Lead(method, uri, t), method, uri, t)
<1> DEFINE version == "HTTP/1.1"
           space == " "
           S == {" "}
           l == Cons(version, Cons("\r", Cons("\n", t)))
           k == uri \o Cons(space, l)
           b == Lead(method, uri, t)
           m == Skip(b, {" "})
           u == Skip(m.rest, {" "})
           v == Skip(u.rest, {"\r", "\n"})
           B == {" ", "\r", "\n"}
<1>1. version \in Symbol /\ version \notin LineEnds /\ version \notin S /\ space \in Symbol /\ space \in S
      /\ method \in Symbol /\ method \notin S
  BY DEF Symbol, Named, LineEnds, Methods
<1>0. method \notin B
  BY DEF Methods
<1>2. b = Cons(method, Cons(space, k))
  BY DEF Lead
<1> HIDE DEF version, space, S, B
<1>3. t \in Text /\ BlanksEnd(t, LineEnds)
  BY DEF IsLeft
<1>4. Cons("\r", Cons("\n", t)) \in Text
  BY <1>3, Blanks, ConsIs
<1>5. l \in Text /\ l # <<>> /\ l[1] = version
  BY <1>1, <1>4, ConsIs
<1>6. SkipQuoted(l, LineEnds, LineEnds) = [word |-> <<version>>, rest |-> t]
  <2>1. Left(t) = t
    BY DEF Left
  <2> QED
    BY <1>1, <1>3, <2>1, CutValue
<1> HIDE DEF l
<1>7. uri \in Text /\ uri # <<>> /\ IsWord(uri, S) /\ uri[1] \notin S /\ Len(uri) > 0
  <2>1. uri \in Text /\ uri # <<>> /\ \A i \in 1..Len(uri) : uri[i] \notin Blank
    <3>1. uri \in Seq(Letter) /\ uri # <<>>
      BY DEF IsPath, Path
    <3>2. \A i \in 1..Len(uri) : uri[i] \in Letter
      BY <3>1
    <3> QED
      BY <3>1, <3>2, PathIsText DEF Path, Letter
  <2>4. " " \in Blank
    BY DEF Blank
  <2>2. Len(uri) > 0 /\ 1 \in 1..Len(uri)
    <3>1. uri \in Text /\ uri # <<>>
      BY PathIsText DEF IsPath
    <3> HIDE DEF k, b, m, u, v
    <3> QED
      BY <3>1 DEF Text
  <2>3. IsWord(uri, S)
    BY <2>1, <2>4 DEF IsWord, S
  <2> QED
    BY <2>1, <2>2, <2>3 DEF IsWord
<1>8. SkipQuoted(k, S, S) = [word |-> uri, rest |-> l]
  <2> DEFINE e == <<>>
  <2>1. e \in Text /\ IsBlank(e, S)
    BY DEF Text, IsBlank
  <2>4. BlanksEnd(l, S) /\ l \in Text
    BY <1>1, <1>5 DEF BlanksEnd
  <2>5. uri \in Text /\ IsWord(uri, S) /\ space \in Symbol /\ space \in S
    BY <1>1, <1>7
  <2>2. e \o l = l
    <3>1. l \in Seq(Symbol)
      BY <1>5 DEF Text
    <3> QED
      BY <3>1, ConcatEmptySeq
  <2> HIDE DEF e
  <2>3. SkipQuoted(uri \o Cons(space, e \o l), S, S) = [word |-> uri, rest |-> l]
    BY <2>1, <2>4, <2>5, Cut
  <2> QED
    BY <2>2, <2>3
<1>9. k \in Text /\ BlanksEnd(k, S)
  <2>1. Cons(space, l) \in Text
    BY <1>1, <1>5, ConsIs
  <2> DEFINE c == Cons(space, l)
  <2> HIDE DEF c
  <2>2. /\ uri \o c \in Text
        /\ \A i \in 1..(Len(uri) + Len(c)) : (uri \o c)[i] = IF i <= Len(uri) THEN uri[i] ELSE c[i - Len(uri)]
        /\ Len(uri) \in Nat /\ Len(c) \in Nat
    BY <1>7, <2>1, JoinIs DEF c
  <2>3. 1 \in 1..(Len(uri) + Len(c)) /\ 1 <= Len(uri)
    BY <1>7, <2>2
  <2>4. (uri \o c)[1] = uri[1]
    BY <2>2, <2>3
  <2> QED
    BY <1>7, <2>2, <2>4 DEF BlanksEnd, c
<1> HIDE DEF k
<1>10. SkipQuoted(b, S, S) = [word |-> <<method>>, rest |-> k]
  <2>1. method \in Symbol /\ method \notin S /\ space \in Symbol /\ space \in S
    BY <1>1
  <2> HIDE DEF b, m, u, v
  <2>2. SkipQuoted(Cons(method, Cons(space, k)), S, S) = [word |-> <<method>>, rest |-> k]
    BY <1>9, <2>1, CutSymbol
  <2> QED
    BY <1>2, <2>2
<1>11. b \in Text /\ b[1] = method
  <2>1. Cons(space, k) \in Text
    BY <1>1, <1>9, ConsIs
  <2> QED
    BY <1>1, <1>2, <2>1, ConsIs
<1> HIDE DEF b
<1>12. Len(b) > 0 /\ b[1] \notin B
  <2>1. b # <<>>
    <3>1. Cons(space, k) \in Text
      BY <1>1, <1>9, ConsIs
    <3> QED
      BY <1>1, <1>2, <3>1, ConsIs
  <2> HIDE DEF m, u, v
  <2> QED
    BY <1>0, <1>11, <2>1 DEF Text
<1>13. m = [word |-> <<method>>, rest |-> k]
  BY <1>10 DEF Skip, S
<1> HIDE DEF m
<1>14. u = [word |-> uri, rest |-> l]
  BY <1>8, <1>13 DEF Skip, S
<1> HIDE DEF u
<1>15. v = [word |-> <<version>>, rest |-> t]
  BY <1>6, <1>14 DEF Skip, LineEnds
<1> HIDE DEF v
<1>16. m.word = <<method>> /\ u.word = uri /\ v.word = <<"HTTP/1.1">> /\ v.rest = t
  BY <1>13, <1>14, <1>15 DEF version
<1> QED
  BY <1>11, <1>12, <1>16 DEF b, m, u, v, B, IsCut

-----------------------------------------------------------------------------
(* Dates.                                                                  *)
Leap(y) == IF LeapYear(y) THEN 1 ELSE 0

\* num_leap_years counts the leap years.
LEMMA LeapYears ==
    ASSUME NEW y \in Nat
    PROVE  num_leap_years(y + 1) = num_leap_years(y) + Leap(y + 1)
<1>1. (y + 1) \div 4 = y \div 4 + (IF (y + 1) % 4 = 0 THEN 1 ELSE 0)
  OBVIOUS
<1>2. (y + 1) \div 100 = y \div 100 + (IF (y + 1) % 100 = 0 THEN 1 ELSE 0)
  OBVIOUS
<1>3. (y + 1) \div 400 = y \div 400 + (IF (y + 1) % 400 = 0 THEN 1 ELSE 0)
  OBVIOUS
<1>4. (y + 1) % 400 = 0 => (y + 1) % 100 = 0
  OBVIOUS
<1>5. (y + 1) % 100 = 0 => (y + 1) % 4 = 0
  OBVIOUS
<1>6. y \div 4 \in Int /\ y \div 100 \in Int /\ y \div 400 \in Int
  OBVIOUS
<1> QED
  BY <1>1, <1>2, <1>3, <1>4, <1>5, <1>6 DEF num_leap_years, Leap, LeapYear

LeapsBefore(y) == Cardinality({k \in 1970..(y - 1) : LeapYear(k)})

\* A year later the leap year, if it was one, is counted too.
LEMMA LeapsBeforeNext ==
    ASSUME NEW y \in Nat, y >= 1970
    PROVE  LeapsBefore(y + 1) = LeapsBefore(y) + Leap(y)
<1> DEFINE S == {k \in 1970..(y - 1) : LeapYear(k)}
           T == {k \in 1970..((y + 1) - 1) : LeapYear(k)}
<1>1. IsFiniteSet(S)
  <2>1. IsFiniteSet(1970..(y - 1)) /\ S \in SUBSET (1970..(y - 1))
    BY FS_Interval
  <2> QED
    BY <2>1, FS_Subset
<1>2. T = IF LeapYear(y) THEN S \cup {y} ELSE S
  OBVIOUS
<1>3. y \notin S
  OBVIOUS
<1> HIDE DEF S, T
<1>4. Cardinality(S \cup {y}) = Cardinality(S) + 1
  BY <1>1, <1>3, FS_AddElement
<1>5. Cardinality(S) \in Nat
  BY <1>1, FS_CardinalityType
<1>6. Cardinality(T) = Cardinality(S) + Leap(y)
  BY <1>2, <1>4, <1>5 DEF Leap
<1> QED
  BY <1>6 DEF LeapsBefore, S, T

\* The days before a year, and how parse_date_string counts them.
LEMMA YearStarts ==
    ASSUME NEW n \in Nat
    PROVE  DaysBeforeYear(1970 + n) = 365 * n + num_leap_years(1969 + n) - num_leap_years(1969)
<1> DEFINE S == {k \in Nat : LeapsBefore(1970 + k) = num_leap_years(1969 + k) - num_leap_years(1969)}
<1>0. \A k \in Nat : num_leap_years(k) \in Int
  BY DEF num_leap_years
<1>1. 0 \in S
  <2>1. 1970..(1970 - 1) = {}
    OBVIOUS
  <2>2. {k \in 1970..(1970 - 1) : LeapYear(k)} = {}
    BY <2>1
  <2>3. LeapsBefore(1970) = 0
    BY <2>2, FS_EmptySet DEF LeapsBefore
  <2> QED
    BY <1>0, <2>3
<1>2. ASSUME NEW k \in S PROVE k + 1 \in S
  <2>1. k \in Nat /\ 1970 + k \in Nat /\ 1969 + k \in Nat /\ (1970 + k) + 1 = 1970 + (k + 1)
        /\ (1969 + k) + 1 = 1970 + k /\ 1969 + (k + 1) = 1970 + k
    OBVIOUS
  <2>2. LeapsBefore(1970 + k) = num_leap_years(1969 + k) - num_leap_years(1969)
    OBVIOUS
  <2>3. LeapsBefore((1970 + k) + 1) = LeapsBefore(1970 + k) + Leap(1970 + k)
    BY <2>1, LeapsBeforeNext
  <2>4. num_leap_years((1969 + k) + 1) = num_leap_years(1969 + k) + Leap((1969 + k) + 1)
    BY <2>1, LeapYears
  <2>5. num_leap_years(1969 + k) \in Int /\ num_leap_years(1969) \in Int /\ Leap(1970 + k) \in Int
    BY <1>0, <2>1 DEF Leap
  <2>6. LeapsBefore(1970 + (k + 1)) = num_leap_years(1969 + (k + 1)) - num_leap_years(1969)
    BY <2>1, <2>2, <2>3, <2>4, <2>5
  <2> QED
    BY <2>1, <2>6
<1> HIDE DEF S
<1>3. n \in S
  BY <1>1, <1>2, Induction
<1>4. LeapsBefore(1970 + n) = num_leap_years(1969 + n) - num_leap_years(1969)
  BY <1>3 DEF S
<1>5. DaysBeforeYear(1970 + n) = 365 * ((1970 + n) - 1970) + LeapsBefore(1970 + n)
  BY DEF DaysBeforeYear, LeapsBefore
<1>6. (1970 + n) - 1970 = n /\ num_leap_years(1969 + n) \in Int /\ num_leap_years(1969) \in Int
  BY <1>0
<1> QED
  BY <1>4, <1>5, <1>6

\* Each year begins where the one before it ended.
Starting(n) == DaysBeforeYear(1970 + n)

Lasting(n) == 365 + Leap(1970 + n)

\* A year lasts 365 days, or 366, and the next begins behind it.
LEMMA YearLasts ==
    ASSUME NEW n \in Nat
    PROVE  /\ Starting(n) \in Nat /\ n + 1 \in Nat /\ Lasting(n) \in 365..366
           /\ Starting(n + 1) = Starting(n) + Lasting(n)
           /\ 365 * n <= Starting(n) /\ Starting(n) <= 366 * n
<1> DEFINE Y(k) == DaysBeforeYear(1970 + k)
           S == {k \in Nat : 365 * k <= Y(k) /\ Y(k) <= 366 * k}
<1>0. num_leap_years(1969) = 477
  BY DEF num_leap_years
<1>1. ASSUME NEW k \in Nat
      PROVE  Y(k) \in Int /\ Y(k + 1) = Y(k) + 365 + Leap(1970 + k) /\ Leap(1970 + k) \in 0..1
  <2>1. (1969 + k) + 1 = 1970 + k /\ 1969 + (k + 1) = 1970 + k /\ k + 1 \in Nat /\ 1969 + k \in Nat
    OBVIOUS
  <2>2. num_leap_years(1970 + k) = num_leap_years(1969 + k) + Leap(1970 + k)
    BY <2>1, LeapYears
  <2>3. num_leap_years(1969 + k) \in Int /\ Leap(1970 + k) \in 0..1
    BY DEF num_leap_years, Leap
  <2>4. Y(k) = 365 * k + num_leap_years(1969 + k) - num_leap_years(1969)
    BY YearStarts
  <2>5. Y(k + 1) = 365 * (k + 1) + num_leap_years(1969 + (k + 1)) - num_leap_years(1969)
    BY <2>1, YearStarts
  <2> HIDE DEF Y
  <2> QED
    BY <1>0, <2>1, <2>2, <2>3, <2>4, <2>5
<1>2. Y(0) = 0
  <2>1. Y(0) = 365 * 0 + num_leap_years(1969 + 0) - num_leap_years(1969)
    BY YearStarts
  <2> QED
    BY <1>0, <2>1
<1>3. 0 \in S
  BY <1>2
<1> HIDE DEF Y
<1>4. ASSUME NEW k \in Nat, k \in S PROVE k + 1 \in S
  BY <1>1, <1>4
<1> HIDE DEF S
<1>5. n \in S
  BY <1>3, <1>4, Induction
<1>6. Y(n) \in Nat /\ Y(n + 1) = Y(n) + 365 + Leap(1970 + n) /\ 365 * n <= Y(n) /\ Y(n) <= 366 * n
      /\ Leap(1970 + n) \in 0..1
  BY <1>1, <1>5 DEF S
<1>7. Lasting(n) \in 365..366
  BY <1>6 DEF Lasting
<1>8. Y(n + 1) = Y(n) + Lasting(n)
  BY <1>6 DEF Lasting
<1> QED
  BY <1>6, <1>7, <1>8 DEF Y, Starting

\* Every day is in a year.
LEMMA YearOf ==
    ASSUME NEW t \in Nat
    PROVE  \E n \in Nat : /\ Starting(n) <= t /\ t < Starting(n) + Lasting(n)
                         /\ 1970 + n \in (1970 + t \div 366)..(1970 + t \div 365)
<1> DEFINE S == {s \in Nat : \E n \in Nat : Starting(n) <= s /\ s < Starting(n + 1)}
<1>1. 0 \in S
  <2>1. 0 \in Nat /\ Starting(0) \in Nat /\ Starting(0) <= 366 * 0 /\ Starting(0 + 1) = Starting(0) + Lasting(0)
        /\ Lasting(0) \in 365..366
    BY YearLasts
  <2>2. Starting(0) = 0 /\ Starting(0 + 1) > 0
    BY <2>1
  <2> QED
    BY <2>2
<1>2. ASSUME NEW s \in Nat, s \in S PROVE s + 1 \in S
  <2>1. PICK n \in Nat : Starting(n) <= s /\ s < Starting(n + 1)
    BY <1>2
  <2> DEFINE m == n + 1
  <2>2. m \in Nat
    OBVIOUS
  <2>3. Starting(n) \in Nat
    BY YearLasts
  <2>4. Starting(n) <= s /\ s < Starting(m)
    BY <2>1
  <2> HIDE DEF m
  <2>5. Starting(m) \in Nat /\ Starting(m + 1) = Starting(m) + Lasting(m) /\ Lasting(m) \in 365..366
    BY <2>2, YearLasts
  <2>6. Starting(m + 1) > Starting(m)
    BY <2>5
  <2>7. CASE s + 1 < Starting(m)
    BY <2>3, <2>4, <2>7 DEF m
  <2>8. CASE s + 1 = Starting(m)
    <3>1. Starting(m) <= s + 1 /\ s + 1 < Starting(m + 1)
      BY <2>5, <2>6, <2>8
    <3> QED
      BY <2>2, <3>1
  <2> QED
    BY <2>4, <2>5, <2>7, <2>8
<1> HIDE DEF S
<1>3. t \in S
  BY <1>1, <1>2, Induction
<1>4. PICK n \in Nat : Starting(n) <= t /\ t < Starting(n + 1)
  BY <1>3 DEF S
<1> DEFINE m == n + 1
<1>5. Starting(n) \in Nat /\ Starting(m) = Starting(n) + Lasting(n) /\ 365 * n <= Starting(n)
      /\ m \in Nat /\ t < Starting(m)
  BY <1>4, YearLasts
<1> HIDE DEF m
<1>6. Starting(m) \in Nat /\ Starting(m) <= 366 * m
  BY <1>5, YearLasts
<1>7. 365 * n <= t /\ t < 366 * (n + 1)
  BY <1>4, <1>5, <1>6 DEF m
<1>8. t \div 366 <= n /\ n <= t \div 365
  BY <1>7
<1>9. 1970 + n \in (1970 + t \div 366)..(1970 + t \div 365)
  BY <1>8
<1> QED
  BY <1>4, <1>5, <1>9

\* The days before a month, in a year that has a leap day or not.
MonthStart(m) == days_before_month[m]

\* The table of the code, days_before_month, month by month.
LEMMA MonthTable ==
    /\ MonthStart(1) = 0 /\ MonthStart(2) = 31 /\ MonthStart(3) = 59 /\ MonthStart(4) = 90 /\ MonthStart(5) = 120
    /\ MonthStart(6) = 151 /\ MonthStart(7) = 181 /\ MonthStart(8) = 212 /\ MonthStart(9) = 243 /\ MonthStart(10) = 273
    /\ MonthStart(11) = 304 /\ MonthStart(12) = 334
  BY DEF MonthStart, days_before_month

\* How long the months of a year are.
LEMMA MonthLengths ==
    ASSUME NEW y
    PROVE  /\ MonthDays(y, 1) = 31 /\ MonthDays(y, 2) = 28 + Leap(y) /\ MonthDays(y, 3) = 31
           /\ MonthDays(y, 4) = 30 /\ MonthDays(y, 5) = 31 /\ MonthDays(y, 6) = 30
           /\ MonthDays(y, 7) = 31 /\ MonthDays(y, 8) = 31 /\ MonthDays(y, 9) = 30
           /\ MonthDays(y, 10) = 31 /\ MonthDays(y, 11) = 30 /\ MonthDays(y, 12) = 31
  BY DEF MonthDays, Leap

Months(y, m) == MonthStart(m) + (IF m > 2 THEN Leap(y) ELSE 0)

\* A month begins where the last one ended.
LEMMA MonthNext ==
    ASSUME NEW y, NEW m \in 2..12
    PROVE  Months(y, m) = Months(y, m - 1) + MonthDays(y, m - 1)
<1>1. Leap(y) \in 0..1
  BY DEF Leap
<1>2. m = 2 \/ m = 3 \/ m = 4 \/ m = 5 \/ m = 6 \/ m = 7 \/ m = 8 \/ m = 9 \/ m = 10 \/ m = 11 \/ m = 12
  OBVIOUS
<1> QED
  BY <1>1, <1>2, MonthTable, MonthLengths DEF Months

\* But for the leap day, months start as the table of the code says.
LEMMA MonthStarts ==
    ASSUME NEW y
    PROVE  \A m \in 1..12 : DaysBeforeMonth(y)[m] = Months(y, m)
<1> DEFINE days[m \in 1..12] == IF m = 1 THEN 0 ELSE days[m - 1] + MonthDays(y, m - 1)
           g == [m \in 1..12 |-> Months(y, m)]
<1>1. DaysBeforeMonth(y) = days
  BY Zenon DEF DaysBeforeMonth
<1>2. g = [m \in 1..12 |-> IF m = 1 THEN 0 ELSE g[m - 1] + MonthDays(y, m - 1)]
  <2>1. ASSUME NEW m \in 1..12 PROVE g[m] = IF m = 1 THEN 0 ELSE g[m - 1] + MonthDays(y, m - 1)
    <3>1. CASE m = 1
      <4>1. Months(y, 1) = 0
        BY MonthTable DEF Months
      <4> QED
        BY <3>1, <4>1
    <3>2. CASE m # 1
      <4>1. m \in 2..12 /\ m - 1 \in 1..12
        BY <3>2
      <4>2. g[m] = Months(y, m) /\ g[m - 1] = Months(y, m - 1)
        BY <4>1
      <4> QED
        BY <3>2, <4>1, <4>2, MonthNext
    <3> QED
      BY <3>1, <3>2
  <2> QED
    BY <2>1
<1>3. days = [m \in 1..12 |-> IF m = 1 THEN 0 ELSE days[m - 1] + MonthDays(y, m - 1)]
  <2> HIDE DEF g
  <2> QED
    BY <1>2, Zenon
<1> HIDE DEF days
<1> DEFINE S == {n \in Nat : n + 1 \in 1..12 => days[n + 1] = Months(y, n + 1)}
<1>4. 0 \in S
  <2>1. days[1] = 0 /\ Months(y, 1) = 0
    BY <1>3, MonthTable DEF Months
  <2> QED
    BY <2>1
<1>5. ASSUME NEW n \in Nat, n \in S PROVE n + 1 \in S
  <2> SUFFICES ASSUME (n + 1) + 1 \in 1..12 PROVE days[(n + 1) + 1] = Months(y, (n + 1) + 1)
    OBVIOUS
  <2> DEFINE m == (n + 1) + 1
  <2>1. m \in 2..12 /\ m - 1 = n + 1 /\ m - 1 \in 1..12
    OBVIOUS
  <2>2. days[m - 1] = Months(y, m - 1)
    BY <1>5, <2>1
  <2> HIDE DEF m
  <2>3. days[m] = days[m - 1] + MonthDays(y, m - 1)
    BY <1>3, <2>1
  <2>4. days[m] = Months(y, m)
    BY <2>1, <2>2, <2>3, MonthNext
  <2> QED
    BY <2>4 DEF m
<1> HIDE DEF S
<1>6. \A n \in Nat : n \in S
  BY <1>4, <1>5, Induction
<1>7. ASSUME NEW m \in 1..12 PROVE days[m] = Months(y, m)
  <2>1. m - 1 \in Nat /\ (m - 1) + 1 = m
    OBVIOUS
  <2>2. m - 1 \in S
    BY <1>6, <2>1
  <2>3. days[(m - 1) + 1] = Months(y, (m - 1) + 1)
    BY <2>1, <2>2 DEF S
  <2> QED
    BY <2>1, <2>3
<1> QED
  BY <1>1, <1>7

\* A month ends in its year.
LEMMA MonthEnds ==
    ASSUME NEW y, NEW m \in 1..12
    PROVE  Months(y, m) \in Int /\ MonthDays(y, m) \in Int /\ Months(y, m) + MonthDays(y, m) <= 365 + Leap(y)
<1>1. Leap(y) \in 0..1
  BY DEF Leap
<1>2. m = 1 \/ m = 2 \/ m = 3 \/ m = 4 \/ m = 5 \/ m = 6 \/ m = 7 \/ m = 8 \/ m = 9 \/ m = 10 \/ m = 11 \/ m = 12
  OBVIOUS
<1> QED
  BY <1>1, <1>2, MonthTable, MonthLengths DEF Months

\* Every day of a year is in a month.
LEMMA MonthOf ==
    ASSUME NEW y, NEW k \in Nat, k < 365 + Leap(y)
    PROVE  \E m \in 1..12 : Months(y, m) <= k /\ k < Months(y, m) + MonthDays(y, m)
<1>1. Leap(y) \in 0..1
  BY DEF Leap
<1>2. /\ Months(y, 1) = 0 /\ Months(y, 2) = 31 /\ Months(y, 3) = 59 + Leap(y) /\ Months(y, 4) = 90 + Leap(y)
      /\ Months(y, 5) = 120 + Leap(y) /\ Months(y, 6) = 151 + Leap(y) /\ Months(y, 7) = 181 + Leap(y)
      /\ Months(y, 8) = 212 + Leap(y) /\ Months(y, 9) = 243 + Leap(y) /\ Months(y, 10) = 273 + Leap(y)
      /\ Months(y, 11) = 304 + Leap(y) /\ Months(y, 12) = 334 + Leap(y)
  BY <1>1, MonthTable DEF Months
<1>3. 1 \in 1..12 /\ 2 \in 1..12 /\ 3 \in 1..12 /\ 4 \in 1..12 /\ 5 \in 1..12 /\ 6 \in 1..12
      /\ 7 \in 1..12 /\ 8 \in 1..12 /\ 9 \in 1..12 /\ 10 \in 1..12 /\ 11 \in 1..12 /\ 12 \in 1..12
  OBVIOUS
<1> SUFFICES ASSUME \A m \in 1..12 : ~(Months(y, m) <= k /\ k < Months(y, m) + MonthDays(y, m))
             PROVE  FALSE
  OBVIOUS
<1> QED
  BY <1>1, <1>2, <1>3, MonthLengths

\* c is the date of the day t.
IsDateOf(c, t) ==
    /\ c \in [year : (1970 + t \div 366)..(1970 + t \div 365), month : 1..12, day : 1..31]
    /\ c.day <= MonthDays(c.year, c.month)
    /\ t = DaysBeforeYear(c.year) + DaysBeforeMonth(c.year)[c.month] + c.day - 1

\* Each day has a date.
LEMMA DateExists == ASSUME NEW t \in Nat PROVE \E c : IsDateOf(c, t)
<1>1. PICK n \in Nat : /\ Starting(n) <= t /\ t < Starting(n) + Lasting(n)
                       /\ 1970 + n \in (1970 + t \div 366)..(1970 + t \div 365)
  BY YearOf
<1> DEFINE y == 1970 + n
           k == t - Starting(n)
<1>2. Starting(n) \in Nat
  BY YearLasts
<1>3. k \in Nat /\ k < 365 + Leap(y)
  <2>1. k \in Nat /\ k < Lasting(n)
    <3>1. Lasting(n) \in 365..366
      BY YearLasts
    <3> QED
      BY <1>1, <1>2, <3>1
  <2> QED
    BY <2>1 DEF Lasting
<1>4. DaysBeforeYear(y) = Starting(n)
  BY DEF Starting
<1>5. y \in (1970 + t \div 366)..(1970 + t \div 365)
  BY <1>1
<1>6. t = Starting(n) + k
  BY <1>2
<1> HIDE DEF k, y
<1>7. PICK m \in 1..12 : Months(y, m) <= k /\ k < Months(y, m) + MonthDays(y, m)
  BY <1>3, MonthOf
<1>8. Months(y, m) \in Nat /\ MonthDays(y, m) \in 0..31
  <2>1. Leap(y) \in 0..1
    BY DEF Leap
  <2>2. MonthStart(m) \in Nat
    BY DEF MonthStart, days_before_month
  <2> QED
    BY <2>1, <2>2 DEF Months, MonthDays
<1> DEFINE d == k - Months(y, m) + 1
           c == [year |-> y, month |-> m, day |-> d]
<1>9. d \in 1..31 /\ d <= MonthDays(y, m) /\ Months(y, m) + d - 1 = k
  BY <1>3, <1>7, <1>8
<1>10. DaysBeforeMonth(y)[m] = Months(y, m)
  BY MonthStarts
<1> HIDE DEF d
<1>11. DaysBeforeYear(y) + DaysBeforeMonth(y)[m] + d - 1 = t
  BY <1>2, <1>3, <1>4, <1>6, <1>8, <1>9, <1>10
<1>12. IsDateOf(c, t)
  BY <1>5, <1>9, <1>11 DEF IsDateOf
<1> QED
  BY <1>12

\* The date of a day is that of the calendar.
LEMMA CivilDateIs == ASSUME NEW t \in Nat PROVE IsDateOf(CivilDate(t), t)
<1> DEFINE D == [year : (1970 + t \div 366)..(1970 + t \div 365), month : 1..12, day : 1..31]
           P(c) == /\ c.day <= MonthDays(c.year, c.month)
                   /\ t = DaysBeforeYear(c.year) + DaysBeforeMonth(c.year)[c.month] + c.day - 1
<1>1. CivilDate(t) = CHOOSE c \in D : P(c)
  BY DEF CivilDate
<1>2. \E c \in D : P(c)
  BY DateExists DEF IsDateOf
<1>3. \A c : c \in D /\ P(c) => IsDateOf(c, t)
  BY DEF IsDateOf
<1> HIDE DEF D, P
<1>4. CivilDate(t) \in D /\ P(CivilDate(t))
  BY <1>1, <1>2
<1> QED
  BY <1>3, <1>4

\* parse_date_string is the inverse of gmtime, of every day since 1971: it
\* errs by one day, and only before the leap day of a leap year.
THEOREM DateTheorem ==
    \A t \in Nat : t >= 365 => ParseDate(CivilDate(t)) = IF BeforeLeapDay(t) THEN t + 1 ELSE t
<1> SUFFICES ASSUME NEW t \in Nat, t >= 365
             PROVE  ParseDate(CivilDate(t)) = IF BeforeLeapDay(t) THEN t + 1 ELSE t
  OBVIOUS
<1> DEFINE c == CivilDate(t)
           y == c.year
           m == c.month
           n == y - 1970
<1>1. IsDateOf(c, t)
  BY CivilDateIs
<1>2. BeforeLeapDay(t) <=> LeapYear(y) /\ m <= 2
  BY DEF BeforeLeapDay
<1> HIDE DEF c
<1>3. /\ c \in [year : (1970 + t \div 366)..(1970 + t \div 365), month : 1..12, day : 1..31]
      /\ c.day <= MonthDays(y, m) /\ t = DaysBeforeYear(y) + DaysBeforeMonth(y)[m] + c.day - 1
  BY <1>1 DEF IsDateOf
<1>4. y \in Nat /\ y >= 1970 /\ m \in 1..12 /\ c.day \in 1..31
  BY <1>3
<1>5. n \in Nat /\ 1970 + n = y /\ 1969 + n \in Nat /\ (1969 + n) + 1 = y
  BY <1>4
<1>6. DaysBeforeMonth(y)[m] = Months(y, m)
  BY <1>4, MonthStarts
<1>7. DaysBeforeYear(y) = 365 * n + num_leap_years(1969 + n) - num_leap_years(1969)
  BY <1>5, YearStarts
<1>8. num_leap_years(y) = num_leap_years(1969 + n) + Leap(y)
  BY <1>5, LeapYears
<1>9. num_leap_years(1970) = 477 /\ num_leap_years(1969) = 477 /\ num_leap_years(1969 + n) \in Int
  BY <1>5 DEF num_leap_years
<1>10. y > 1970
  <2> SUFFICES ASSUME y = 1970 PROVE FALSE
    BY <1>4
  <2> DEFINE start == DaysBeforeYear(y)
             day == c.day
  <2>1. n = 0 /\ Leap(y) = 0
    <3>1. ~LeapYear(1970)
      BY DEF LeapYear
    <3> QED
      BY <3>1 DEF Leap
  <2>2. start = 0
    BY <1>7, <1>9, <2>1
  <2>3. t = start + Months(y, m) + day - 1 /\ day <= MonthDays(y, m) /\ day \in Int
    BY <1>3, <1>4, <1>6
  <2>4. Months(y, m) \in Int /\ MonthDays(y, m) \in Int /\ Months(y, m) + MonthDays(y, m) <= 365 + Leap(y)
    BY <1>4, MonthEnds
  <2> HIDE DEF start, day, y, m, n
  <2> QED
    BY <2>1, <2>2, <2>3, <2>4
<1>11. ParseDate(c) = 365 * n + MonthStart(m) + (c.day - 1) + (num_leap_years(y) - num_leap_years(1970))
  BY <1>10 DEF ParseDate, MonthStart
<1>12. MonthStart(m) \in Int
  BY <1>4 DEF MonthStart, days_before_month
<1>13. Leap(y) = IF LeapYear(y) THEN 1 ELSE 0
  BY DEF Leap
<1>14. ParseDate(c) = t + (IF m > 2 THEN 0 ELSE Leap(y))
  <2> DEFINE leaps == num_leap_years(1969 + n)
             start == DaysBeforeYear(y)
             day == c.day
             months == MonthStart(m)
  <2>1. start = 365 * n + leaps - 477 /\ leaps \in Int /\ months \in Int /\ n \in Nat /\ day \in Int
    BY <1>4, <1>5, <1>7, <1>9, <1>12
  <2>2. ParseDate(c) = 365 * n + months + (day - 1) + ((leaps + Leap(y)) - 477)
    BY <1>8, <1>9, <1>11
  <2>3. t = start + Months(y, m) + day - 1 /\ Months(y, m) = months + (IF m > 2 THEN Leap(y) ELSE 0)
    BY <1>3, <1>6 DEF Months
  <2>4. Leap(y) \in Int
    BY <1>13
  <2> HIDE DEF leaps, start, day, months, n
  <2>5. CASE m > 2
    BY <2>1, <2>2, <2>3, <2>4, <2>5
  <2>6. CASE ~(m > 2)
    BY <2>1, <2>2, <2>3, <2>4, <2>6
  <2> QED
    BY <2>5, <2>6
<1>15. ParseDate(c) = IF BeforeLeapDay(t) THEN t + 1 ELSE t
  BY <1>2, <1>4, <1>13, <1>14
<1> QED
  BY <1>15 DEF c

-----------------------------------------------------------------------------
(* What the browser sends and the worker reads.                             *)

\* A text that is joined to another makes a third.
Fits(a, t, u) == a \in Text /\ t \in Text /\ a \o t = u

\* A field, with what is behind it.
LEMMA FieldIs ==
    ASSUME NEW c \in BOOLEAN, NEW name, IsName(name), NEW value, IsValue(value), NEW t \in Text
    PROVE  Fits(Field(c, name, value), t, Before(c, name, value, t))
<1>1. /\ name \in Symbol /\ value \in Symbol /\ ":" \in Symbol /\ " " \in Symbol /\ "\r" \in Symbol /\ "\n" \in Symbol
  BY Blanks DEF IsName, IsValue
<1>2. CASE ~c
  <2>1. Field(c, name, value) = <<>>
    BY <1>2 DEF Field
  <2>2. t \in Seq(Symbol) /\ <<>> \in Seq(Symbol)
    BY DEF Text
  <2> QED
    BY <1>2, <2>1, <2>2, ConcatEmptySeq DEF Before, Text, Fits
<1>3. CASE c
  <2> DEFINE colon == ":"
             space == " "
             cr == "\r"
             lf == "\n"
  <2>1. /\ Field(c, name, value) = <<name, colon, space, value>> \o <<cr, lf>>
        /\ Before(c, name, value, t)
             = Cons(name, Cons(colon, Cons(space, Cons(value, Cons(cr, Cons(lf, t))))))
    BY <1>3 DEF Field, Line, Before, Lines
  <2>2. name \in Symbol /\ value \in Symbol /\ colon \in Symbol /\ space \in Symbol /\ cr \in Symbol /\ lf \in Symbol
    BY <1>1
  <2> HIDE DEF colon, space, cr, lf
  <2>3. /\ <<name, colon, space, value>> \o <<cr, lf>> \in Text
        /\ (<<name, colon, space, value>> \o <<cr, lf>>) \o t
             = Cons(name, Cons(colon, Cons(space, Cons(value, Cons(cr, Cons(lf, t))))))
    BY <2>2, SixIs
  <2> QED
    BY <2>1, <2>3, SMTT(20) DEF Fits
<1> QED
  BY <1>2, <1>3

\* What is joined is a text.
LEMMA FitsText == ASSUME NEW a, NEW t, NEW u, Fits(a, t, u) PROVE u \in Text
  BY JoinIs DEF Fits

\* One piece in front of the other.
LEMMA JoinFits ==
    ASSUME NEW a, NEW b, NEW t, NEW s, NEW u, Fits(b, t, s), Fits(a, s, u)
    PROVE  Fits(a \o b, t, u)
<1>1. a \in Seq(Symbol) /\ b \in Seq(Symbol) /\ t \in Seq(Symbol)
  BY DEF Fits, Text
<1>4. b \o t = s /\ a \o s = u
  BY DEF Fits
<1>2. (a \o b) \o t = a \o (b \o t)
  BY <1>1, ConcatAssociative
<1>3. a \o b \in Seq(Symbol)
  BY <1>1, ConcatProperties
<1> QED
  BY <1>1, <1>2, <1>3, <1>4 DEF Fits, Text

\* Two symbols before a text.
LEMMA PairJoin ==
    ASSUME NEW x \in Symbol, NEW d \in Symbol, NEW t \in Text
    PROVE  Fits(<<x, d>>, t, Cons(x, Cons(d, t)))
<1> DEFINE z == <<d>>
<1>1. z \in Text /\ z \o t = Cons(d, t)
  BY DEF Text, Cons
<1>2. <<x, d>> = Cons(x, z)
  BY PairIs
<1> HIDE DEF z
<1>3. Cons(x, z) \in Text /\ Cons(x, z) \o t = Cons(x, z \o t)
  BY <1>1, ConsIs, ConsJoin
<1> QED
  BY <1>1, <1>2, <1>3 DEF Fits

\* What a browser asks for.
IsRequest(r) ==
    /\ r.method \in Methods /\ IsPath(r.uri)
    /\ r.gzip \in BOOLEAN /\ r.depth \in BOOLEAN
    /\ Count(r) <= MaxHeaders

\* The header lines of a request, from the last to the first.
Depths(r)  == Before(r.depth, "Depth", "0", Return)
Gzips(r)   == Before(r.gzip, "Accept-Encoding", "gzip", Depths(r))
Ranges(r)  == Before(r.range # <<>>, "Range", "range", Gzips(r))
Sinces(r)  == Before(r.copy # <<>>, "If-Modified-Since", "date", Ranges(r))
Matches(r) == Before(r.copy # <<>>, "If-None-Match", "etag", Sinces(r))
Hosts(r)   == Before(TRUE, "Host", "device", Matches(r))

\* The names and values that a browser sends stay whole when they are read.
LEMMA FieldNames ==
    /\ IsName("Host") /\ IsValue("device")
    /\ IsName("If-None-Match") /\ IsValue("etag")
    /\ IsName("If-Modified-Since") /\ IsValue("date")
    /\ IsName("Range") /\ IsValue("range")
    /\ IsName("Accept-Encoding") /\ IsValue("gzip")
    /\ IsName("Depth") /\ IsValue("0")
<1>1. IsName("Host") /\ IsName("If-None-Match") /\ IsName("If-Modified-Since")
  BY DEF IsName, Symbol, Named, LineEnds
<1>2. IsName("Range") /\ IsName("Accept-Encoding") /\ IsName("Depth")
  BY DEF IsName, Symbol, Named, LineEnds
<1>3. IsValue("device") /\ IsValue("etag") /\ IsValue("date")
  BY DEF IsValue, Symbol, Named, LineEnds
<1>4. IsValue("range") /\ IsValue("gzip") /\ IsValue("0")
  BY DEF IsValue, Symbol, Named, LineEnds
<1> QED
  BY <1>1, <1>2, <1>3, <1>4

\* Behind each header line is another, or the end of the head.
LEMMA LinesAreLeft ==
    ASSUME NEW r, IsRequest(r)
    PROVE  /\ IsLeft(Return) /\ IsLeft(Depths(r)) /\ IsLeft(Gzips(r)) /\ IsLeft(Ranges(r))
           /\ IsLeft(Sinces(r)) /\ IsLeft(Matches(r)) /\ IsLeft(Hosts(r))
           /\ Left(Hosts(r)) = Hosts(r) /\ Hosts(r) # Return
<1>1. r.depth \in BOOLEAN /\ r.gzip \in BOOLEAN /\ (r.range # <<>>) \in BOOLEAN /\ (r.copy # <<>>) \in BOOLEAN
  BY DEF IsRequest
<1>2. IsLeft(Return)
  <2> DEFINE cr == "\r"
  <2>1. cr \in Symbol
    BY Blanks
  <2>2. Return = <<cr>>
    BY DEF Return
  <2> HIDE DEF cr
  <2>3. Return \in Text
    BY <2>1, <2>2 DEF Text
  <2> QED
    BY <2>3 DEF IsLeft
<1>3. IsLeft(Depths(r))
  BY <1>1, <1>2, FieldNames, BeforeIsLeft DEF Depths
<1>4. IsLeft(Gzips(r))
  BY <1>1, <1>3, FieldNames, BeforeIsLeft DEF Gzips
<1>5. IsLeft(Ranges(r))
  BY <1>1, <1>4, FieldNames, BeforeIsLeft DEF Ranges
<1>6. IsLeft(Sinces(r))
  BY <1>1, <1>5, FieldNames, BeforeIsLeft DEF Sinces
<1>7. IsLeft(Matches(r))
  BY <1>1, <1>6, FieldNames, BeforeIsLeft DEF Matches
<1>8. IsLeft(Hosts(r)) /\ Left(Hosts(r)) = Hosts(r)
  BY <1>7, FieldNames, BeforeIsLeft DEF Hosts
<1>9. Hosts(r) # Return
  <2>1. Return # <<>>
    BY DEF Return
  <2> QED
    BY <1>8, <2>1 DEF Left
<1> QED
  BY <1>2, <1>3, <1>4, <1>5, <1>6, <1>7, <1>8, <1>9

\* The header lines of a request, one before the other.
LEMMA HeaderLinesAre ==
    ASSUME NEW r, IsRequest(r)
    PROVE  Fits(HeaderLines(r), Return, Hosts(r))
<1> DEFINE f1 == Field(TRUE, "Host", "device")
           f2 == Field(r.copy # <<>>, "If-None-Match", "etag")
           f3 == Field(r.copy # <<>>, "If-Modified-Since", "date")
           f4 == Field(r.range # <<>>, "Range", "range")
           f5 == Field(r.gzip, "Accept-Encoding", "gzip")
           f6 == Field(r.depth, "Depth", "0")
<1>1. r.depth \in BOOLEAN /\ r.gzip \in BOOLEAN /\ (r.range # <<>>) \in BOOLEAN /\ (r.copy # <<>>) \in BOOLEAN
  BY DEF IsRequest
<1>2. /\ Return \in Text /\ Depths(r) \in Text /\ Gzips(r) \in Text /\ Ranges(r) \in Text
      /\ Sinces(r) \in Text /\ Matches(r) \in Text
  BY LinesAreLeft DEF IsLeft
<1>3. Fits(f6, Return, Depths(r))
  BY <1>1, <1>2, FieldNames, FieldIs DEF Depths
<1>4. Fits(f5, Depths(r), Gzips(r))
  BY <1>1, <1>2, FieldNames, FieldIs DEF Gzips
<1>5. Fits(f4, Gzips(r), Ranges(r))
  BY <1>1, <1>2, FieldNames, FieldIs DEF Ranges
<1>6. Fits(f3, Ranges(r), Sinces(r))
  BY <1>1, <1>2, FieldNames, FieldIs DEF Sinces
<1>7. Fits(f2, Sinces(r), Matches(r))
  BY <1>1, <1>2, FieldNames, FieldIs DEF Matches
<1>8. Fits(f1, Matches(r), Hosts(r))
  BY <1>2, FieldNames, FieldIs DEF Hosts
<1>9. HeaderLines(r) = f1 \o f2 \o f3 \o f4 \o f5 \o f6
  BY DEF HeaderLines
<1> HIDE DEF f1, f2, f3, f4, f5, f6
<1> DEFINE g2 == f1 \o f2
           g3 == g2 \o f3
           g4 == g3 \o f4
           g5 == g4 \o f5
           g6 == g5 \o f6
<1>10. Fits(g2, Sinces(r), Hosts(r))
  BY <1>7, <1>8, JoinFits
<1> HIDE DEF g2
<1>11. Fits(g3, Ranges(r), Hosts(r))
  BY <1>6, <1>10, JoinFits
<1> HIDE DEF g3
<1>12. Fits(g4, Gzips(r), Hosts(r))
  BY <1>5, <1>11, JoinFits
<1> HIDE DEF g4
<1>13. Fits(g5, Depths(r), Hosts(r))
  BY <1>4, <1>12, JoinFits
<1> HIDE DEF g5
<1>14. Fits(g6, Return, Hosts(r))
  BY <1>3, <1>13, JoinFits
<1> QED
  BY <1>9, <1>14 DEF g2, g3, g4, g5

\* The message of a browser.
End == <<"\n">>

\* A message is its request line, its header lines and the empty line.
LEMMA MessageIs ==
    ASSUME NEW r, IsRequest(r)
    PROVE  Fits(Lead(r.method, r.uri, Hosts(r)), End, Message(r))
<1> DEFINE method == r.method
           space == " "
           version == "HTTP/1.1"
           cr == "\r"
           lf == "\n"
           first == <<method, space>>
           third == <<space, version>>
           line == <<cr, lf>>
           lines == HeaderLines(r)
           s1 == Cons(cr, Cons(lf, Hosts(r)))
           s2 == Cons(space, Cons(version, s1))
           s3 == r.uri \o s2
           s4 == Lead(method, r.uri, Hosts(r))
           m2 == first \o r.uri
           m3 == m2 \o third
           m4 == m3 \o line
           m5 == m4 \o lines
<1>1. method \in Symbol /\ space \in Symbol /\ version \in Symbol /\ cr \in Symbol /\ lf \in Symbol
  BY Blanks DEF IsRequest, Symbol, Named
<1>2. Message(r) = m5 \o line
  BY DEF Message, Line
<1>3. s4 = Cons(method, Cons(space, s3))
  BY DEF Lead
<1>4. Return = <<cr>> /\ End = <<lf>>
  BY DEF Return, End
<1> HIDE DEF method, space, version, cr, lf
<1>5. Fits(lines, Return, Hosts(r))
  BY HeaderLinesAre
<1>6. Hosts(r) \in Text /\ Return \in Text /\ r.uri \in Text
  BY LinesAreLeft, PathIsText DEF IsLeft, IsRequest, IsPath
<1> HIDE DEF s4, lines
<1>7. Fits(line, Hosts(r), s1)
  BY <1>1, <1>6, PairJoin
<1>8. s1 \in Text
  BY <1>7, FitsText
<1> HIDE DEF s1
<1>9. Fits(third, s1, s2)
  BY <1>1, <1>8, PairJoin
<1>10. s2 \in Text
  BY <1>9, FitsText
<1> HIDE DEF s2
<1>11. Fits(r.uri, s2, s3)
  BY <1>6, <1>10 DEF Fits
<1>12. s3 \in Text
  BY <1>11, FitsText
<1> HIDE DEF s3
<1>13. Fits(first, s3, s4)
  BY <1>1, <1>3, <1>12, PairJoin
<1> HIDE DEF first, third, line
<1>14. Fits(m2, s2, s4)
  BY <1>11, <1>13, JoinFits
<1> HIDE DEF m2
<1>15. Fits(m3, s1, s4)
  BY <1>9, <1>14, JoinFits
<1> HIDE DEF m3
<1>16. Fits(m4, Hosts(r), s4)
  BY <1>7, <1>15, JoinFits
<1> HIDE DEF m4
<1>17. Fits(m5, Return, s4)
  BY <1>5, <1>16, JoinFits
<1>18. line = Cons(cr, End)
  BY <1>1, <1>4, PairIs DEF line
<1>19. m5 \o line = s4 \o End
  <2>1. m5 \in Seq(Symbol) /\ Return \in Seq(Symbol) /\ End \in Seq(Symbol)
    BY <1>1, <1>4, <1>17 DEF Fits, Text
  <2>2. line = Return \o End
    BY <1>4, <1>18 DEF Cons
  <2> HIDE DEF m5
  <2>3. (m5 \o Return) \o End = m5 \o (Return \o End)
    BY <2>1, ConcatAssociative
  <2>4. m5 \o Return = s4
    BY <1>17 DEF Fits
  <2> QED
    BY <2>2, <2>3, <2>4
<1>20. s4 \in Text /\ End \in Text
  <2>1. End \in Text
    BY <1>1, <1>4 DEF Text
  <2> QED
    BY <1>17, <2>1, FitsText
<1>21. Fits(s4, End, Message(r))
  BY <1>2, <1>19, <1>20 DEF Fits
<1> QED
  BY <1>21 DEF s4, method

\* parse_http_message cuts off the last line end.
LEMMA EndIsCut ==
    ASSUME NEW s, NEW m, Fits(s, End, m)
    PROVE  SubSeq(m, 1, Len(m) - 1) = s
<1>1. s \in Text /\ End \in Text /\ m = s \o End /\ Len(End) = 1
  BY DEF Fits, End
<1>2. /\ m \in Text /\ Len(m) = Len(s) + Len(End)
      /\ \A i \in 1..(Len(s) + Len(End)) : m[i] = IF i <= Len(s) THEN s[i] ELSE End[i - Len(s)]
      /\ Len(s) \in Nat
  BY <1>1, JoinIs
<1> DEFINE x == SubSeq(m, 1, Len(m) - 1)
<1>3. Len(m) - 1 = Len(s) /\ \A i \in 1..Len(s) : m[i] = s[i]
  BY <1>1, <1>2
<1>4. x \in Seq(Symbol) /\ Len(x) = Len(s) /\ \A i \in 1..Len(s) : x[i] = m[i]
  BY <1>2, <1>3 DEF Text
<1>5. s \in Seq(Symbol)
  BY <1>1 DEF Text
<1> HIDE DEF x
<1>6. x = s
  BY <1>3, <1>4, <1>5, SeqEqual
<1> QED
  BY <1>6 DEF x

\* The names of the headers of a request.
HeaderNames(r) ==
    With(With(With(With(With(With({}, TRUE, "Host"), r.copy # <<>>, "If-None-Match"),
         r.copy # <<>>, "If-Modified-Since"), r.range # <<>>, "Range"),
         r.gzip, "Accept-Encoding"), r.depth, "Depth")

\* parse_http_headers finds all of them.
LEMMA HeadersAre ==
    ASSUME NEW r, IsRequest(r), MaxHeaders \in Nat
    PROVE  Carries(ParseHeaders(Hosts(r), MaxHeaders), HeaderNames(r))
<1>1. /\ r.depth \in BOOLEAN /\ r.gzip \in BOOLEAN /\ (r.range # <<>>) \in BOOLEAN /\ (r.copy # <<>>) \in BOOLEAN
      /\ TRUE \in BOOLEAN
  BY DEF IsRequest
<1>2. PICK take : /\ take[0] = [rest |-> Hosts(r), headers |-> <<>>]
                  /\ \A i \in 1..MaxHeaders : take[i] = TakeHeader(take[i - 1])
                  /\ ParseHeaders(Hosts(r), MaxHeaders) = take[MaxHeaders].headers
  <2>1. Hosts(r) \in Text
    BY LinesAreLeft DEF IsLeft
  <2> QED
    BY <2>1, ParseHeadersIs
<1>3. Takes(take, MaxHeaders)
  BY <1>2 DEF Takes
<1> DEFINE n0 == {}
           n1 == With(n0, TRUE, "Host")
           n2 == With(n1, r.copy # <<>>, "If-None-Match")
           n3 == With(n2, r.copy # <<>>, "If-Modified-Since")
           n4 == With(n3, r.range # <<>>, "Range")
           n5 == With(n4, r.gzip, "Accept-Encoding")
           n6 == With(n5, r.depth, "Depth")
           k1 == Plus(0, TRUE)
           k2 == Plus(k1, r.copy # <<>>)
           k3 == Plus(k2, r.copy # <<>>)
           k4 == Plus(k3, r.range # <<>>)
           k5 == Plus(k4, r.gzip)
           k6 == Plus(k5, r.depth)
<1>4. /\ 0 \in Nat /\ k1 \in Nat /\ k2 \in Nat /\ k3 \in Nat /\ k4 \in Nat /\ k5 \in Nat /\ k6 \in Nat
      /\ k1 <= MaxHeaders /\ k2 <= MaxHeaders /\ k3 <= MaxHeaders /\ k4 <= MaxHeaders
      /\ k5 <= MaxHeaders /\ k6 <= MaxHeaders
  <2>1. k6 <= Count(r) /\ Count(r) \in Nat
    BY <1>1 DEF Plus, Count
  <2>2. k1 = 1 /\ (k2 = k1 \/ k2 = k1 + 1) /\ (k3 = k2 \/ k3 = k2 + 1) /\ (k4 = k3 \/ k4 = k3 + 1)
        /\ (k5 = k4 \/ k5 = k4 + 1) /\ (k6 = k5 \/ k6 = k5 + 1)
    BY DEF Plus
  <2>3. Count(r) <= MaxHeaders
    BY DEF IsRequest
  <2> HIDE DEF k1, k2, k3, k4, k5, k6
  <2> QED
    BY <2>1, <2>2, <2>3
<1>5. HasTaken(take, 0, Hosts(r), n0)
  <2>1. take[0] = Taken(Left(Hosts(r)), <<>>)
    BY <1>2, LinesAreLeft DEF Taken
  <2>2. Carries(<<>>, n0)
    BY DEF Carries
  <2> QED
    BY <2>1, <2>2 DEF HasTaken
<1> HIDE DEF n0
<1>6. HasTaken(take, k1, Matches(r), n1)
  BY <1>1, <1>3, <1>4, <1>5, LinesAreLeft, FieldNames, FieldIsTaken DEF Hosts
<1> HIDE DEF k1, n1
<1>7. HasTaken(take, k2, Sinces(r), n2)
  BY <1>1, <1>3, <1>4, <1>6, LinesAreLeft, FieldNames, FieldIsTaken DEF Matches
<1> HIDE DEF k2, n2
<1>8. HasTaken(take, k3, Ranges(r), n3)
  BY <1>1, <1>3, <1>4, <1>7, LinesAreLeft, FieldNames, FieldIsTaken DEF Sinces
<1> HIDE DEF k3, n3
<1>9. HasTaken(take, k4, Gzips(r), n4)
  BY <1>1, <1>3, <1>4, <1>8, LinesAreLeft, FieldNames, FieldIsTaken DEF Ranges
<1> HIDE DEF k4, n4
<1>10. HasTaken(take, k5, Depths(r), n5)
  BY <1>1, <1>3, <1>4, <1>9, LinesAreLeft, FieldNames, FieldIsTaken DEF Gzips
<1> HIDE DEF k5, n5
<1>11. HasTaken(take, k6, Return, n6)
  BY <1>1, <1>3, <1>4, <1>10, LinesAreLeft, FieldNames, FieldIsTaken DEF Depths
<1>12. k6 \in 0..MaxHeaders
  BY <1>4
<1> HIDE DEF k6, n6
<1>13. Carries(take[MaxHeaders].headers, n6)
  BY <1>3, <1>11, <1>12, AllTaken
<1>14. n6 = HeaderNames(r)
  BY DEF n0, n1, n2, n3, n4, n5, n6, HeaderNames
<1> QED
  BY <1>2, <1>13, <1>14

\* A header is there if and only if the browser sent it.
IsSent(headers, r) ==
    /\ (Header(headers, "Range") # None) = (r.range # <<>>)
    /\ (Header(headers, "Accept-Encoding") # None) = r.gzip
    /\ (Header(headers, "Depth") # None) = r.depth
    /\ (Header(headers, "If-None-Match") # None) = (r.copy # <<>>)
    /\ (Header(headers, "If-Modified-Since") # None) = (r.copy # <<>>)

\* Headers that carry the names of a request are those that ReadAsSent asks for.
LEMMA HeadersAreSent ==
    ASSUME NEW r, IsRequest(r), NEW hs, Carries(hs, HeaderNames(r))
    PROVE  IsSent(hs, r)
<1>1. r.depth \in BOOLEAN /\ r.gzip \in BOOLEAN
  BY DEF IsRequest
<1>2. /\ "Range" \in HeaderNames(r) <=> r.range # <<>>
      /\ "Accept-Encoding" \in HeaderNames(r) <=> r.gzip
      /\ "Depth" \in HeaderNames(r) <=> r.depth
      /\ "If-None-Match" \in HeaderNames(r) <=> r.copy # <<>>
      /\ "If-Modified-Since" \in HeaderNames(r) <=> r.copy # <<>>
  <2>1. ASSUME NEW n
        PROVE  n \in HeaderNames(r) <=>
                 \/ n = "Host"
                 \/ n = "If-None-Match" /\ r.copy # <<>>
                 \/ n = "If-Modified-Since" /\ r.copy # <<>>
                 \/ n = "Range" /\ r.range # <<>>
                 \/ n = "Accept-Encoding" /\ r.gzip
                 \/ n = "Depth" /\ r.depth
    BY DEF HeaderNames, With
  <2> QED
    BY <2>1
<1>3. \A name : Header(hs, name) # None <=> name \in HeaderNames(r)
  BY HeaderIs
<1> QED
  BY <1>1, <1>2, <1>3 DEF IsSent

\* It ignores no blanks in front of a method.
LEMMA NoBlanks ==
    ASSUME NEW a, NEW t, NEW u, Fits(a, t, u), NEW B, Len(a) > 0, a[1] \notin B
    PROVE  Span(u, B) = 0
<1>1. a \in Text /\ t \in Text /\ a \o t = u
  BY DEF Fits
<1>2. /\ u \in Text /\ Len(u) = Len(a) + Len(t)
      /\ \A i \in 1..(Len(a) + Len(t)) : u[i] = IF i <= Len(a) THEN a[i] ELSE t[i - Len(a)]
      /\ Len(a) \in Nat /\ Len(t) \in Nat
  BY <1>1, JoinIs
<1>3. u[0 + 1] \notin B /\ 0 \in 0..Len(u)
  BY <1>2
<1>4. \A j \in 1..0 : u[j] \in B
  OBVIOUS
<1> QED
  BY <1>2, <1>3, <1>4, SpanIs

\* parse_http_message reads what the browser sent.
LEMMA ParsedAsSent ==
    ASSUME NEW r, IsRequest(r), MaxHeaders \in Nat
    PROVE  LET m == ParseMessage(Message(r), MaxHeaders)
           IN m.method = <<r.method>> /\ m.uri = r.uri /\ IsSent(m.headers, r)
<1> DEFINE s == Message(r)
           lead == Lead(r.method, r.uri, Hosts(r))
           begin   == Rest(SubSeq(s, 1, Len(s) - 1), Span(s, {" ", "\r", "\n"}))
           method  == Skip(begin, {" "})
           uri     == Skip(method.rest, {" "})
           version == Skip(uri.rest, {"\r", "\n"})
           p == ParseMessage(s, MaxHeaders)
<1>1. p.method = method.word /\ p.uri = uri.word /\ p.headers = ParseHeaders(version.rest, MaxHeaders)
  BY DEF ParseMessage
<1>2. Fits(lead, End, s)
  BY MessageIs
<1>3. SubSeq(s, 1, Len(s) - 1) = lead
  BY <1>2, EndIsCut
<1>4. lead \in Text /\ Len(lead) > 0 /\ lead[1] \notin {" ", "\r", "\n"} /\ IsCut(lead, r.method, r.uri, Hosts(r))
  <2>1. r.method \in Methods /\ IsPath(r.uri) /\ IsLeft(Hosts(r)) /\ Hosts(r) # Return
    BY LinesAreLeft DEF IsRequest
  <2> QED
    BY <2>1, CutLead
<1> HIDE DEF lead
<1>5. Span(s, {" ", "\r", "\n"}) = 0
  <2> DEFINE B == {" ", "\r", "\n"}
  <2>1. lead \in Text /\ Len(lead) > 0 /\ lead[1] \notin B
    BY <1>4
  <2> HIDE DEF B, s
  <2>2. Span(s, B) = 0
    BY <1>2, <2>1, NoBlanks
  <2> QED
    BY <2>2 DEF B
<1>6. begin = lead
  <2>1. begin = Rest(lead, 0)
    BY <1>3, <1>5
  <2>2. Rest(lead, 0) = lead
    BY <1>4, RestOfNone
  <2> QED
    BY <2>1, <2>2
<1>7. method.word = <<r.method>> /\ uri.word = r.uri /\ version.rest = Hosts(r)
  <2> HIDE DEF begin
  <2>1. IsCut(begin, r.method, r.uri, Hosts(r))
    BY <1>4, <1>6
  <2> QED
    BY <2>1 DEF IsCut
<1> HIDE DEF method, uri, version, p, s
<1>8. p.method = <<r.method>> /\ p.uri = r.uri /\ p.headers = ParseHeaders(Hosts(r), MaxHeaders)
  BY <1>1, <1>7
<1>9. IsSent(p.headers, r)
  BY <1>8, HeadersAre, HeadersAreSent
<1> QED
  BY <1>8, <1>9 DEF p, s

\* The path that the worker makes of a URI.
Clean(uri) == Rewritten(UrlDecode(uri))

\* The decoded URI, without double slashes and dots, is what the worker goes by.
LEMMA CleanIs ==
    ASSUME NEW uri, IsPath(uri)
    PROVE  /\ Clean(uri) \in Path /\ Clean(uri) # <<>>
           /\ RemoveDoubleDots(UrlDecode(uri)) = Clean(uri)
           /\ SubSeq(uri, 1, Until(uri, {"?"})) = uri
<1> DEFINE d == UrlDecode(uri)
<1>1. uri \in Path /\ uri \in Text /\ d \in Path /\ d \in Text /\ d # <<>>
  BY UrlDecodeIsPath, PathIsText DEF IsPath
<1> HIDE DEF d
<1>2. RemoveDoubleDots(d) = Rewritten(d)
  BY <1>1, PathTheorem
<1>3. Rewritten(d) \in Path /\ Rewritten(d) # <<>>
  BY <1>1, <1>2, CleanIsPath
<1>4. Until(uri, {"?"}) = Len(uri)
  <2> DEFINE D == {"?"}
  <2>1. \A j \in 1..Len(uri) : uri[j] \in Letter
    BY <1>1 DEF Path
  <2>2. \A j \in 1..Len(uri) : uri[j] \notin D
    BY <2>1 DEF Letter, Blank
  <2> HIDE DEF D
  <2>3. Len(uri) \in 0..Len(uri)
    BY <1>1 DEF Text
  <2>4. Until(uri, D) = Len(uri)
    BY <1>1, <2>2, <2>3, UntilIs
  <2> QED
    BY <2>4 DEF D
<1>5. SubSeq(uri, 1, Len(uri)) = uri
  <2>1. Rest(uri, 0) = uri
    BY <1>1, RestOfNone
  <2> QED
    BY <2>1 DEF Rest
<1> QED
  BY <1>2, <1>3, <1>4, <1>5 DEF Clean, d

-----------------------------------------------------------------------------
(* The invariant of the worker and its browser.                             *)

ConnFields == DOMAIN NoConn

AnswerFields == DOMAIN NoAnswer

Buffer(uri) == Overwrite(Overwrite(uri, UrlDecode(uri)), Clean(uri))

\* What the worker has read of a request.
IsRead ==
    /\ conn.method = <<asked.method>>
    /\ conn.uri = Clean(asked.uri)
    /\ IsSent(conn.headers, asked)
    /\ conn.buffer = Buffer(asked.uri)

\* A redirect leads to the URI with a slash behind it, which the buffer did
\* not have.
IsRedirect == answer.location = Append(conn.uri, "/") /\ Last(conn.buffer) # "/"

ReadInv ==
    /\ DOMAIN conn = ConnFields /\ DOMAIN answer = AnswerFields /\ DOMAIN asked = DOMAIN NoRequest
    /\ (pc = "idle") = (browser = "idle")
    /\ pc # "idle" => IsRequest(asked)
    /\ pc \notin {"idle", "request"} => IsRead
    /\ pc \in {"idle", "request"} => answer = NoAnswer
    /\ answer.status = 301 => IsRedirect
    /\ hops \in Nat
    /\ hops > 0 => pc # "idle" /\ Last(asked.uri) = "/"

\* A step of the worker behind the parser changes nothing of that.
Reads ==
    /\ pc \notin {"idle", "request"} /\ pc' \notin {"idle", "request"}
    /\ UNCHANGED user
    /\ DOMAIN conn' = ConnFields /\ conn'.method = conn.method /\ conn'.headers = conn.headers
    /\ conn'.uri = conn.uri /\ conn'.buffer = conn.buffer
    /\ DOMAIN answer' = AnswerFields
    /\ answer'.status = 301 /\ answer.status # 301 => IsRedirect'
    /\ answer'.status = 301 /\ answer.status = 301 => answer'.location = answer.location

\* A step of the worker that keeps what it has read keeps the invariant.
LEMMA ReadsKeep == ASSUME ReadInv, Reads PROVE ReadInv'
<1>1. browser' = browser /\ asked' = asked /\ hops' = hops
  BY DEF Reads, user
<1>2. browser # "idle" /\ IsRead /\ IsRequest(asked)
  BY DEF ReadInv, Reads
<1>3. IsRead'
  BY <1>1, <1>2 DEF IsRead, Reads
<1>4. answer'.status = 301 => IsRedirect'
  BY DEF Reads, ReadInv, IsRedirect
<1> QED
  BY <1>1, <1>2, <1>3, <1>4 DEF ReadInv, Reads

\* What only changes the files, the clock or the browser leaves them alone.
LEMMA ServerKeeps ==
    ASSUME ReadInv, UNCHANGED server, asked' = asked, hops' = hops, (browser = "idle") = (browser' = "idle")
    PROVE  ReadInv'
<1>1. pc' = pc /\ conn' = conn /\ answer' = answer
  BY DEF server
<1> QED
  BY <1>1 DEF ReadInv, IsRead, IsRedirect

\* A reply keeps what was read.
LEMMA ReplyReads ==
    ASSUME ReadInv, pc \notin {"idle", "request"}, NEW status, NEW location, Reply(status, location),
           status = 301 => location = Append(conn.uri, "/") /\ Last(conn.buffer) # "/"
    PROVE  Reads
<1>1. answer' = [NoAnswer EXCEPT !.status = status, !.location = location] /\ pc' = "done"
      /\ conn' = conn /\ UNCHANGED user
  BY DEF Reply
<1>2. DOMAIN answer' = AnswerFields /\ answer'.status = status /\ answer'.location = location
  BY <1>1 DEF NoAnswer, AnswerFields
<1>3. DOMAIN conn = ConnFields
  BY DEF ReadInv
<1>4. answer.status = 301 => answer.location = Append(conn.uri, "/")
  BY DEF ReadInv, IsRedirect
<1> QED
  BY <1>1, <1>2, <1>3, <1>4 DEF Reads, IsRedirect

\* A step to another place keeps what was read.
LEMMA GoReads ==
    ASSUME ReadInv, pc \notin {"idle", "request"}, NEW place, place \notin {"idle", "request"},
           NEW c, Go(place, c), DOMAIN c = ConnFields,
           c.method = conn.method, c.headers = conn.headers, c.uri = conn.uri, c.buffer = conn.buffer
    PROVE  Reads
  BY DEF Go, Reads, ReadInv

\* What the worker knows and has sent between two requests.
LEMMA NoAnswerIs == NoAnswer.status # 301 /\ DOMAIN NoAnswer = AnswerFields /\ DOMAIN NoConn = ConnFields
  BY DEF NoAnswer, AnswerFields, ConnFields

\* In the beginning there is nothing to read.
LEMMA ReadInit == ASSUME Init PROVE ReadInv
<1>1. /\ browser = "idle" /\ asked = NoRequest /\ hops = 0
      /\ pc = "idle" /\ conn = NoConn /\ answer = NoAnswer
  BY DEF Init
<1> QED
  BY <1>1, NoAnswerIs DEF ReadInv

\* What the constants allow a browser to ask.
LEMMA RequestsAreRequests ==
    ASSUME NEW r \in Requests
    PROVE  r.method \in Methods /\ IsPath(r.uri) /\ r.gzip \in BOOLEAN /\ r.depth \in BOOLEAN /\ Count(r) <= MaxHeaders
<1>1. /\ r.method \in Methods /\ r.gzip \in BOOLEAN /\ r.depth \in BOOLEAN /\ Count(r) <= MaxHeaders
      /\ r.uri \in Seq(STRING) /\ r.uri # <<>>
  BY FileAssumption
<1>2. \A i \in DOMAIN r.uri : r.uri[i] \notin Blank
  BY FileAssumption DEF Blank
<1> DEFINE u == r.uri
<1>3. u \in Seq(STRING) /\ u # <<>> /\ \A i \in DOMAIN u : u[i] \notin Blank
  BY <1>1, <1>2
<1> HIDE DEF u
<1>4. \A i \in DOMAIN u : u[i] \in Letter
  BY <1>3 DEF Letter, Symbol
<1>5. u \in Path
  BY <1>3, <1>4 DEF Path
<1> QED
  BY <1>1, <1>3, <1>5 DEF IsPath, u

\* A new request: the worker is idle, or has closed the last one.
LEMMA AskReads == ASSUME ReadInv, Ask PROVE ReadInv'
<1>1. PICK r \in Requests :
        asked' = [method |-> r.method, uri |-> r.uri, range |-> r.range, gzip |-> r.gzip,
                  depth |-> r.depth, at |-> clock, copy |-> KeptFor(r)]
  BY DEF Ask
<1>2. /\ asked'.method = r.method /\ asked'.uri = r.uri /\ asked'.range = r.range
      /\ asked'.gzip = r.gzip /\ asked'.depth = r.depth
      /\ DOMAIN asked' = DOMAIN NoRequest
  BY <1>1 DEF NoRequest
<1>3. Count(asked') = Count(r)
  BY <1>2 DEF Count
<1>4. IsRequest(asked')
  BY <1>2, <1>3, RequestsAreRequests DEF IsRequest
<1>5. browser = "idle" /\ browser' = "waiting" /\ hops' = 0 /\ pc' = "request" /\ conn' = conn /\ answer' = answer
  BY DEF Ask
<1>6. pc = "idle" /\ answer = NoAnswer
  BY <1>5 DEF ReadInv
<1> QED
  BY <1>2, <1>4, <1>5, <1>6 DEF ReadInv, NoAnswer

\* A redirect is followed by the location, which has a slash behind it.
LEMMA GetAnswerReads == ASSUME ReadInv, GetAnswer PROVE ReadInv'
<1>1. browser = "waiting" /\ pc = "done" /\ conn' = NoConn /\ answer' = NoAnswer
  BY DEF GetAnswer
<1>2. IsRead /\ IsRequest(asked)
  BY <1>1 DEF ReadInv
<1>3. DOMAIN conn' = ConnFields /\ DOMAIN answer' = AnswerFields /\ answer'.status # 301
  BY <1>1 DEF ConnFields, AnswerFields, NoAnswer
<1>4. CASE answer.status = 301 /\ hops < MaxHops
  <2>1. /\ asked' = [asked EXCEPT !.uri = answer.location, !.copy = <<>>, !.at = clock]
        /\ hops' = hops + 1 /\ pc' = "request" /\ browser' = browser
    BY <1>4 DEF GetAnswer
  <2>2. answer.location = Append(conn.uri, "/")
    BY <1>4 DEF ReadInv, IsRedirect
  <2>3. /\ asked'.method = asked.method /\ asked'.uri = answer.location /\ asked'.range = asked.range
        /\ asked'.gzip = asked.gzip /\ asked'.depth = asked.depth /\ DOMAIN asked' = DOMAIN NoRequest
    BY <2>1 DEF ReadInv, NoRequest
  <2>4. conn.uri \in Path
    BY <1>2, CleanIs DEF IsRead, IsRequest
  <2>5. IsPath(answer.location) /\ Last(answer.location) = "/"
    <3> DEFINE u == conn.uri
               slash == "/"
    <3>1. slash \in Letter
      BY DEF Letter, Symbol, Named, Blank
    <3>2. u \in Path
      BY <2>4
    <3> HIDE DEF u, slash
    <3>3. Append(u, slash) \in Path /\ Append(u, slash) # <<>> /\ Last(Append(u, slash)) = slash
      BY <3>1, <3>2 DEF Path, Last
    <3> QED
      BY <2>2, <3>3 DEF IsPath, u, slash
  <2>6. IsRequest(asked')
    BY <1>2, <2>3, <2>5 DEF IsRequest, Count
  <2>7. hops' \in Nat /\ Last(asked'.uri) = "/"
    BY <2>1, <2>3, <2>5 DEF ReadInv
  <2> QED
    BY <1>1, <1>3, <2>1, <2>3, <2>6, <2>7 DEF ReadInv
<1>5. CASE ~(answer.status = 301 /\ hops < MaxHops)
  <2>1. browser' = "idle" /\ asked' = NoRequest /\ hops' = 0 /\ pc' = "idle"
    BY <1>5 DEF GetAnswer
  <2> QED
    BY <1>1, <1>3, <2>1 DEF ReadInv
<1> QED
  BY <1>4, <1>5

\* The worker forgets what it has read.
LEMMA CloseConnectionReads == ASSUME ReadInv, CloseConnection PROVE ReadInv'
<1>1. /\ browser' = "idle" /\ asked' = NoRequest /\ hops' = 0
      /\ pc' = "idle" /\ conn' = NoConn /\ answer' = NoAnswer
  BY DEF CloseConnection
<1>2. DOMAIN conn' = ConnFields /\ DOMAIN answer' = AnswerFields /\ answer'.status # 301
  BY <1>1 DEF ConnFields, AnswerFields, NoAnswer
<1> QED
  BY <1>1, <1>2 DEF ReadInv

\* The worker reads what the browser has sent.
LEMMA ReadRequestReads == ASSUME ReadInv, ReadRequest PROVE ReadInv'
<1>1. pc = "request" /\ IsRequest(asked) /\ browser # "idle" /\ answer = NoAnswer
  BY DEF ReadRequest, ReadInv
<1> DEFINE m == ParseMessage(Message(asked), MaxHeaders)
           raw == SubSeq(m.uri, 1, Until(m.uri, {"?"}))
           decoded == UrlDecode(raw)
           clean == RemoveDoubleDots(decoded)
           c == [NoConn EXCEPT !.method = m.method, !.headers = m.headers, !.uri = clean,
                              !.path = clean, !.file = Stat(clean),
                              !.buffer = Overwrite(Overwrite(raw, decoded), clean)]
<1>2. \E place \in {"stat gz", "decide"} : Go(place, c)
  BY DEF ReadRequest
<1>3. /\ conn' = c /\ pc' \in {"stat gz", "decide"} /\ answer' = answer
      /\ browser' = browser /\ asked' = asked /\ hops' = hops
  BY <1>2 DEF Go, user
<1>4. /\ DOMAIN c = ConnFields /\ c.method = m.method /\ c.headers = m.headers /\ c.uri = clean
      /\ c.buffer = Overwrite(Overwrite(raw, decoded), clean)
  BY DEF NoConn, ConnFields
<1>5. m.method = <<asked.method>> /\ m.uri = asked.uri /\ IsSent(m.headers, asked)
  <2>1. MaxHeaders \in Nat
    BY FileAssumption
  <2> QED
    BY <1>1, <2>1, ParsedAsSent
<1>6. raw = asked.uri /\ clean = Clean(asked.uri)
  <2>1. IsPath(asked.uri)
    BY <1>1 DEF IsRequest
  <2> HIDE DEF m
  <2>2. raw = asked.uri
    BY <1>5, <2>1, CleanIs
  <2> QED
    BY <2>1, <2>2, CleanIs
<1> HIDE DEF m, c, raw, decoded, clean
<1>7. c.buffer = Buffer(asked.uri)
  BY <1>4, <1>6 DEF Buffer, decoded
<1>8. IsRead'
  BY <1>3, <1>4, <1>5, <1>6, <1>7 DEF IsRead
<1>9. answer' = NoAnswer
  BY <1>1, <1>3
<1> QED
  BY <1>1, <1>3, <1>4, <1>8, <1>9, NoAnswerIs DEF ReadInv

\* The steps of the worker behind the parser.
LEMMA DecideReads == ASSUME ReadInv, Decide PROVE Reads
<1>1. pc = "decide" /\ DOMAIN conn = ConnFields
  BY DEF Decide, SendOptions, SendAuthorizationRequest, NotFound, Redirect, OpenDirectory, OpenFile, Served, ReadInv
<1>2. CASE SendOptions
  BY <1>1, <1>2, ReplyReads DEF SendOptions
<1>3. CASE SendAuthorizationRequest
  BY <1>1, <1>3, ReplyReads DEF SendAuthorizationRequest
<1>4. CASE NotFound
  BY <1>1, <1>4, ReplyReads DEF NotFound
<1>5. CASE Redirect
  BY <1>1, <1>5, ReplyReads DEF Redirect
<1>6. CASE OpenDirectory
  <2> DEFINE c == [conn EXCEPT !.path = Stripped(@), !.index = 1]
  <2>1. Go("index", c)
    BY <1>6 DEF OpenDirectory
  <2>2. /\ DOMAIN c = ConnFields /\ c.method = conn.method /\ c.headers = conn.headers
        /\ c.uri = conn.uri /\ c.buffer = conn.buffer
    BY <1>1 DEF ConnFields, NoConn
  <2> HIDE DEF c
  <2> QED
    BY <1>1, <2>1, <2>2, GoReads
<1>7. CASE OpenFile
  <2>1. Go("file", conn)
    BY <1>7 DEF OpenFile
  <2> QED
    BY <1>1, <2>1, GoReads
<1> QED
  BY <1>2, <1>3, <1>4, <1>5, <1>6, <1>7 DEF Decide

\* Steps to a file, and those that send it.
LEMMA FileReads == ASSUME ReadInv, ConvertGz \/ File PROVE Reads
<1>1. DOMAIN conn = ConnFields /\ DOMAIN answer = AnswerFields
  BY DEF ReadInv
<1>2. CASE ConvertGz
  <2> DEFINE f == Stat(Append(conn.path, ".gz"))
             c == [conn EXCEPT !.file = f, !.gzipped = Exists(f)]
  <2>1. Go("decide", c) /\ pc = "stat gz"
    BY <1>2 DEF ConvertGz
  <2>2. /\ DOMAIN c = ConnFields /\ c.method = conn.method /\ c.headers = conn.headers
        /\ c.uri = conn.uri /\ c.buffer = conn.buffer
    BY <1>1 DEF ConnFields, NoConn
  <2> HIDE DEF c
  <2> QED
    BY <2>1, <2>2, GoReads
<1>3. CASE SubstituteIndexFile
  <2> DEFINE p == InDir(conn.path, IndexFiles[conn.index])
             c == [conn EXCEPT !.path = p, !.file = Stat(p), !.gzipped = FALSE]
             d == [conn EXCEPT !.index = @ + 1]
  <2>1. pc = "index" /\ (Go("opendir", conn) \/ Go("file", c) \/ Go("index", d))
    BY <1>3 DEF SubstituteIndexFile
  <2>2. /\ DOMAIN c = ConnFields /\ c.method = conn.method /\ c.headers = conn.headers
        /\ c.uri = conn.uri /\ c.buffer = conn.buffer
    BY <1>1 DEF ConnFields, NoConn
  <2>3. /\ DOMAIN d = ConnFields /\ d.method = conn.method /\ d.headers = conn.headers
        /\ d.uri = conn.uri /\ d.buffer = conn.buffer
    BY <1>1 DEF ConnFields, NoConn
  <2> HIDE DEF c, d
  <2> QED
    BY <1>1, <2>1, <2>2, <2>3, GoReads
<1>4. CASE SendFileData
  <2>1. /\ pc = "send" /\ pc' \in {"send", "close"} /\ UNCHANGED user
        /\ \E n : \/ conn' = conn /\ answer' = answer
                 \/ /\ conn' = [conn EXCEPT !.left = @ - n, !.offset = @ + n]
                    /\ answer' = [answer EXCEPT !.body = @ + n]
    BY <1>4 DEF SendFileData
  <2>2. /\ DOMAIN conn' = ConnFields /\ conn'.method = conn.method /\ conn'.headers = conn.headers
        /\ conn'.uri = conn.uri /\ conn'.buffer = conn.buffer
    BY <1>1, <2>1 DEF ConnFields, NoConn
  <2>3. DOMAIN answer' = AnswerFields /\ answer'.status = answer.status /\ answer'.location = answer.location
    BY <1>1, <2>1 DEF AnswerFields, NoAnswer
  <2> QED
    BY <2>1, <2>2, <2>3 DEF Reads
<1>5. CASE CloseFile
  <2> DEFINE c == [conn EXCEPT !.fp = FALSE]
  <2>1. Go("done", c) /\ pc = "close"
    BY <1>5 DEF CloseFile
  <2>2. /\ DOMAIN c = ConnFields /\ c.method = conn.method /\ c.headers = conn.headers
        /\ c.uri = conn.uri /\ c.buffer = conn.buffer
    BY <1>1 DEF ConnFields, NoConn
  <2> HIDE DEF c
  <2> QED
    BY <2>1, <2>2, GoReads
<1> QED
  BY <1>2, <1>3, <1>4, <1>5 DEF File

\* An entry of a listing changes the array only.
LEMMA ScanKeeps ==
    ASSUME NEW c, DOMAIN c = ConnFields, NEW e, NEW mem \in BOOLEAN
    PROVE  LET d == DirScanCallback(c, e, mem)
           IN /\ DOMAIN d = ConnFields /\ d.method = c.method /\ d.headers = c.headers
              /\ d.uri = c.uri /\ d.buffer = c.buffer /\ d.path = c.path
              /\ d.file = c.file /\ d.left = c.left /\ d.offset = c.offset /\ d.fp = c.fp
<1> DEFINE d == DirScanCallback(c, e, mem)
           full == c.entries = <<>> \/ Len(c.entries) >= c.arr
<1>1. CASE full /\ mem
  BY <1>1 DEF DirScanCallback, ConnFields, NoConn
<1>2. CASE full /\ ~mem
  BY <1>2 DEF DirScanCallback, ConnFields, NoConn
<1>3. CASE ~full
  BY <1>3 DEF DirScanCallback, ConnFields, NoConn
<1> QED
  BY <1>1, <1>2, <1>3

\* Steps to a directory, and those that list it.
LEMMA DirectoryReads == ASSUME ReadInv, Directory PROVE Reads
<1>1. DOMAIN conn = ConnFields /\ DOMAIN answer = AnswerFields
  BY DEF ReadInv
<1>2. CASE Propfind
  <2>1. /\ pc = "decide" /\ pc' \in {"readdir", "done"} /\ UNCHANGED user
        /\ \E s : answer' = [NoAnswer EXCEPT !.status = 207, !.shown = s]
    BY <1>2 DEF Propfind, Served
  <2>2. /\ DOMAIN conn' = ConnFields /\ conn'.method = conn.method /\ conn'.headers = conn.headers
        /\ conn'.uri = conn.uri /\ conn'.buffer = conn.buffer
    <3>1. \E p, there : \/ conn' = conn
                        \/ conn' = [conn EXCEPT !.path = p, !.dir = TRUE, !.there = there, !.unread = there]
      BY <1>2 DEF Propfind
    <3> QED
      BY <1>1, <3>1 DEF ConnFields, NoConn
  <2>3. DOMAIN answer' = AnswerFields /\ answer'.status = 207
    BY <2>1 DEF AnswerFields, NoAnswer
  <2> QED
    BY <2>1, <2>2, <2>3 DEF Reads
<1>3. CASE OpenDir
  <2> DEFINE names == Names(conn.path)
             c == [conn EXCEPT !.dir = TRUE, !.there = names, !.unread = names, !.arr = ArrSize]
  <2>1. Go("readdir", c) /\ pc = "opendir"
    BY <1>3 DEF OpenDir
  <2>2. /\ DOMAIN c = ConnFields /\ c.method = conn.method /\ c.headers = conn.headers
        /\ c.uri = conn.uri /\ c.buffer = conn.buffer
    BY <1>1 DEF ConnFields, NoConn
  <2> HIDE DEF c
  <2> QED
    BY <2>1, <2>2, GoReads
<1>4. CASE OpenDirFails
  BY <1>4, ReplyReads DEF OpenDirFails
<1>5. CASE ReadDir
  <2>1. pc = "readdir" /\ pc' = pc /\ UNCHANGED user
    BY <1>5 DEF ReadDir
  <2> DEFINE read(name) == [conn EXCEPT !.unread = @ \ {name}]
             f(name) == Stat(InDir(read(name).path, name))
             e(name) == [name |-> name, file |-> f(name),
                         href |-> IF IsListing
                                  THEN read(name).uri \o UrlEncode(name)
                                       \o (IF f(name).dir THEN <<"/">> ELSE <<>>)
                                  ELSE UrlEncode(read(name).uri \o name)]
  <2>2. PICK name \in conn.unread, mem \in BOOLEAN :
           /\ conn' = read(name) \/ conn' = DirScanCallback(read(name), e(name), mem)
           /\ answer' = answer \/ answer' = [answer EXCEPT !.shown = Append(@, e(name))]
    BY <1>5 DEF ReadDir
  <2> DEFINE c == read(name)
  <2>3. /\ DOMAIN c = ConnFields /\ c.method = conn.method /\ c.headers = conn.headers
        /\ c.uri = conn.uri /\ c.buffer = conn.buffer
    BY <1>1 DEF ConnFields, NoConn
  <2>4. /\ DOMAIN conn' = ConnFields /\ conn'.method = conn.method /\ conn'.headers = conn.headers
        /\ conn'.uri = conn.uri /\ conn'.buffer = conn.buffer
    <3>1. conn' = c \/ conn' = DirScanCallback(c, e(name), mem)
      BY <2>2
    <3> HIDE DEF c, e
    <3> QED
      BY <2>3, <3>1, ScanKeeps
  <2>5. DOMAIN answer' = AnswerFields /\ answer'.status = answer.status /\ answer'.location = answer.location
    BY <1>1, <2>2 DEF AnswerFields, NoAnswer
  <2> QED
    BY <2>1, <2>4, <2>5 DEF Reads
<1>6. CASE PrintDirectory
  <2>1. pc = "readdir" /\ pc' = "done" /\ UNCHANGED user
    BY <1>6 DEF PrintDirectory
  <2>2. /\ DOMAIN conn' = ConnFields /\ conn'.method = conn.method /\ conn'.headers = conn.headers
        /\ conn'.uri = conn.uri /\ conn'.buffer = conn.buffer
    BY <1>1, <1>6 DEF PrintDirectory, ConnFields, NoConn
  <2>3. DOMAIN answer' = AnswerFields /\ (answer'.status = 200 \/ answer' = answer)
    <3>1. PICK s : answer' = answer \/ answer' = [NoAnswer EXCEPT !.status = 200, !.shown = s]
      BY <1>6 DEF PrintDirectory
    <3> QED
      BY <1>1, <3>1 DEF AnswerFields, NoAnswer
  <2> QED
    BY <2>1, <2>2, <2>3 DEF Reads
<1> QED
  BY <1>2, <1>3, <1>4, <1>5, <1>6 DEF Directory

\* The answers that a file gives.
LEMMA AnswerReads == ASSUME ReadInv, NotModified \/ SendHead \/ FopenFails PROVE Reads
<1>1. DOMAIN conn = ConnFields /\ pc = "file"
  BY DEF ReadInv, NotModified, SendHead, FopenFails
<1>2. CASE NotModified
  BY <1>1, <1>2, ReplyReads DEF NotModified
<1>3. CASE FopenFails
  BY <1>1, <1>3, ReplyReads DEF FopenFails
<1>4. CASE SendHead
  <2> DEFINE range == IF Header(conn.headers, "Range") = None THEN <<>> ELSE asked.range
             n == Announced(range)
             status == IF range = <<>> THEN 200 ELSE 206
             offset == IF range = <<>> THEN 0 ELSE Least(range[1], conn.file.size)
             head == [NoAnswer EXCEPT !.status = status, !.announced = n, !.name = conn.path,
                                      !.file = conn.file]
             c == [conn EXCEPT !.fp = TRUE, !.left = n, !.offset = offset]
  <2>1. \/ Reply(501, <<>>)
        \/ answer' = head /\ conn' = c /\ pc' \in {"send", "close"} /\ UNCHANGED user
    BY <1>4 DEF SendHead
  <2>2. CASE Reply(501, <<>>)
    BY <1>1, <2>2, ReplyReads
  <2>3. CASE ~Reply(501, <<>>)
    <3>1. /\ DOMAIN c = ConnFields /\ c.method = conn.method /\ c.headers = conn.headers
          /\ c.uri = conn.uri /\ c.buffer = conn.buffer
      BY <1>1 DEF ConnFields, NoConn
    <3>2. status # 301
      OBVIOUS
    <3> HIDE DEF status
    <3>3. DOMAIN head = AnswerFields /\ head.status # 301
      BY <3>2 DEF AnswerFields, NoAnswer
    <3> HIDE DEF c, head
    <3> QED
      BY <1>1, <2>1, <2>3, <3>1, <3>3 DEF Reads
  <2> QED
    BY <2>2, <2>3
<1> QED
  BY <1>2, <1>3, <1>4

\* Every step keeps the invariant.
LEMMA ReadNext == ASSUME ReadInv, [Next]_vars PROVE ReadInv'
<1>1. CASE Tick \/ Copy \/ Leave \/ UNCHANGED vars
  <2>1. UNCHANGED server /\ asked' = asked /\ hops' = hops
    BY <1>1 DEF Tick, Copy, StartCopy, Extract, CopyFile, WriteFails, Kill, Leave, vars, user, server
  <2>2. (browser = "idle") = (browser' = "idle")
    BY <1>1 DEF Tick, Copy, StartCopy, Extract, CopyFile, WriteFails, Kill, Leave, vars, user
  <2> QED
    BY <2>1, <2>2, ServerKeeps
<1>2. CASE Ask \/ GetAnswer \/ CloseConnection \/ ReadRequest
  BY <1>2, AskReads, GetAnswerReads, CloseConnectionReads, ReadRequestReads
<1>3. CASE Serve \/ NotModified \/ SendHead \/ FopenFails
  <2>1. Reads
    BY <1>3, DecideReads, FileReads, DirectoryReads, AnswerReads DEF Serve
  <2> QED
    BY <2>1, ReadsKeep
<1> QED
  BY <1>1, <1>2, <1>3 DEF Next, Browser, Work

\* Whatever a browser writes, the worker reads it: ReadAsSent holds in every
\* reachable state.
THEOREM ReadAsSentTheorem == Spec => []ReadAsSent
<1>1. ReadInv => ReadAsSent
  BY DEF ReadInv, ReadAsSent, IsRead, IsSent, Clean
<1> QED
  BY <1>1, ReadInit, ReadNext, PTL DEF Spec

\* A redirect leads to a URI that is not redirected again, unless the server
\* rewrites it.
THEOREM RedirectHelpsTheorem == Spec => []RedirectHelps
<1>1. ASSUME ReadInv PROVE RedirectHelps
  <2> SUFFICES ASSUME answer.status = 301, hops > 0, asked.uri = Clean(asked.uri)
               PROVE  FALSE
    BY DEF RedirectHelps, Clean
  <2> DEFINE u == asked.uri
  <2>1. answer # NoAnswer
    BY NoAnswerIs
  <2>2. pc \notin {"idle", "request"} /\ IsRequest(asked) /\ IsRead /\ IsRedirect /\ Last(u) = "/"
    BY <1>1, <2>1 DEF ReadInv
  <2>3. IsPath(u)
    BY <2>2 DEF IsRequest
  <2>4. u \in Text /\ Len(u) > 0
    BY <2>3, PathIsText DEF IsPath
  <2>5. conn.buffer = Overwrite(Overwrite(u, UrlDecode(u)), u)
    BY <2>2 DEF IsRead, Buffer
  <2> HIDE DEF u
  <2>6. ASSUME NEW b, DOMAIN b = 1..Len(u) PROVE Overwrite(b, u) = u
    BY <2>4, <2>6 DEF Overwrite, Text
  <2>7. DOMAIN Overwrite(u, UrlDecode(u)) = 1..Len(u)
    BY <2>4 DEF Overwrite, Text
  <2>8. conn.buffer = u
    BY <2>5, <2>6, <2>7
  <2> QED
    BY <2>2, <2>8 DEF IsRedirect
<1> QED
  BY <1>1, ReadInit, ReadNext, PTL DEF Spec

-----------------------------------------------------------------------------
(* The types of the state, and what files do: they only grow.              *)
FileType == [dir : BOOLEAN, size : Nat, mtime : Nat]

AssetType == [path : Seq(STRING), size : Nat, dir : BOOLEAN]

Disk ==
    /\ \A p \in DOMAIN tree : tree[p] \in FileType
    /\ todo \in Seq(AssetType) /\ writing \in BOOLEAN /\ clock \in Nat
    /\ writing => todo # <<>>

Statuses == {0, 200, 206, 207, 301, 304, 401, 404, 500, 501}

Places == {"idle", "request", "stat gz", "decide", "index", "file", "send", "close", "opendir", "readdir", "done"}

\* A step never takes a file away, nor bytes of it, and what it changes is as
\* young as the clock.
Grows ==
    /\ DOMAIN tree \subseteq DOMAIN tree'
    /\ \A p \in DOMAIN tree :
         /\ tree'[p].dir = tree[p].dir /\ tree[p].size <= tree'[p].size
         /\ tree'[p] = tree[p] \/ tree'[p].mtime = clock
    /\ \A p \in DOMAIN tree' \ DOMAIN tree : tree'[p].size = 0 /\ tree'[p].mtime = clock

\* In the beginning there is the document root alone.
LEMMA DiskInit == ASSUME Init PROVE Disk
<1>1. clock \in Nat
  BY FileAssumption DEF Init
<1>2. \A p \in DOMAIN tree : tree[p] \in FileType
  <2> DEFINE root == [dir |-> TRUE, size |-> 0, mtime |-> clock]
  <2>1. root \in FileType
    BY <1>1 DEF FileType
  <2>2. tree = [p \in {Root} |-> root]
    BY DEF Init
  <2> HIDE DEF root
  <2> QED
    BY <2>1, <2>2
<1>3. todo = <<>> /\ writing = FALSE
  BY DEF Init
<1>4. todo \in Seq(AssetType)
  BY <1>3
<1> QED
  BY <1>1, <1>2, <1>3, <1>4 DEF Disk

\* copyFile writes a buffer.
LEMMA LongerFile ==
    ASSUME NEW f \in FileType, NEW c \in Nat
    PROVE  LET g == [f EXCEPT !.size = @ + 1, !.mtime = c]
           IN g \in FileType /\ g.dir = f.dir /\ g.size = f.size + 1 /\ g.mtime = c
<1> DEFINE g == [f EXCEPT !.size = @ + 1, !.mtime = c]
<1>1. DOMAIN f = {"dir", "size", "mtime"} /\ f.size \in Nat
  BY DEF FileType
<1>2. g.size = f.size + 1 /\ g.mtime = c /\ g.dir = f.dir /\ DOMAIN g = {"dir", "size", "mtime"}
  BY <1>1
<1>3. f.dir \in BOOLEAN
  BY DEF FileType
<1>4. g = [x \in {"dir", "size", "mtime"} |-> g[x]]
  BY <1>2
<1> HIDE DEF g
<1>5. g \in FileType
  BY <1>1, <1>2, <1>3, <1>4 DEF FileType
<1> QED
  BY <1>2, <1>5 DEF g

\* A copy leaves the files as they were, or makes one, or makes one longer.
LEMMA CopyGrows == ASSUME Disk, Copy PROVE Disk' /\ Grows
<1>1. clock' = clock /\ clock \in Nat
  BY DEF Copy, StartCopy, Extract, CopyFile, WriteFails, Kill, Disk
<1>2. ASSUME UNCHANGED tree PROVE Grows /\ \A p \in DOMAIN tree' : tree'[p] \in FileType
  BY <1>2 DEF Disk, Grows, FileType
<1>3. CASE StartCopy
  <2>1. Assets \in Seq(AssetType)
    BY FileAssumption DEF AssetType
  <2> QED
    BY <1>1, <1>2, <1>3, <2>1 DEF StartCopy, Disk
<1>4. CASE Kill
  <2>1. tree' = tree /\ todo' = <<>> /\ writing' = FALSE
    BY <1>4 DEF Kill
  <2>2. todo' \in Seq(AssetType)
    BY <2>1
  <2> QED
    BY <1>1, <1>2, <2>1, <2>2 DEF Disk
<1>5. CASE WriteFails
  <2>1. tree' = tree /\ todo' = Tail(todo) /\ writing' = FALSE /\ todo # <<>> /\ todo \in Seq(AssetType)
    BY <1>5 DEF WriteFails, Disk
  <2>2. todo' \in Seq(AssetType)
    BY <2>1
  <2> QED
    BY <1>1, <1>2, <2>1, <2>2 DEF Disk
<1>6. CASE Extract
  <2>1. todo # <<>> /\ Tail(todo) \in Seq(AssetType) /\ Asset \in AssetType /\ ~writing
    BY <1>6 DEF Extract, Disk, Asset
  <2>2. CASE Asset.path \in DOMAIN tree
    BY <1>1, <1>2, <1>6, <2>1, <2>2 DEF Extract, Disk
  <2>3. CASE Asset.path \notin DOMAIN tree
    <3> DEFINE new == [dir |-> Asset.dir, size |-> 0, mtime |-> clock]
    <3>1. /\ tree' = WithFile(Asset.path, new)
          /\ writing' = ~Asset.dir /\ todo' = IF Asset.dir THEN Tail(todo) ELSE todo
      BY <1>6, <2>3 DEF Extract
    <3>2. new \in FileType /\ new.size = 0 /\ new.mtime = clock
      BY <1>1, <2>1 DEF FileType, AssetType
    <3>3. /\ DOMAIN tree' = DOMAIN tree \cup {Asset.path}
          /\ tree'[Asset.path] = new /\ \A p \in DOMAIN tree : tree'[p] = tree[p]
      BY <2>3, <3>1 DEF WithFile
    <3> HIDE DEF new
    <3>4. \A p \in DOMAIN tree' : tree'[p] \in FileType
      BY <3>2, <3>3 DEF Disk
    <3>5. Grows
      BY <3>2, <3>3 DEF Grows, Disk, FileType
    <3> QED
      BY <1>1, <2>1, <3>1, <3>4, <3>5 DEF Disk, AssetType
  <2> QED
    BY <2>2, <2>3
<1>7. CASE CopyFile
  <2>1. todo # <<>> /\ Tail(todo) \in Seq(AssetType) /\ writing
    BY <1>7 DEF CopyFile, Disk
  <2>2. CASE tree' = tree
    BY <1>1, <1>2, <1>7, <2>1, <2>2 DEF CopyFile, Disk
  <2>3. CASE tree' # tree
    <3> DEFINE a == Asset.path
    <3>1. tree' = [tree EXCEPT ![a].size = @ + 1, ![a].mtime = clock] /\ todo' = todo /\ writing' = writing
      BY <1>7, <2>3 DEF CopyFile
    <3> HIDE DEF a
    <3>2. DOMAIN tree' = DOMAIN tree /\ \A p \in DOMAIN tree \ {a} : tree'[p] = tree[p]
      BY <3>1
    <3>3. ASSUME a \in DOMAIN tree
          PROVE  tree'[a] = [tree[a] EXCEPT !.size = @ + 1, !.mtime = clock]
      BY <3>1, <3>3
    <3>4. ASSUME a \in DOMAIN tree
          PROVE  /\ tree'[a] \in FileType /\ tree'[a].dir = tree[a].dir
                 /\ tree'[a].size = tree[a].size + 1 /\ tree'[a].mtime = clock
      <4>1. tree[a] \in FileType
        BY <3>4 DEF Disk
      <4> DEFINE f == tree[a]
                 g == [f EXCEPT !.size = @ + 1, !.mtime = clock]
      <4>2. f \in FileType /\ tree'[a] = g
        BY <3>3, <3>4, <4>1
      <4> HIDE DEF f
      <4>3. g \in FileType /\ g.dir = f.dir /\ g.size = f.size + 1 /\ g.mtime = clock
        BY <1>1, <4>2, LongerFile
      <4> HIDE DEF g
      <4> QED
        BY <4>2, <4>3 DEF f
    <3>5. \A p \in DOMAIN tree : tree[p].size \in Nat /\ tree[p] \in FileType
      BY DEF Disk, FileType
    <3>6. \A p \in DOMAIN tree' : tree'[p] \in FileType
      BY <3>2, <3>4, <3>5
    <3>7. Grows
      BY <3>2, <3>4, <3>5 DEF Grows
    <3> QED
      BY <1>1, <3>1, <3>6, <3>7 DEF Disk
  <2> QED
    BY <2>2, <2>3
<1> QED
  BY <1>3, <1>4, <1>5, <1>6, <1>7 DEF Copy

\* Nothing else touches the files.
LEMMA OthersLeaveDisk ==
    ASSUME [Next]_vars, ~Copy PROVE UNCHANGED disk /\ (clock' = clock \/ clock' = clock + 1)
<1>1. CASE Tick \/ UNCHANGED vars
  BY <1>1 DEF Tick, vars
<1>2. CASE Browser
  BY <1>2 DEF Browser, Ask, GetAnswer, Leave, CloseConnection
<1>3. CASE Work
  BY <1>3 DEF Work, ReadRequest, NotModified, SendHead, FopenFails, Reply, Go
<1>4. CASE Decide \/ ConvertGz
  BY <1>4 DEF Decide, ConvertGz, SendOptions, SendAuthorizationRequest, NotFound, Redirect, OpenDirectory,
              OpenFile, Reply, Go
<1>5. CASE File
  BY <1>5 DEF File, SubstituteIndexFile, SendFileData, CloseFile, Go
<1>6. CASE Directory
  BY <1>6 DEF Directory, Propfind, OpenDir, OpenDirFails, ReadDir, PrintDirectory, Go, Reply
<1> QED
  BY <1>1, <1>2, <1>3, <1>4, <1>5, <1>6 DEF Next, Serve

\* No step makes files shorter, or takes them away.
LEMMA DiskNext == ASSUME Disk, [Next]_vars PROVE Disk' /\ Grows /\ clock <= clock'
<1>1. CASE Copy
  <2>1. clock' = clock /\ clock \in Nat
    BY <1>1 DEF Copy, StartCopy, Extract, CopyFile, WriteFails, Kill, Disk
  <2> QED
    BY <1>1, <2>1, CopyGrows
<1>2. CASE ~Copy
  <2>1. UNCHANGED disk /\ (clock' = clock \/ clock' = clock + 1)
    BY <1>2, OthersLeaveDisk
  <2> QED
    BY <2>1 DEF disk, Disk, Grows, FileType
<1> QED
  BY <1>1, <1>2

\* stat, of files as they are told.
StatOf(t, p) == LET q == Stripped(p)
                IN IF q \in DOMAIN t /\ (q = p \/ t[q].dir) THEN t[q] ELSE Missing

\* What stat tells of a path.
LEMMA StatType == ASSUME NEW t, \A q \in DOMAIN t : t[q] \in FileType, NEW p PROVE StatOf(t, p) \in FileType
<1>1. Missing \in FileType
  BY DEF Missing, FileType
<1> QED
  BY <1>1 DEF StatOf

\* What stat tells of a path grows with the files.
LEMMA StatGrows ==
    ASSUME Disk, Grows, NEW p
    PROVE  LET f == StatOf(tree, p)
               g == StatOf(tree', p)
           IN f.size <= g.size /\ (g = f \/ g.mtime = clock)
<1> DEFINE q == Stripped(p)
<1>1. CASE q \in DOMAIN tree
  <2>1. /\ q \in DOMAIN tree' /\ tree'[q].dir = tree[q].dir /\ tree[q].size <= tree'[q].size
        /\ tree'[q] = tree[q] \/ tree'[q].mtime = clock
    BY <1>1 DEF Grows
  <2> HIDE DEF q
  <2> QED
    BY <1>1, <2>1 DEF StatOf, Missing, q
<1>2. CASE q \notin DOMAIN tree
  <2>1. q \in DOMAIN tree' => tree'[q].size = 0 /\ tree'[q].mtime = clock
    BY <1>2 DEF Grows
  <2> HIDE DEF q
  <2> QED
    BY <1>2, <2>1 DEF StatOf, Missing, q
<1> QED
  BY <1>1, <1>2

-----------------------------------------------------------------------------
(* Answers.                                                                *)

\* The worker: what it knows and sends has the types that it should.
Worker ==
    /\ pc \in Places /\ answer.status \in Statuses
    /\ answer.body \in Nat /\ answer.announced \in Int
    /\ conn.file \in FileType /\ conn.left \in Int /\ conn.offset \in Nat

Person ==
    /\ browser \in {"idle", "waiting", "gone"}
    /\ asked.range \in Seq(Nat) /\ Len(asked.range) <= 2

\* The file that is opened.
Opened == IF conn.gzipped THEN Append(conn.path, ".gz") ELSE conn.path

\* It has not become shorter since stat told its size.
IsThere == Exists(conn.file) /\ conn.file.size <= Stat(Opened).size

\* How much a request for a range is answered with.
PartOf(range, size) == IF range = <<>> THEN size
                       ELSE IF Len(range) = 2 THEN 1 + range[2] - range[1] ELSE size - range[1]

\* What has been sent and what is left are the whole.
IsWhole ==
    /\ answer.announced = PartOf(asked.range, conn.file.size)
    /\ answer.body + conn.left = answer.announced /\ conn.left >= 0
    /\ pc = "send" => conn.offset + conn.left <= conn.file.size
    /\ pc # "send" /\ browser = "waiting" /\ asked.method # "HEAD" => conn.left = 0

Sending == pc \in {"send", "close"} \/ (pc = "done" /\ answer.name # <<>>)

Answering ==
    /\ pc # "readdir" => conn.dir = FALSE
    /\ pc \notin {"send", "close"} => conn.fp = FALSE
    /\ answer.name # <<>> => pc \in {"send", "close", "done"}
    /\ pc = "decide" /\ Exists(conn.file) => IsThere
    /\ pc \in {"file", "send"} => IsThere
    /\ Sending => answer.file = conn.file /\ (Inside(asked.range, conn.file.size) => IsWhole)

WholeInv == Disk /\ Worker /\ Person /\ Answering

\* What a worker without a request knows and has answered.
LEMMA NothingIs ==
    /\ NoConn.file \in FileType /\ NoConn.left \in Int /\ NoConn.offset \in Nat
    /\ NoConn.dir = FALSE /\ NoConn.fp = FALSE
    /\ NoAnswer.status \in Statuses /\ NoAnswer.body \in Nat /\ NoAnswer.announced \in Int
    /\ NoAnswer.name = <<>>
    /\ NoRequest.range \in Seq(Nat) /\ Len(NoRequest.range) <= 2
<1>1. NoRequest.range = <<>>
  BY DEF NoRequest
<1>2. Missing \in FileType
  BY DEF Missing, FileType
<1>3. NoConn.file = Missing /\ NoConn.left = 0 /\ NoConn.offset = 0 /\ NoConn.dir = FALSE /\ NoConn.fp = FALSE
  BY DEF NoConn
<1>4. NoAnswer.status \in Statuses /\ NoAnswer.body = 0 /\ NoAnswer.announced = 0 /\ NoAnswer.name = <<>>
  BY DEF NoAnswer, Statuses
<1> QED
  BY <1>1, <1>2, <1>3, <1>4

\* A worker that waits for a request.
LEMMA Nothing ==
    ASSUME conn = NoConn, answer = NoAnswer, pc \in {"idle", "request"}
    PROVE  Worker /\ Answering
  BY NothingIs DEF Worker, Answering, Sending, Places

\* In the beginning nothing is answered.
LEMMA WholeInit == ASSUME Init PROVE WholeInv
<1>1. conn = NoConn /\ answer = NoAnswer /\ asked = NoRequest /\ pc = "idle" /\ browser = "idle"
  BY DEF Init
<1> QED
  BY <1>1, DiskInit, Nothing, NothingIs DEF WholeInv, Person

\* While others take their steps, and the browser leaves.
LEMMA OthersKeep ==
    ASSUME WholeInv, Disk', Grows, UNCHANGED server, asked' = asked,
           browser' = browser \/ browser' = "gone"
    PROVE  WholeInv'
<1>1. pc' = pc /\ conn' = conn /\ answer' = answer
  BY DEF server
<1>2. Opened' = Opened
  BY <1>1 DEF Opened
<1>3. IsThere => IsThere'
  <2> DEFINE p == Opened
  <2>1. Stat(Opened) = StatOf(tree, p) /\ Stat(Opened)' = StatOf(tree', p)
    BY <1>2 DEF Stat, StatOf
  <2> HIDE DEF p
  <2>2. StatOf(tree, p) \in FileType /\ StatOf(tree', p).size \in Nat /\ StatOf(tree, p).size <= StatOf(tree', p).size
    <3>1. StatOf(tree, p) \in FileType /\ StatOf(tree', p) \in FileType
      BY StatType DEF WholeInv, Disk
    <3>2. StatOf(tree, p).size <= StatOf(tree', p).size
      BY StatGrows DEF WholeInv
    <3> QED
      BY <3>1, <3>2 DEF FileType
  <2>3. conn.file.size \in Nat /\ StatOf(tree, p).size \in Nat
    BY <2>2 DEF WholeInv, Worker, FileType
  <2> QED
    BY <1>1, <2>1, <2>2, <2>3 DEF IsThere
<1>4. IsWhole => IsWhole'
  BY <1>1 DEF IsWhole
<1> QED
  BY <1>1, <1>3, <1>4 DEF WholeInv, Worker, Person, Answering, Sending

\* A head without a body.
LEMMA ReplyWhole ==
    ASSUME ReadInv, WholeInv, pc \in {"decide", "file", "opendir"}, NEW status \in Statuses, NEW location,
           Reply(status, location)
    PROVE  WholeInv'
<1>1. answer' = [NoAnswer EXCEPT !.status = status, !.location = location] /\ pc' = "done"
      /\ conn' = conn /\ UNCHANGED user /\ UNCHANGED disk /\ clock' = clock
  BY DEF Reply
<1>2. /\ answer'.status = status /\ answer'.body = 0 /\ answer'.announced = 0 /\ answer'.name = <<>>
  BY <1>1 DEF NoAnswer
<1>3. Disk' /\ Person'
  BY <1>1 DEF WholeInv, Disk, Person, disk, user
<1>4. Worker'
  <2>1. pc' \in Places /\ conn' = conn
    BY <1>1 DEF Places
  <2> QED
    BY <1>2, <2>1 DEF WholeInv, Worker
<1>5. Answering'
  BY <1>1, <1>2 DEF WholeInv, Answering, Sending
<1> QED
  BY <1>3, <1>4, <1>5 DEF WholeInv

\* The worker goes on without an answer.
LEMMA GoWhole ==
    ASSUME ReadInv, WholeInv, pc \notin {"send", "close", "done", "readdir"},
           NEW place \in {"stat gz", "decide", "index", "file", "opendir", "readdir"}, NEW c, Go(place, c),
           c.file \in FileType, c.left \in Int, c.offset \in Nat, c.fp = FALSE,
           place # "readdir" => c.dir = FALSE,
           place = "decide" /\ Exists(c.file) => IsThere',
           place = "file" => IsThere'
    PROVE  WholeInv'
<1>1. pc' = place /\ conn' = c /\ UNCHANGED disk /\ clock' = clock /\ UNCHANGED user /\ answer' = answer
  BY DEF Go
<1>2. Disk' /\ Person'
  BY <1>1 DEF WholeInv, Disk, Person, disk, user
<1>3. Worker'
  BY <1>1 DEF WholeInv, Worker, Places
<1>4. answer.name = <<>> /\ answer'.name = <<>>
  BY <1>1 DEF WholeInv, Answering
<1>5. Answering'
  BY <1>1, <1>4 DEF Answering, Sending
<1> QED
  BY <1>2, <1>3, <1>5 DEF WholeInv

\* A browser asks: nothing is being sent.
LEMMA AskWhole == ASSUME ReadInv, WholeInv, Ask PROVE WholeInv'
<1>1. PICK r \in Requests : asked'.range = r.range
  BY DEF Ask
<1>2. r.range \in Seq(Nat) /\ Len(r.range) <= 2
  BY FileAssumption
<1>3. pc' = "request" /\ browser' = "waiting" /\ conn' = conn /\ answer' = answer /\ UNCHANGED disk /\ clock' = clock
  BY DEF Ask
<1>4. Disk' /\ Person'
  BY <1>1, <1>2, <1>3 DEF WholeInv, Disk, Person, disk
<1>5. Worker'
  BY <1>3 DEF WholeInv, Worker, Places
<1>6. pc = "idle"
  BY DEF Ask, ReadInv
<1>7. Answering'
  BY <1>3, <1>6 DEF WholeInv, Answering, Sending
<1> QED
  BY <1>4, <1>5, <1>7 DEF WholeInv

\* The answer is taken, or the connection closed: the worker forgets it.
LEMMA AnswerWhole == ASSUME ReadInv, WholeInv, GetAnswer \/ CloseConnection PROVE WholeInv'
<1>1. conn' = NoConn /\ answer' = NoAnswer /\ pc' \in {"idle", "request"} /\ UNCHANGED disk /\ clock' = clock
  BY DEF GetAnswer, CloseConnection
<1>2. /\ browser' \in {"idle", "waiting", "gone"}
      /\ asked' = NoRequest \/ asked' = [asked EXCEPT !.uri = answer.location, !.copy = <<>>, !.at = clock]
  BY DEF GetAnswer, CloseConnection, WholeInv, Person
<1>3. asked'.range = NoRequest.range \/ asked'.range = asked.range
  BY <1>2 DEF ReadInv, NoRequest
<1>4. Person'
  BY <1>2, <1>3, NothingIs DEF WholeInv, Person
<1>5. Disk'
  BY <1>1 DEF WholeInv, Disk, disk
<1>6. Worker' /\ Answering'
  BY <1>1, NothingIs DEF Worker, Answering, Sending, Places
<1> QED
  BY <1>4, <1>5, <1>6 DEF WholeInv

\* stat of what is there now.
LEMMA StatNow == ASSUME Disk, NEW p PROVE Stat(p) \in FileType
<1>1. StatOf(tree, p) \in FileType
  BY StatType DEF Disk
<1> QED
  BY <1>1 DEF Stat, StatOf

\* A file is as large as itself.
LEMMA SameSize == ASSUME NEW f \in FileType PROVE f.size <= f.size
<1>1. f.size \in Nat
  BY DEF FileType
<1> QED
  BY <1>1

\* The file is looked for: what stat tells is there.
LEMMA ReadRequestWhole == ASSUME ReadInv, WholeInv, ReadRequest PROVE WholeInv'
<1> DEFINE m == ParseMessage(Message(asked), MaxHeaders)
           raw == SubSeq(m.uri, 1, Until(m.uri, {"?"}))
           decoded == UrlDecode(raw)
           clean == RemoveDoubleDots(decoded)
           buffer == Overwrite(Overwrite(raw, decoded), clean)
           f == Stat(clean)
           c == [NoConn EXCEPT !.method = m.method, !.headers = m.headers, !.uri = clean,
                              !.path = clean, !.file = f, !.buffer = buffer]
<1>1. \E place \in {"stat gz", "decide"} : Go(place, c)
  BY DEF ReadRequest
<1>2. PICK place \in {"stat gz", "decide"} : Go(place, c)
  BY <1>1
<1>3. pc = "request"
  BY DEF ReadRequest
<1>4. f \in FileType
  BY StatNow DEF WholeInv
<1> HIDE DEF f, m, raw, decoded, clean, buffer
<1>5. /\ c.file = f /\ c.left = NoConn.left /\ c.offset = NoConn.offset /\ c.fp = FALSE /\ c.dir = FALSE
      /\ c.path = clean /\ c.gzipped = FALSE
  BY DEF NoConn
<1> HIDE DEF c
<1>6. conn' = c /\ tree' = tree
  BY <1>2 DEF Go, disk
<1>7. Exists(c.file) => IsThere'
  <2>1. Opened' = clean
    BY <1>5, <1>6 DEF Opened
  <2>2. Stat(Opened)' = f
    BY <1>6, <2>1 DEF Stat, f
  <2>3. f.size <= f.size
    BY <1>4, SameSize
  <2> QED
    BY <1>5, <1>6, <2>2, <2>3 DEF IsThere, Exists
<1> QED
  BY <1>2, <1>3, <1>4, <1>5, <1>7, NothingIs, GoWhole

\* The packed file is looked for: if it is there, it is opened instead.
LEMMA ConvertGzWhole == ASSUME ReadInv, WholeInv, ConvertGz PROVE WholeInv'
<1> DEFINE p == Append(conn.path, ".gz")
           f == Stat(p)
           c == [conn EXCEPT !.file = f, !.gzipped = Exists(f)]
<1>1. pc = "stat gz" /\ Go("decide", c)
  BY DEF ConvertGz
<1>2. f \in FileType
  BY StatNow DEF WholeInv
<1>3. conn.left \in Int /\ conn.offset \in Nat /\ conn.fp = FALSE /\ conn.dir = FALSE
  <2>1. pc = "stat gz"
    BY <1>1
  <2>2. conn.left \in Int /\ conn.offset \in Nat
    BY DEF WholeInv, Worker
  <2>3. conn.fp = FALSE /\ conn.dir = FALSE
    BY <2>1 DEF WholeInv, Answering
  <2> QED
    BY <2>2, <2>3
<1> HIDE DEF f
<1>4. /\ c.file = f /\ c.left = conn.left /\ c.offset = conn.offset /\ c.fp = conn.fp /\ c.dir = conn.dir
      /\ c.path = conn.path /\ c.gzipped = Exists(f)
  BY DEF ReadInv, ConnFields, NoConn
<1> HIDE DEF c
<1>5. conn' = c /\ tree' = tree
  BY <1>1 DEF Go, disk
<1>6. Exists(c.file) => IsThere'
  <2> SUFFICES ASSUME Exists(f) PROVE IsThere'
    BY <1>4
  <2>1. Opened' = p
    BY <1>4, <1>5 DEF Opened
  <2>2. Stat(Opened)' = f
    BY <1>5, <2>1 DEF Stat, f
  <2>3. f.size <= f.size
    BY <1>2, SameSize
  <2> QED
    BY <1>4, <1>5, <2>2, <2>3 DEF IsThere, Exists
<1> QED
  BY <1>1, <1>2, <1>3, <1>4, <1>6, GoWhole

\* Nothing is sent before the file is known.
LEMMA DecideWhole == ASSUME ReadInv, WholeInv, Decide PROVE WholeInv'
<1>1. pc = "decide"
  BY DEF Decide, SendOptions, SendAuthorizationRequest, NotFound, Redirect, OpenDirectory, OpenFile, Served
<1>2. {200, 401, 404, 301} \subseteq Statuses
  BY DEF Statuses
<1>3. conn.file \in FileType /\ conn.left \in Int /\ conn.offset \in Nat /\ conn.fp = FALSE /\ conn.dir = FALSE
  BY <1>1 DEF WholeInv, Worker, Answering
<1>4. CASE SendOptions
  BY <1>1, <1>2, <1>4, ReplyWhole DEF SendOptions
<1>5. CASE SendAuthorizationRequest
  BY <1>1, <1>2, <1>5, ReplyWhole DEF SendAuthorizationRequest
<1>6. CASE NotFound
  BY <1>1, <1>2, <1>6, ReplyWhole DEF NotFound
<1>7. CASE Redirect
  BY <1>1, <1>2, <1>7, ReplyWhole DEF Redirect
<1>8. CASE OpenDirectory
  <2> DEFINE c == [conn EXCEPT !.path = Stripped(@), !.index = 1]
  <2>1. Go("index", c)
    BY <1>8 DEF OpenDirectory
  <2>2. c.file = conn.file /\ c.left = conn.left /\ c.offset = conn.offset /\ c.fp = conn.fp /\ c.dir = conn.dir
    BY DEF ReadInv, ConnFields, NoConn
  <2> HIDE DEF c
  <2> QED
    BY <1>1, <1>3, <2>1, <2>2, GoWhole
<1>9. CASE OpenFile
  <2>1. Go("file", conn) /\ Exists(conn.file)
    BY <1>9 DEF OpenFile, Found
  <2>2. IsThere
    BY <1>1, <2>1 DEF WholeInv, Answering
  <2>3. IsThere'
    BY <2>1, <2>2 DEF IsThere, Opened, Go, disk, Stat
  <2> QED
    BY <1>1, <1>3, <2>1, <2>3, GoWhole
<1> QED
  BY <1>4, <1>5, <1>6, <1>7, <1>8, <1>9 DEF Decide

\* An index file is looked for: if it is there, it is opened.
LEMMA SubstituteWhole == ASSUME ReadInv, WholeInv, SubstituteIndexFile PROVE WholeInv'
<1> DEFINE p == InDir(conn.path, IndexFiles[conn.index])
           f == Stat(p)
           c == [conn EXCEPT !.path = p, !.file = f, !.gzipped = FALSE]
           d == [conn EXCEPT !.index = @ + 1]
<1>1. pc = "index" /\ (Go("opendir", conn) \/ (Go("file", c) /\ Exists(f)) \/ Go("index", d))
  BY DEF SubstituteIndexFile
<1>2. conn.file \in FileType /\ conn.left \in Int /\ conn.offset \in Nat /\ conn.fp = FALSE /\ conn.dir = FALSE
  BY <1>1 DEF WholeInv, Worker, Answering
<1>3. f \in FileType
  BY StatNow DEF WholeInv
<1> HIDE DEF f, p
<1>4. d.file = conn.file /\ d.left = conn.left /\ d.offset = conn.offset /\ d.fp = conn.fp /\ d.dir = conn.dir
  BY DEF ReadInv, ConnFields, NoConn
<1>5. /\ c.file = f /\ c.left = conn.left /\ c.offset = conn.offset /\ c.fp = conn.fp /\ c.dir = conn.dir
      /\ c.path = p /\ c.gzipped = FALSE
  BY DEF ReadInv, ConnFields, NoConn
<1> HIDE DEF c, d
<1>6. CASE Go("opendir", conn)
  BY <1>1, <1>2, <1>6, GoWhole
<1>7. CASE Go("index", d)
  BY <1>1, <1>2, <1>4, <1>7, GoWhole
<1>8. CASE Go("file", c) /\ Exists(f)
  <2>1. conn' = c /\ tree' = tree
    BY <1>8 DEF Go, disk
  <2>2. Opened' = p
    BY <1>5, <2>1 DEF Opened
  <2>3. Stat(Opened)' = f
    BY <2>1, <2>2 DEF Stat, f
  <2>4. f.size <= f.size
    BY <1>3, SameSize
  <2>5. IsThere'
    BY <1>5, <1>8, <2>1, <2>3, <2>4 DEF IsThere, Exists
  <2> QED
    BY <1>1, <1>2, <1>3, <1>5, <1>8, <2>5, GoWhole
<1> QED
  BY <1>1, <1>6, <1>7, <1>8

\* The file is closed behind the last piece.
LEMMA CloseFileWhole == ASSUME ReadInv, WholeInv, CloseFile PROVE WholeInv'
<1> DEFINE c == [conn EXCEPT !.fp = FALSE]
<1>1. pc = "close" /\ pc' = "done" /\ conn' = c /\ UNCHANGED disk /\ clock' = clock /\ UNCHANGED user /\ answer' = answer
  BY DEF CloseFile, Go
<1>2. c.file = conn.file /\ c.left = conn.left /\ c.offset = conn.offset /\ c.fp = FALSE /\ c.dir = conn.dir
  BY DEF ReadInv, ConnFields, NoConn
<1> HIDE DEF c
<1>3. Disk' /\ Person'
  BY <1>1 DEF WholeInv, Disk, Person, disk, user
<1>4. Worker'
  BY <1>1, <1>2 DEF WholeInv, Worker, Places
<1>5. IsWhole => IsWhole'
  BY <1>1, <1>2 DEF IsWhole, user
<1>6. Answering'
  BY <1>1, <1>2, <1>5 DEF WholeInv, Answering, Sending, user
<1> QED
  BY <1>3, <1>4, <1>6 DEF WholeInv

\* Least is one of the two and at most the other.
LEMMA LeastIs ==
    ASSUME NEW a \in Int, NEW b \in Int
    PROVE  Least(a, b) \in Int /\ Least(a, b) <= a /\ Least(a, b) <= b /\ (Least(a, b) = a \/ Least(a, b) = b)
  BY DEF Least

\* A piece is sent, and what is left is there; or the whole is sent.
LEMMA SendFileDataWhole == ASSUME ReadInv, WholeInv, SendFileData PROVE WholeInv'
<1> DEFINE there == Stat(Opened).size - conn.offset
           n == Least(Least(BufLen, conn.left), there)
           c == [conn EXCEPT !.left = @ - n, !.offset = @ + n]
           a == [answer EXCEPT !.body = @ + n]
<1>2. /\ conn.left \in Int /\ conn.offset \in Nat /\ answer.body \in Nat /\ conn.file.size \in Nat
      /\ BufLen \in Int /\ BufLen > 0 /\ answer.announced \in Int
  <2>1. BufLen \in Int /\ BufLen > 0
    <3>1. BufLen \in Nat \ {0}
      BY FileAssumption
    <3> QED
      BY <3>1
  <2>2. conn.file \in FileType /\ conn.left \in Int /\ conn.offset \in Nat /\ answer.body \in Nat
        /\ answer.announced \in Int
    BY DEF WholeInv, Worker
  <2> QED
    BY <2>1, <2>2 DEF FileType
<1>3. Stat(Opened).size \in Nat /\ conn.file.size <= Stat(Opened).size
  <2>1. Stat(Opened) \in FileType
    BY StatNow DEF WholeInv
  <2>2. pc = "send"
    BY DEF SendFileData
  <2> QED
    BY <2>1, <2>2 DEF WholeInv, Answering, IsThere, FileType
<1>4. /\ there \in Int /\ n \in Int /\ n <= conn.left /\ n <= there
      /\ n = BufLen \/ n = conn.left \/ n = there
  <2>1. there \in Int
    BY <1>2, <1>3
  <2>2. Least(BufLen, conn.left) \in Int /\ Least(BufLen, conn.left) <= conn.left
        /\ (Least(BufLen, conn.left) = BufLen \/ Least(BufLen, conn.left) = conn.left)
    BY <1>2, LeastIs
  <2> DEFINE b == Least(BufLen, conn.left)
  <2> HIDE DEF b, there
  <2>3. b \in Int /\ b <= conn.left /\ (b = BufLen \/ b = conn.left)
    BY <2>2 DEF b
  <2>4. Least(b, there) \in Int /\ Least(b, there) <= b /\ Least(b, there) <= there
        /\ (Least(b, there) = b \/ Least(b, there) = there)
    BY <2>1, <2>3, LeastIs
  <2>5. n = Least(b, there)
    BY DEF b
  <2> HIDE DEF n
  <2> QED
    BY <1>2, <2>1, <2>3, <2>4, <2>5
<1>1. /\ pc = "send" /\ UNCHANGED disk /\ clock' = clock /\ UNCHANGED user
      /\ \/ (n <= 0 \/ browser = "gone") /\ pc' = "close" /\ conn' = conn /\ answer' = answer
         \/ n > 0 /\ pc' = "send" /\ conn' = c /\ answer' = a
  <2>1. pc = "send"
    BY DEF SendFileData
  <2>2. IF n <= 0 \/ browser = "gone"
        THEN pc' = "close" /\ UNCHANGED <<disk, clock, user, conn, answer>>
        ELSE conn' = c /\ answer' = a /\ UNCHANGED <<disk, clock, user, pc>>
    BY DEF SendFileData, Opened
  <2> HIDE DEF c, a
  <2>3. n \in Int
    BY <1>4
  <2> HIDE DEF n
  <2> QED
    BY <2>1, <2>2, <2>3
<1>5. /\ c.file = conn.file /\ c.left = conn.left - n /\ c.offset = conn.offset + n
      /\ c.fp = conn.fp /\ c.dir = conn.dir /\ c.path = conn.path /\ c.gzipped = conn.gzipped
  BY DEF ReadInv, ConnFields, NoConn
<1>6. a.body = answer.body + n /\ a.announced = answer.announced /\ a.status = answer.status
      /\ a.name = answer.name /\ a.file = answer.file
  BY DEF ReadInv, AnswerFields, NoAnswer
<1>7. answer.file = conn.file /\ IsThere /\ (Inside(asked.range, conn.file.size) => IsWhole) /\ conn.dir = FALSE
  BY <1>1 DEF WholeInv, Answering, Sending, ReadInv
<1>8. there = Stat(Opened).size - conn.offset
  OBVIOUS
<1> HIDE DEF c, a, n, there
<1>9. Disk' /\ Person'
  BY <1>1 DEF WholeInv, Disk, Person, disk, user
<1>10. asked' = asked /\ browser' = browser /\ tree' = tree
  BY <1>1 DEF user, disk
<1>11. CASE pc' = "close" /\ conn' = conn /\ answer' = answer /\ (n <= 0 \/ browser = "gone")
  <2>1. Worker'
    BY <1>11 DEF WholeInv, Worker, Places
  <2>2. ASSUME IsWhole PROVE IsWhole'
    <3>1. n <= 0 => conn.left = 0
      BY <1>1, <1>2, <1>3, <1>4, <1>8, <2>2 DEF IsWhole
    <3> QED
      BY <1>10, <1>11, <2>2, <3>1 DEF IsWhole
  <2>3. Answering'
    BY <1>1, <1>7, <1>10, <1>11, <2>2 DEF WholeInv, Answering, Sending
  <2> QED
    BY <1>9, <2>1, <2>3 DEF WholeInv
<1>12. CASE n > 0 /\ pc' = "send" /\ conn' = c /\ answer' = a
  <2>1. Worker'
    <3>1. pc' \in Places /\ a.status \in Statuses /\ conn.file \in FileType
      BY <1>6, <1>12 DEF Places, WholeInv, Worker
    <3>2. a.body \in Nat /\ c.left \in Int /\ c.offset \in Nat /\ a.announced \in Int
      BY <1>2, <1>4, <1>5, <1>6, <1>12
    <3> QED
      BY <1>5, <1>12, <3>1, <3>2 DEF Worker
  <2>2. ASSUME IsWhole PROVE IsWhole'
    <3>1. /\ a.announced = PartOf(asked.range, conn.file.size)
          /\ a.body + c.left = a.announced /\ c.left >= 0
          /\ c.offset + c.left <= conn.file.size
      BY <1>1, <1>2, <1>4, <1>5, <1>6, <2>2 DEF IsWhole
    <3> QED
      BY <1>5, <1>10, <1>12, <3>1 DEF IsWhole
  <2>3. IsThere'
    BY <1>5, <1>7, <1>10, <1>12 DEF IsThere, Opened, Stat
  <2>4. Answering'
    BY <1>1, <1>5, <1>6, <1>7, <1>10, <1>12, <2>2, <2>3 DEF Answering, Sending
  <2> QED
    BY <1>9, <2>1, <2>4 DEF WholeInv
<1> QED
  BY <1>1, <1>11, <1>12

\* What is announced is there, if the range is inside the file.
LEMMA SendHeadWhole == ASSUME ReadInv, WholeInv, SendHead PROVE WholeInv'
<1> DEFINE range == IF Header(conn.headers, "Range") = None THEN <<>> ELSE asked.range
           n == Announced(range)
           status == IF range = <<>> THEN 200 ELSE 206
           offset == IF range = <<>> THEN 0 ELSE Least(range[1], conn.file.size)
           head == [NoAnswer EXCEPT !.status = status, !.announced = n, !.name = conn.path,
                                    !.file = conn.file]
           c == [conn EXCEPT !.fp = TRUE, !.left = n, !.offset = offset]
<1>1. pc = "file" /\ IsRead /\ IsRequest(asked)
  BY DEF SendHead, ReadInv
<1>2. range = asked.range
  BY <1>1 DEF IsRead, IsSent
<1>3. status \in {200, 206}
  OBVIOUS
<1>4. \/ Reply(501, <<>>)
      \/ /\ answer' = head /\ conn' = c /\ UNCHANGED <<disk, clock, user>>
         /\ pc' = IF conn.method = <<"HEAD">> THEN "close" ELSE "send"
  BY DEF SendHead
<1>5. CASE Reply(501, <<>>)
  <2>1. 501 \in Statuses
    BY DEF Statuses
  <2> QED
    BY <1>1, <1>5, <2>1, ReplyWhole
<1>6. CASE ~Reply(501, <<>>)
  <2> HIDE DEF range, n, status, offset
  <2>1. /\ c.file = conn.file /\ c.left = n /\ c.offset = offset /\ c.fp = TRUE
        /\ c.dir = conn.dir /\ c.path = conn.path /\ c.gzipped = conn.gzipped
    BY DEF ReadInv, ConnFields, NoConn
  <2>2. head.status = status /\ head.announced = n /\ head.name = conn.path /\ head.file = conn.file /\ head.body = 0
    BY DEF NoAnswer
  <2> HIDE DEF c, head
  <2>3. conn.file.size \in Nat /\ conn.file \in FileType /\ asked.range \in Seq(Nat) /\ Len(asked.range) <= 2
    BY DEF WholeInv, Worker, Person, FileType
  <2> DEFINE size == conn.file.size
             r == asked.range
  <2>4. n \in Int /\ offset \in Nat /\ (Inside(r, size) => n = PartOf(r, size) /\ n >= 0 /\ offset + n <= size)
    <3>1. size \in Nat /\ r \in Seq(Nat) /\ Len(r) <= 2
      BY <2>3
    <3>2. n = IF r = <<>> THEN size
              ELSE IF Len(r) = 2 THEN Least(r[2], size) - r[1] + 1 ELSE size - r[1]
      BY <1>2 DEF n, Announced
    <3>3. offset = IF r = <<>> THEN 0 ELSE Least(r[1], size)
      BY <1>2 DEF offset
    <3> HIDE DEF size, r
    <3>4. CASE r = <<>>
      BY <3>1, <3>2, <3>3, <3>4 DEF PartOf
    <3>5. CASE Len(r) = 1
      <4>1. r # <<>> /\ r[1] \in Nat /\ (Inside(r, size) => r[1] < size)
        BY <3>1, <3>5 DEF Inside
      <4>2. offset \in Nat /\ n = size - r[1] /\ (r[1] < size => offset = r[1])
        BY <3>1, <3>2, <3>3, <3>5, <4>1 DEF Least
      <4> QED
        BY <3>1, <3>5, <4>1, <4>2 DEF PartOf
    <3>6. CASE Len(r) = 2
      <4>1. r # <<>> /\ r[1] \in Nat /\ r[2] \in Nat /\ (Inside(r, size) => r[1] < size /\ r[2] < size /\ r[1] <= r[2])
        BY <3>1, <3>6 DEF Inside
      <4>2. /\ offset \in Nat /\ (r[1] < size => offset = r[1])
            /\ n \in Int /\ (r[2] < size => n = r[2] - r[1] + 1)
        BY <3>1, <3>2, <3>3, <3>6, <4>1 DEF Least
      <4> QED
        BY <3>1, <3>6, <4>1, <4>2 DEF PartOf
    <3>7. Len(r) \in Nat /\ Len(r) <= 2 /\ (Len(r) = 0 => r = <<>>)
      BY <3>1, EmptySeq, LenProperties
    <3>8. \A k \in Nat : k <= 2 => k = 0 \/ k = 1 \/ k = 2
      OBVIOUS
    <3>9. r = <<>> \/ Len(r) = 1 \/ Len(r) = 2
      BY <3>7, <3>8, ZenonT(30)
    <3> QED
      BY <3>4, <3>5, <3>6, <3>9
  <2> HIDE DEF size, r
  <2>5. Disk' /\ Person'
    BY <1>4, <1>6 DEF WholeInv, Disk, Person, disk, user
  <2>6. Worker'
    <3>1. pc' \in Places /\ status \in Statuses /\ conn' = c /\ answer' = head
      BY <1>3, <1>4, <1>6 DEF Places, Statuses
    <3>2. 0 \in Nat
      OBVIOUS
    <3> QED
      BY <2>1, <2>2, <2>3, <2>4, <3>1, <3>2 DEF Worker
  <2>7. tree' = tree /\ asked' = asked /\ browser' = browser /\ pc' \in {"send", "close"} /\ conn' = c /\ answer' = head
        /\ (pc' = "close" => asked.method = "HEAD")
    BY <1>1, <1>4, <1>6 DEF disk, user, IsRead
  <2>8. IsThere'
    BY <1>1, <2>1, <2>7 DEF WholeInv, Answering, IsThere, Opened, Stat
  <2>9. Inside(r, size) => IsWhole'
    BY <2>1, <2>2, <2>4, <2>7 DEF IsWhole, r, size
  <2>10. conn.dir = FALSE
    BY <1>1 DEF WholeInv, Answering
  <2>11. Answering'
    BY <2>1, <2>2, <2>7, <2>8, <2>9, <2>10 DEF Answering, Sending, r, size
  <2> QED
    BY <2>5, <2>6, <2>11 DEF WholeInv
<1> QED
  BY <1>5, <1>6

\* A directory is opened, read and closed, and no file is.
LEMMA DirectoryWhole == ASSUME ReadInv, WholeInv, Directory PROVE WholeInv'
<1>1. CASE OpenDir
  <2> DEFINE names == Names(conn.path)
             c == [conn EXCEPT !.dir = TRUE, !.there = names, !.unread = names, !.arr = ArrSize]
  <2>1. Go("readdir", c) /\ pc = "opendir"
    BY <1>1 DEF OpenDir
  <2>2. c.file = conn.file /\ c.left = conn.left /\ c.offset = conn.offset /\ c.fp = conn.fp
    BY DEF ReadInv, ConnFields, NoConn
  <2> HIDE DEF c
  <2>3. conn.file \in FileType /\ conn.left \in Int /\ conn.offset \in Nat /\ conn.fp = FALSE
    BY <2>1 DEF WholeInv, Worker, Answering
  <2> QED
    BY <2>1, <2>2, <2>3, GoWhole
<1>2. CASE OpenDirFails
  <2>1. 500 \in Statuses
    BY DEF Statuses
  <2> QED
    BY <1>2, <2>1, ReplyWhole DEF OpenDirFails
<1>3. CASE Propfind \/ ReadDir \/ PrintDirectory
  <2>1. UNCHANGED <<disk, clock, user>> /\ pc \in {"decide", "readdir"} /\ pc' \in {"readdir", "done"}
    BY <1>3 DEF Propfind, ReadDir, PrintDirectory, Served
  <2>2. conn.fp = FALSE /\ answer.name = <<>> /\ (pc = "decide" => conn.dir = FALSE)
    BY <2>1 DEF WholeInv, Answering
  <2>3. /\ conn'.file = conn.file /\ conn'.left = conn.left /\ conn'.offset = conn.offset /\ conn'.fp = conn.fp
        /\ pc' # "readdir" => conn'.dir = FALSE
    <3>1. CASE Propfind
      <4> DEFINE p == Stripped(conn.path)
                 names == Names(p)
                 c == [conn EXCEPT !.path = p, !.dir = TRUE, !.there = names, !.unread = names]
      <4>1. (pc' = "readdir" /\ conn' = c) \/ (pc' = "done" /\ conn' = conn)
        BY <3>1 DEF Propfind
      <4>2. c.file = conn.file /\ c.left = conn.left /\ c.offset = conn.offset /\ c.fp = conn.fp
        BY DEF ReadInv, ConnFields, NoConn
      <4>3. pc = "decide"
        BY <3>1 DEF Propfind, Served
      <4> HIDE DEF c
      <4> QED
        BY <2>2, <4>1, <4>2, <4>3
    <3>2. CASE ReadDir
      <4>1. PICK name \in conn.unread, mem \in BOOLEAN :
               \E e : LET c == [conn EXCEPT !.unread = @ \ {name}]
                      IN conn' = c \/ conn' = DirScanCallback(c, e, mem)
        BY <3>2 DEF ReadDir
      <4> DEFINE c == [conn EXCEPT !.unread = @ \ {name}]
      <4>2. /\ c.file = conn.file /\ c.left = conn.left /\ c.offset = conn.offset /\ c.fp = conn.fp
            /\ DOMAIN c = ConnFields
        BY DEF ReadInv, ConnFields, NoConn
      <4>3. PICK e : conn' = c \/ conn' = DirScanCallback(c, e, mem)
        BY <4>1
      <4>4. pc' = "readdir"
        BY <3>2 DEF ReadDir
      <4> HIDE DEF c
      <4> QED
        BY <4>2, <4>3, <4>4, ScanKeeps
    <3>3. CASE PrintDirectory
      BY <3>3 DEF PrintDirectory, ReadInv, ConnFields, NoConn
    <3> QED
      BY <1>3, <3>1, <3>2, <3>3
  <2>4. answer'.status \in Statuses /\ answer'.body \in Nat /\ answer'.announced \in Int /\ answer'.name = <<>>
    <3>1. CASE Propfind
      <4> DEFINE s == <<[href |-> conn.uri, name |-> <<>>, file |-> conn.file]>>
      <4>1. answer' = [NoAnswer EXCEPT !.status = 207, !.shown = s]
        BY <3>1 DEF Propfind
      <4> HIDE DEF s
      <4> QED
        BY <4>1 DEF NoAnswer, Statuses
    <3>2. CASE ReadDir
      <4>1. PICK e : answer' = answer \/ answer' = [answer EXCEPT !.shown = Append(@, e)]
        BY <3>2 DEF ReadDir
      <4>2. answer'.status = answer.status /\ answer'.body = answer.body /\ answer'.announced = answer.announced
            /\ answer'.name = answer.name
        BY <4>1 DEF ReadInv, AnswerFields, NoAnswer
      <4> QED
        BY <2>2, <4>2 DEF WholeInv, Worker
    <3>3. CASE PrintDirectory
      <4>1. PICK s : answer' = answer \/ answer' = [NoAnswer EXCEPT !.status = 200, !.shown = s]
        BY <3>3 DEF PrintDirectory
      <4> DEFINE a == [NoAnswer EXCEPT !.status = 200, !.shown = s]
      <4>2. a.status \in Statuses /\ a.body = 0 /\ a.announced = 0 /\ a.name = <<>>
        BY DEF NoAnswer, Statuses
      <4>3. answer' = answer \/ answer' = a
        BY <4>1
      <4> HIDE DEF a
      <4> QED
        BY <2>2, <4>3, <4>2 DEF WholeInv, Worker
    <3> QED
      BY <1>3, <3>1, <3>2, <3>3
  <2>5. Disk' /\ Person'
    BY <2>1 DEF WholeInv, Disk, Person, disk, user
  <2>6. Worker'
    BY <2>1, <2>3, <2>4 DEF WholeInv, Worker, Places
  <2>7. Answering'
    BY <2>1, <2>2, <2>3, <2>4 DEF Answering, Sending
  <2> QED
    BY <2>5, <2>6, <2>7 DEF WholeInv
<1> QED
  BY <1>1, <1>2, <1>3 DEF Directory

\* Every step keeps the invariant.
LEMMA WholeNext == ASSUME ReadInv, WholeInv, [Next]_vars PROVE WholeInv'
<1>1. Disk' /\ Grows
  BY DiskNext DEF WholeInv
<1>2. CASE Tick \/ Copy \/ Leave \/ UNCHANGED vars
  <2>1. UNCHANGED server /\ asked' = asked /\ (browser' = browser \/ browser' = "gone")
    BY <1>2 DEF Tick, Copy, StartCopy, Extract, CopyFile, WriteFails, Kill, Leave, vars, user, server
  <2> QED
    BY <1>1, <2>1, OthersKeep
<1>3. CASE Ask \/ GetAnswer \/ CloseConnection \/ ReadRequest \/ ConvertGz \/ Decide
  BY <1>3, AskWhole, AnswerWhole, ReadRequestWhole, ConvertGzWhole, DecideWhole
<1>4. CASE File \/ Directory \/ SendHead
  BY <1>4, SubstituteWhole, SendFileDataWhole, CloseFileWhole, DirectoryWhole, SendHeadWhole DEF File
<1>5. CASE NotModified \/ FopenFails
  <2>1. {304, 500} \subseteq Statuses
    BY DEF Statuses
  <2> QED
    BY <1>5, <2>1, ReplyWhole DEF NotModified, FopenFails
<1> QED
  BY <1>2, <1>3, <1>4, <1>5 DEF Next, Browser, Work, Serve

\* What holds of the worker, its browser and the files in each state.
LEMMA Invariant == Spec => [](ReadInv /\ WholeInv)
  BY ReadInit, ReadNext, WholeInit, WholeNext, PTL DEF Spec

\* The state has the types that it should.
THEOREM TypeCorrect == Spec => []TypeOK
<1>1. ReadInv /\ WholeInv => TypeOK
  <2> SUFFICES ASSUME WholeInv PROVE TypeOK
    OBVIOUS
  <2>1. \A p \in DOMAIN tree : tree[p].dir \in BOOLEAN /\ tree[p].size \in Nat /\ tree[p].mtime \in Nat
    BY DEF WholeInv, Disk, FileType
  <2>2. writing \in BOOLEAN /\ clock \in Nat
    BY DEF WholeInv, Disk
  <2>3. browser \in {"idle", "waiting", "gone"} /\ pc \in Places /\ answer.status \in Statuses
    BY DEF WholeInv, Worker, Person
  <2>4. conn.left \in Int /\ conn.offset \in Nat
    BY DEF WholeInv, Worker
  <2>5. \A p \in DOMAIN tree : {tree[p].size, tree[p].mtime} \subseteq Nat
    BY <2>1
  <2> QED
    BY <2>1, <2>2, <2>3, <2>4, <2>5, ZenonT(30) DEF TypeOK, Places, Statuses
<1> QED
  BY <1>1, Invariant, PTL

\* A browser that waits gets all of what it asked for.
THEOREM AnswersAreWholeTheorem == Spec => []AnswersAreWhole
<1>1. ReadInv /\ WholeInv => AnswersAreWhole
  <2> SUFFICES ASSUME ReadInv, WholeInv, pc = "done" PROVE AnswersAreWhole
    BY DEF AnswersAreWhole
  <2>1. conn.fp = FALSE /\ conn.dir = FALSE
    BY DEF WholeInv, Answering
  <2>2. ASSUME answer.name # <<>>, browser = "waiting", asked.method # "HEAD", Inside(asked.range, answer.file.size)
        PROVE  /\ answer.body = answer.announced
               /\ answer.body = PartOf(asked.range, answer.file.size)
    <3>1. answer.file = conn.file /\ IsWhole
      BY <2>2 DEF WholeInv, Answering, Sending
    <3>2. conn.left = 0 /\ answer.body \in Nat
      BY <2>2, <3>1 DEF IsWhole, WholeInv, Worker
    <3> QED
      BY <3>1, <3>2 DEF IsWhole
  <2> QED
    BY <2>1, <2>2 DEF AnswersAreWhole, PartOf
<1> QED
  BY <1>1, Invariant, PTL

-----------------------------------------------------------------------------
(* The directories around a file.                                          *)

\* The assets before the k-th have been made.
Made(k) == \A j \in 1..(k - 1) : Assets[j].path \in DOMAIN tree

Parents == \A p \in DOMAIN tree : \A n \in 2..Len(p) :
               p[n] = "/" => SubSeq(p, 1, n - 1) \in DOMAIN tree /\ tree[SubSeq(p, 1, n - 1)].dir = TRUE

AsMade == \A i \in DOMAIN Assets : Assets[i].path \in DOMAIN tree => tree[Assets[i].path].dir = Assets[i].dir

CopiedTo(k) == todo = SubSeq(Assets, k, Len(Assets)) /\ Made(k) /\ (writing => Assets[k].path \in DOMAIN tree)

\* A file is in a directory that was made before it, and none is of no time.
Tree ==
    /\ clock > 0 /\ \A p \in DOMAIN tree : tree[p].mtime > 0
    /\ Root \in DOMAIN tree /\ tree[Root].dir = TRUE
    /\ Parents /\ AsMade
    /\ todo # <<>> => \E k \in DOMAIN Assets : CopiedTo(k)

\* The assets are a sequence of assets.
LEMMA AssetsAre ==
    /\ Assets \in Seq(AssetType) /\ Len(Assets) \in Nat /\ DOMAIN Assets = 1..Len(Assets)
    /\ \A i \in DOMAIN Assets : Assets[i].dir \in BOOLEAN
<1>1. Assets \in Seq(AssetType)
  BY FileAssumption DEF AssetType
<1>2. Len(Assets) \in Nat /\ DOMAIN Assets = 1..Len(Assets) /\ \A i \in DOMAIN Assets : Assets[i] \in AssetType
  BY <1>1
<1> QED
  BY <1>1, <1>2 DEF AssetType

\* No two are one, none is the document root, and the directories around one
\* come before it.
LEMMA AssetsInOrder ==
    ASSUME NEW i \in DOMAIN Assets
    PROVE  /\ Assets[i].path # Root
           /\ \A j \in DOMAIN Assets : Assets[j].path = Assets[i].path => j = i
           /\ \A n \in 2..Len(Assets[i].path) :
                Assets[i].path[n] = "/" =>
                  \E j \in 1..(i - 1) : Assets[j].dir /\ Assets[j].path = SubSeq(Assets[i].path, 1, n - 1)
  BY FileAssumption, Zenon DEF Root

\* In the beginning there is the document root alone.
LEMMA TreeInit == ASSUME Init PROVE Tree
<1> DEFINE root == [dir |-> TRUE, size |-> 0, mtime |-> clock]
<1>1. clock > 0 /\ todo = <<>> /\ tree = [p \in {Root} |-> root]
  <2>1. Starts \subseteq Nat \ {0}
    BY FileAssumption, Zenon
  <2> QED
    BY <2>1 DEF Init
<1>2. root.dir = TRUE /\ root.mtime = clock
  OBVIOUS
<1> HIDE DEF root
<1>3. DOMAIN tree = {Root} /\ tree[Root] = root
  BY <1>1
<1>4. Len(Root) = 1
  BY DEF Root
<1>5. Parents
  <2>1. \A p \in DOMAIN tree : 2..Len(p) = {}
    BY <1>3, <1>4
  <2> QED
    BY <2>1 DEF Parents
<1>6. AsMade
  BY <1>3, AssetsInOrder DEF AsMade
<1> QED
  BY <1>1, <1>2, <1>3, <1>5, <1>6 DEF Tree

\* What is left of the assets when one is done.
LEMMA AssetsLeft ==
    ASSUME NEW k \in DOMAIN Assets, todo = SubSeq(Assets, k, Len(Assets)), todo # <<>>
    PROVE  /\ Asset = Assets[k] /\ Tail(todo) = SubSeq(Assets, k + 1, Len(Assets))
           /\ Tail(todo) # <<>> => k + 1 \in DOMAIN Assets
<1> DEFINE n == Len(Assets)
<1>1. Assets \in Seq(AssetType) /\ n \in Nat /\ k \in 1..n /\ n \in k..n
  BY AssetsAre
<1>2. Head(todo) = Assets[k] /\ Tail(todo) = SubSeq(Assets, k + 1, n)
  BY <1>1, HeadTailOfSubSeq
<1>3. Asset = Assets[k]
  BY <1>2 DEF Asset
<1>4. k = n => Tail(todo) = <<>>
  BY <1>1, <1>2, SubSeqEmpty
<1> QED
  BY <1>1, <1>2, <1>3, <1>4

\* One asset more has been made.
LEMMA MadeMore ==
    ASSUME NEW k \in DOMAIN Assets, Made(k), Assets[k].path \in DOMAIN tree
    PROVE  Made(k + 1)
<1>1. k \in Nat
  BY AssetsAre
<1>2. ASSUME NEW j \in 1..((k + 1) - 1) PROVE Assets[j].path \in DOMAIN tree
  <2>1. j = k \/ j \in 1..(k - 1)
    BY <1>1
  <2> QED
    BY <2>1 DEF Made
<1> QED
  BY <1>2 DEF Made

\* The files stay, and the copy goes on, or not.
LEMMA TreeStays ==
    ASSUME Tree, Disk, tree' = tree, clock' = clock \/ clock' = clock + 1,
           \/ todo' = todo /\ writing' = writing
           \/ todo' = <<>>
           \/ todo # <<>> /\ Asset.path \in DOMAIN tree /\ todo' = Tail(todo) /\ writing' = FALSE
    PROVE  Tree'
<1>1. clock' > 0
  BY DEF Tree, Disk
<1>2. Parents' /\ AsMade' /\ (\A k : Made(k) <=> Made(k)')
  BY DEF Tree, Parents, AsMade, Made
<1>3. ASSUME todo' # <<>> PROVE \E k \in DOMAIN Assets : CopiedTo(k)'
  <2>1. CASE todo' = todo /\ writing' = writing
    BY <1>2, <1>3, <2>1 DEF Tree, CopiedTo
  <2>2. CASE todo # <<>> /\ Asset.path \in DOMAIN tree /\ todo' = Tail(todo) /\ writing' = FALSE
    <3>1. PICK k \in DOMAIN Assets : CopiedTo(k)
      BY <2>2 DEF Tree
    <3>2. Asset = Assets[k] /\ todo' = SubSeq(Assets, k + 1, Len(Assets)) /\ k + 1 \in DOMAIN Assets
      BY <1>3, <2>2, <3>1, AssetsLeft DEF CopiedTo
    <3>3. Made(k + 1)
      BY <2>2, <3>1, <3>2, MadeMore DEF CopiedTo
    <3>4. CopiedTo(k + 1)'
      BY <1>2, <2>2, <3>2, <3>3 DEF CopiedTo
    <3> QED
      BY <3>2, <3>4
  <2> QED
    BY <1>3, <2>1, <2>2
<1> QED
  BY <1>1, <1>2, <1>3 DEF Tree

\* An asset is made.
LEMMA TreeGrows ==
    ASSUME Tree, Disk, Extract, Asset.path \notin DOMAIN tree
    PROVE  Tree'
<1> DEFINE new == [dir |-> Asset.dir, size |-> 0, mtime |-> clock]
<1>1. /\ tree' = WithFile(Asset.path, new) /\ clock' = clock /\ todo # <<>>
      /\ writing' = ~Asset.dir /\ todo' = IF Asset.dir THEN Tail(todo) ELSE todo
  BY DEF Extract
<1>2. new.dir = Asset.dir /\ new.mtime = clock
  OBVIOUS
<1> HIDE DEF new
<1>3. /\ DOMAIN tree' = DOMAIN tree \cup {Asset.path}
      /\ tree'[Asset.path] = new /\ \A p \in DOMAIN tree : tree'[p] = tree[p]
  BY <1>1 DEF WithFile
<1>4. PICK k \in DOMAIN Assets : CopiedTo(k)
  BY <1>1 DEF Tree
<1>5. /\ Asset = Assets[k] /\ Tail(todo) = SubSeq(Assets, k + 1, Len(Assets))
      /\ Tail(todo) # <<>> => k + 1 \in DOMAIN Assets
  BY <1>1, <1>4, AssetsLeft DEF CopiedTo
<1>6. k \in Nat /\ DOMAIN Assets = 1..Len(Assets) /\ Len(Assets) \in Nat
  BY AssetsAre
<1>7. clock' > 0 /\ \A p \in DOMAIN tree' : tree'[p].mtime > 0
  BY <1>1, <1>2, <1>3 DEF Tree
<1>8. Root \in DOMAIN tree' /\ tree'[Root].dir = TRUE
  BY <1>3 DEF Tree
<1>9. AsMade'
  <2> SUFFICES ASSUME NEW i \in DOMAIN Assets, Assets[i].path \in DOMAIN tree'
               PROVE  tree'[Assets[i].path].dir = Assets[i].dir
    BY DEF AsMade
  <2>1. CASE Assets[i].path \in DOMAIN tree
    BY <1>3, <2>1 DEF Tree, AsMade
  <2>2. CASE Assets[i].path = Asset.path
    <3>1. i = k
      BY <1>5, <2>2, AssetsInOrder
    <3> QED
      BY <1>2, <1>3, <1>5, <2>2, <3>1
  <2> QED
    BY <1>3, <2>1, <2>2
<1>10. Parents'
  <2> SUFFICES ASSUME NEW p \in DOMAIN tree', NEW n \in 2..Len(p), p[n] = "/"
               PROVE  SubSeq(p, 1, n - 1) \in DOMAIN tree' /\ tree'[SubSeq(p, 1, n - 1)].dir = TRUE
    BY DEF Parents
  <2> DEFINE d == SubSeq(p, 1, n - 1)
  <2>1. d \in DOMAIN tree /\ tree[d].dir = TRUE
    <3>1. CASE p \in DOMAIN tree
      BY <3>1 DEF Tree, Parents
    <3>2. CASE p = Assets[k].path
      <4>1. PICK j \in 1..(k - 1) : Assets[j].dir /\ Assets[j].path = d
        BY <3>2, AssetsInOrder
      <4>2. j \in DOMAIN Assets /\ Assets[j].dir \in BOOLEAN
        BY <1>6, AssetsAre
      <4>3. d \in DOMAIN tree
        BY <1>4, <4>1 DEF CopiedTo, Made
      <4> QED
        BY <4>1, <4>2, <4>3 DEF Tree, AsMade
    <3> QED
      BY <1>3, <1>5, <3>1, <3>2
  <2> QED
    BY <1>3, <2>1
<1>11. ASSUME todo' # <<>> PROVE \E l \in DOMAIN Assets : CopiedTo(l)'
  <2>1. CASE Asset.dir
    <3>1. todo' = SubSeq(Assets, k + 1, Len(Assets)) /\ k + 1 \in DOMAIN Assets /\ writing' = FALSE
      BY <1>1, <1>5, <1>11, <2>1
    <3>2. Made(k + 1)'
      <4>1. ASSUME NEW j \in 1..((k + 1) - 1) PROVE Assets[j].path \in DOMAIN tree'
        <5>1. j = k \/ j \in 1..(k - 1)
          BY <1>6
        <5> QED
          BY <1>3, <1>4, <1>5, <5>1 DEF CopiedTo, Made
      <4> QED
        BY <4>1 DEF Made
    <3> QED
      BY <3>1, <3>2 DEF CopiedTo
  <2>2. CASE ~Asset.dir
    <3>1. todo' = todo /\ Assets[k].path \in DOMAIN tree' /\ Made(k)'
      BY <1>1, <1>3, <1>4, <1>5, <2>2 DEF CopiedTo, Made
    <3> QED
      BY <1>4, <3>1 DEF CopiedTo
  <2> QED
    BY <2>1, <2>2
<1> QED
  BY <1>7, <1>8, <1>9, <1>10, <1>11 DEF Tree

\* A piece of an asset is written.
LEMMA TreeFills ==
    ASSUME Tree, Disk, CopyFile
    PROVE  Tree'
<1> DEFINE a == Asset.path
<1>1. writing /\ clock' = clock /\ todo # <<>>
  BY DEF CopyFile, Disk
<1>2. PICK k \in DOMAIN Assets : CopiedTo(k)
  BY <1>1 DEF Tree
<1>3. Asset = Assets[k]
  BY <1>1, <1>2, AssetsLeft DEF CopiedTo
<1>4. a \in DOMAIN tree
  BY <1>1, <1>2, <1>3 DEF CopiedTo
<1>5. CASE tree' = tree
  <2>1. (todo' = todo /\ writing' = writing) \/ (todo' = Tail(todo) /\ writing' = FALSE)
    BY DEF CopyFile
  <2> QED
    BY <1>1, <1>4, <1>5, <2>1, TreeStays
<1>6. CASE tree' # tree
  <2>1. tree' = [tree EXCEPT ![a].size = @ + 1, ![a].mtime = clock] /\ todo' = todo /\ writing' = writing
    BY <1>6 DEF CopyFile
  <2> HIDE DEF a
  <2>2. DOMAIN tree' = DOMAIN tree /\ \A p \in DOMAIN tree \ {a} : tree'[p] = tree[p]
    BY <2>1
  <2>3. tree'[a] = [tree[a] EXCEPT !.size = @ + 1, !.mtime = clock]
    BY <1>4, <2>1
  <2>4. tree'[a].dir = tree[a].dir /\ tree'[a].mtime = clock
    <3> DEFINE f == tree[a]
               g == [f EXCEPT !.size = @ + 1, !.mtime = clock]
    <3>1. f \in FileType /\ tree'[a] = g /\ clock \in Nat
      BY <1>4, <2>3 DEF Disk
    <3> HIDE DEF f
    <3>2. g.dir = f.dir /\ g.mtime = clock
      BY <3>1, LongerFile
    <3> HIDE DEF g
    <3> QED
      BY <3>1, <3>2 DEF f
  <2>5. \A p \in DOMAIN tree : tree'[p].dir = tree[p].dir /\ (tree'[p].mtime = tree[p].mtime \/ tree'[p].mtime = clock)
    BY <2>2, <2>4
  <2>6. clock' > 0 /\ \A p \in DOMAIN tree' : tree'[p].mtime > 0
    BY <1>1, <2>2, <2>5 DEF Tree
  <2>7. Parents' /\ AsMade' /\ Root \in DOMAIN tree' /\ tree'[Root].dir = TRUE
    BY <2>2, <2>5 DEF Tree, Parents, AsMade
  <2>8. CopiedTo(k)'
    BY <1>2, <2>1, <2>2 DEF CopiedTo, Made
  <2> QED
    BY <2>6, <2>7, <2>8 DEF Tree
<1> QED
  BY <1>5, <1>6

\* No step leaves a file outside of its directory.
LEMMA TreeNext == ASSUME Tree, Disk, [Next]_vars PROVE Tree'
<1>1. CASE CopyFile
  BY <1>1, TreeFills
<1>2. CASE Extract /\ Asset.path \notin DOMAIN tree
  BY <1>2, TreeGrows
<1>3. CASE Extract /\ Asset.path \in DOMAIN tree
  <2>1. /\ todo # <<>> /\ ~writing /\ writing \in BOOLEAN /\ Asset.path \in DOMAIN tree
        /\ todo' = Tail(todo) /\ tree' = tree /\ writing' = writing /\ clock' = clock
    BY <1>3 DEF Extract, Disk
  <2>2. writing' = FALSE
    BY <2>1
  <2> QED
    BY <2>1, <2>2, TreeStays
<1>4. CASE Kill
  BY <1>4, TreeStays DEF Kill
<1>5. CASE WriteFails
  <2>1. PICK k \in DOMAIN Assets : CopiedTo(k)
    BY <1>5 DEF Tree, WriteFails, Disk
  <2>2. writing /\ todo # <<>> /\ tree' = tree /\ clock' = clock /\ todo' = Tail(todo) /\ writing' = FALSE
    BY <1>5 DEF WriteFails, Disk
  <2>3. Asset.path \in DOMAIN tree
    BY <2>1, <2>2, AssetsLeft DEF CopiedTo
  <2> QED
    BY <2>2, <2>3, TreeStays
<1>6. CASE StartCopy
  <2>1. todo = <<>> /\ todo' = Assets /\ tree' = tree /\ writing' = writing /\ clock' = clock /\ ~writing
    BY <1>6 DEF StartCopy, Disk
  <2>2. Assets = SubSeq(Assets, 1, Len(Assets))
    BY AssetsAre, SubSeqFull
  <2>3. Assets # <<>> => 1 \in DOMAIN Assets
    BY AssetsAre, EmptySeq
  <2>4. CopiedTo(1)'
    BY <2>1, <2>2 DEF CopiedTo, Made
  <2>5. Parents' /\ AsMade'
    BY <2>1 DEF Tree, Parents, AsMade
  <2> QED
    BY <2>1, <2>3, <2>4, <2>5 DEF Tree
<1>7. CASE ~Copy
  <2>1. UNCHANGED disk /\ (clock' = clock \/ clock' = clock + 1)
    BY <1>7, OthersLeaveDisk
  <2> QED
    BY <2>1, TreeStays DEF disk
<1> QED
  BY <1>1, <1>2, <1>3, <1>4, <1>5, <1>6, <1>7 DEF Copy

-----------------------------------------------------------------------------
(* What a copy is worth while the files grow.  Operators of the files t and *)
(* of a copy c, which was asked for at the time c.at.                       *)

IsDir(f) == f.dir = TRUE

\* A file that has not changed since the time at.
IsOld(f, at) == Exists(f) /\ f.mtime < at

\* If the file has not changed since, the copy is of it.
Agrees(c, name, f) == IsOld(f, c.at) => c.name = name /\ c.size = f.size

Packed(uri) == Append(Clean(uri), ".gz")

IndexOf(uri, i) == InDir(Stripped(Clean(uri)), IndexFiles[i])

Plainly(t, c) == IsDir(StatOf(t, Clean(c.uri))) \/ Agrees(c, Clean(c.uri), StatOf(t, Clean(c.uri)))

Zipped(t, c) == IsDir(StatOf(t, Packed(c.uri))) \/ Agrees(c, Clean(c.uri), StatOf(t, Packed(c.uri)))

Absent(t, uri, i, k) == \A j \in i..(k - 1) : ~Exists(StatOf(t, IndexOf(uri, j)))

IndexedFrom(t, c, k) ==
    \A i \in k..Len(IndexFiles) :
        Absent(t, c.uri, k, i) => Agrees(c, IndexOf(c.uri, i), StatOf(t, IndexOf(c.uri, i)))

\* Whichever old file the server finds for the URI of a copy, it is that of
\* the copy.
IsKept(t, c) ==
    /\ Plainly(t, c)
    /\ Exists(StatOf(t, Clean(c.uri))) \/ Zipped(t, c)
    /\ IndexedFrom(t, c, 1)

\* For a URI no old file is found, plain or packed.
NoOldFile(t, uri, at) ==
    /\ IsDir(StatOf(t, Clean(uri))) \/ ~IsOld(StatOf(t, Clean(uri)), at)
    /\ Exists(StatOf(t, Clean(uri))) \/ IsDir(StatOf(t, Packed(uri))) \/ ~IsOld(StatOf(t, Packed(uri)), at)

\* Nor one of the first n index files.
NoOldIndex(t, uri, at, n) == \A i \in 1..n : ~IsOld(StatOf(t, IndexOf(uri, i)), at)

\* What is old after a step was there before it.
LEMMA OldWas ==
    ASSUME Disk, Grows, NEW at \in Nat, at <= clock, NEW p, IsOld(StatOf(tree', p), at)
    PROVE  StatOf(tree', p) = StatOf(tree, p)
<1>1. StatOf(tree', p) = StatOf(tree, p) \/ StatOf(tree', p).mtime = clock
  BY StatGrows
<1>2. clock \in Nat
  BY DEF Disk
<1> QED
  BY <1>1, <1>2 DEF IsOld

\* What is there stays, and what is a directory.
LEMMA ThereStays ==
    ASSUME Disk, Tree, Grows, NEW p
    PROVE  /\ Exists(StatOf(tree, p)) => Exists(StatOf(tree', p))
           /\ IsDir(StatOf(tree, p)) => IsDir(StatOf(tree', p))
<1> DEFINE q == Stripped(p)
<1>1. CASE q \in DOMAIN tree
  <2>1. q \in DOMAIN tree' /\ tree'[q].dir = tree[q].dir /\ (tree'[q].mtime = tree[q].mtime \/ tree'[q].mtime = clock)
    BY <1>1 DEF Grows
  <2>2. tree[q].mtime > 0 /\ clock > 0 /\ tree[q].mtime \in Nat /\ clock \in Nat
    BY <1>1 DEF Tree, Disk, FileType
  <2> HIDE DEF q
  <2> QED
    BY <1>1, <2>1, <2>2 DEF StatOf, Missing, q, Exists, IsDir
<1>2. CASE q \notin DOMAIN tree
  <2>1. StatOf(tree, p) = Missing
    BY <1>2 DEF StatOf
  <2> QED
    BY <2>1 DEF Missing, Exists, IsDir
<1> QED
  BY <1>1, <1>2

\* What agrees with a copy does so as long as it is old.
LEMMA AgreesStays ==
    ASSUME Disk, Grows, NEW c, c.at \in Nat, c.at <= clock, NEW p, NEW name, Agrees(c, name, StatOf(tree, p))
    PROVE  Agrees(c, name, StatOf(tree', p))
<1> SUFFICES ASSUME IsOld(StatOf(tree', p), c.at) PROVE c.name = name /\ c.size = StatOf(tree', p).size
  BY DEF Agrees
<1>1. StatOf(tree', p) = StatOf(tree, p)
  BY OldWas
<1> QED
  BY <1>1 DEF Agrees

\* A packed file agrees with a copy as long as it is old.
LEMMA ZippedStays ==
    ASSUME Disk, Tree, Grows, NEW c, c.at \in Nat, c.at <= clock, Zipped(tree, c)
    PROVE  Zipped(tree', c)
  BY AgreesStays, ThereStays DEF Zipped

\* So do the index files from the k-th.
LEMMA IndexedStays ==
    ASSUME Disk, Tree, Grows, NEW c, c.at \in Nat, c.at <= clock, NEW k, IndexedFrom(tree, c, k)
    PROVE  IndexedFrom(tree', c, k)
<1> SUFFICES ASSUME NEW i \in k..Len(IndexFiles), Absent(tree', c.uri, k, i)
             PROVE  Agrees(c, IndexOf(c.uri, i), StatOf(tree', IndexOf(c.uri, i)))
  BY DEF IndexedFrom
<1>1. Absent(tree, c.uri, k, i)
  BY ThereStays DEF Absent
<1>2. Agrees(c, IndexOf(c.uri, i), StatOf(tree, IndexOf(c.uri, i)))
  BY <1>1 DEF IndexedFrom
<1> QED
  BY <1>2, AgreesStays

\* A copy keeps its worth.
LEMMA KeptStays ==
    ASSUME Disk, Tree, Grows, NEW c, c.at \in Nat, c.at <= clock, IsKept(tree, c)
    PROVE  IsKept(tree', c)
<1>1. Plainly(tree', c)
  BY AgreesStays, ThereStays DEF Plainly, IsKept
<1>2. Exists(StatOf(tree', Clean(c.uri))) \/ Zipped(tree', c)
  BY ZippedStays, ThereStays DEF IsKept
<1>3. IndexedFrom(tree', c, 1)
  BY IndexedStays DEF IsKept
<1> QED
  BY <1>1, <1>2, <1>3 DEF IsKept

\* No file becomes old.
LEMMA NoneGetsOld ==
    ASSUME Disk, Grows, NEW at \in Nat, at <= clock, NEW p, ~IsOld(StatOf(tree, p), at)
    PROVE  ~IsOld(StatOf(tree', p), at)
  BY OldWas

\* A URI without an old file gets none.
LEMMA NoOldFileStays ==
    ASSUME Disk, Tree, Grows, NEW at \in Nat, at <= clock, NEW uri, NoOldFile(tree, uri, at)
    PROVE  NoOldFile(tree', uri, at)
  BY NoneGetsOld, ThereStays DEF NoOldFile

\* A directory without an old index file gets none.
LEMMA NoOldIndexStays ==
    ASSUME Disk, Grows, NEW at \in Nat, at <= clock, NEW uri, NEW n, NoOldIndex(tree, uri, at, n)
    PROVE  NoOldIndex(tree', uri, at, n)
  BY NoneGetsOld DEF NoOldIndex

\* A path without the slashes at its end.
LEMMA StrippedIs ==
    ASSUME NEW p \in Text, p # <<>>
    PROVE  Stripped(p) \in Text /\ Len(Stripped(p)) > 0
<1> DEFINE E == {n \in 1..Len(p) : \A i \in (n + 1)..Len(p) : p[i] = "/"}
           e == CHOOSE n \in E : \A m \in E : n <= m
<1>1. Len(p) \in Nat /\ Len(p) > 0 /\ p \in Seq(Symbol)
  BY EmptySeq, LenProperties DEF Text
<1>2. Len(p) \in E /\ E \subseteq Nat /\ E \subseteq 1..Len(p)
  BY <1>1
<1> HIDE DEF E
<1>3. e \in E
  <2>1. \E n \in E : \A m \in E : n <= m
    BY <1>2, LeastNumber
  <2> QED
    BY <2>1
<1> HIDE DEF e
<1>4. Stripped(p) = SubSeq(p, 1, e)
  BY DEF Stripped, e, E
<1>5. e \in 1..Len(p)
  BY <1>2, <1>3
<1>6. SubSeq(p, 1, e) \in Seq(Symbol) /\ Len(SubSeq(p, 1, e)) > 0
  BY <1>1, <1>5, SubSeqProperties
<1> QED
  BY <1>4, <1>6 DEF Text

\* A path that does not end in a slash is not stripped.
LEMMA NothingStripped ==
    ASSUME NEW p \in Text, p # <<>>, p[Len(p)] # "/"
    PROVE  Stripped(p) = p
<1> DEFINE E == {n \in 1..Len(p) : \A i \in (n + 1)..Len(p) : p[i] = "/"}
           e == CHOOSE n \in E : \A m \in E : n <= m
<1>1. Len(p) \in Nat /\ Len(p) > 0 /\ p \in Seq(Symbol)
  BY EmptySeq, LenProperties DEF Text
<1>2. E = {Len(p)}
  BY <1>1
<1> HIDE DEF E
<1>3. e = Len(p)
  BY <1>1, <1>2
<1> HIDE DEF e
<1>4. Stripped(p) = SubSeq(p, 1, e)
  BY DEF Stripped, e, E
<1> QED
  BY <1>1, <1>3, <1>4, SubSeqFull

\* A name in a directory.
LEMMA InDirIs ==
    ASSUME NEW d \in Text, NEW name \in Text, Len(d) > 0, Len(name) > 0
    PROVE  LET x == d \o <<"/">> \o name
           IN /\ x \in Text /\ x # <<>> /\ Len(x) = Len(d) + 1 + Len(name)
              /\ x[Len(d) + 1] = "/" /\ x[Len(x)] = name[Len(name)]
              /\ SubSeq(x, 1, Len(d)) = d
<1> DEFINE c == "/"
           slash == <<c>>
           y == d \o slash
           x == y \o name
<1>0. c \in Symbol
  BY DEF Symbol, Named
<1> HIDE DEF c
<1>1. slash \in Text /\ Len(slash) = 1 /\ slash[1] = c
  BY <1>0 DEF Text
<1> HIDE DEF slash
<1>2. /\ y \in Text /\ Len(y) = Len(d) + 1 /\ Len(d) \in Nat
      /\ \A i \in 1..(Len(d) + 1) : y[i] = IF i <= Len(d) THEN d[i] ELSE slash[i - Len(d)]
  <2>1. /\ y \in Text /\ Len(y) = Len(d) + Len(slash) /\ Len(d) \in Nat
        /\ \A i \in 1..(Len(d) + Len(slash)) : y[i] = IF i <= Len(d) THEN d[i] ELSE slash[i - Len(d)]
    BY <1>1, JoinIs
  <2> QED
    BY <1>1, <2>1
<1>3. SubSeq(y, 1, Len(d)) = d
  <2>1. d \in Seq(Symbol) /\ slash \in Seq(Symbol) /\ 1 \in 1..Len(d) /\ Len(d) \in 1..Len(d)
    BY <1>1, <1>2 DEF Text
  <2> QED
    BY <2>1, SubSeqOfConcat1, SubSeqFull
<1>4. y[Len(d) + 1] = c
  <2>1. Len(d) + 1 \in 1..(Len(d) + 1) /\ ~(Len(d) + 1 <= Len(d)) /\ (Len(d) + 1) - Len(d) = 1
    BY <1>2
  <2> QED
    BY <1>1, <1>2, <2>1
<1> HIDE DEF y
<1>5. /\ x \in Text /\ Len(x) = Len(y) + Len(name) /\ Len(name) \in Nat
      /\ \A i \in 1..(Len(y) + Len(name)) : x[i] = IF i <= Len(y) THEN y[i] ELSE name[i - Len(y)]
  BY <1>2, JoinIs
<1>6. SubSeq(x, 1, Len(d)) = d
  <2>1. y \in Seq(Symbol) /\ name \in Seq(Symbol) /\ 1 \in 1..Len(y) /\ Len(d) \in 1..Len(y)
    BY <1>2 DEF Text
  <2> QED
    BY <1>3, <2>1, SubSeqOfConcat1
<1> HIDE DEF x
<1>7. x # <<>> /\ Len(x) = Len(d) + 1 + Len(name)
  BY <1>2, <1>5
<1>8. x[Len(d) + 1] = c
  BY <1>2, <1>4, <1>5
<1>9. x[Len(x)] = name[Len(name)]
  <2>1. Len(x) \in 1..(Len(y) + Len(name)) /\ ~(Len(x) <= Len(y)) /\ Len(x) - Len(y) = Len(name)
    BY <1>2, <1>5
  <2> QED
    BY <1>5, <2>1
<1> QED
  BY <1>5, <1>6, <1>7, <1>8, <1>9 DEF x, y, slash, c

\* The index files are a sequence.
LEMMA IndexFilesAre == Len(IndexFiles) \in Nat /\ DOMAIN IndexFiles = 1..Len(IndexFiles)
<1>1. IndexFiles \in Seq(Seq(STRING))
  BY FileAssumption, Zenon
<1> QED
  BY <1>1

\* The names of the index files.
LEMMA IndexNames ==
    ASSUME NEW i \in DOMAIN IndexFiles
    PROVE  IndexFiles[i] \in Text /\ Len(IndexFiles[i]) > 0 /\ IndexFiles[i][Len(IndexFiles[i])] # "/"
<1>1. IndexFiles \in Seq(Seq(STRING))
  BY FileAssumption, Zenon
<1>2. IndexFiles[i] # <<>> /\ Last(IndexFiles[i]) # "/"
  BY FileAssumption, Zenon
<1>3. IndexFiles[i] \in Seq(STRING)
  BY <1>1
<1>4. Seq(STRING) \subseteq Text
  BY DEF Text, Symbol
<1> QED
  BY <1>2, <1>3, <1>4, EmptySeq, LenProperties DEF Last

\* Where an index file is, is a directory.
LEMMA IndexInDirectory ==
    ASSUME Disk, Tree, NEW p \in Text, p # <<>>, NEW i \in DOMAIN IndexFiles,
           Exists(StatOf(tree, InDir(Stripped(p), IndexFiles[i])))
    PROVE  IsDir(StatOf(tree, p)) /\ Exists(StatOf(tree, p))
<1> DEFINE d == Stripped(p)
           name == IndexFiles[i]
           x == d \o <<"/">> \o name
<1>1. d \in Text /\ Len(d) > 0 /\ Len(d) \in Nat
  BY StrippedIs DEF Text
<1>2. name \in Text /\ Len(name) > 0 /\ name[Len(name)] # "/" /\ Len(name) \in Nat
  BY IndexNames DEF Text
<1>3. Exists(StatOf(tree, InDir(d, name)))
  OBVIOUS
<1> HIDE DEF d, name
<1>4. d \in DOMAIN tree /\ tree[d].dir = TRUE
  <2>1. CASE d = Root
    BY <2>1 DEF Tree
  <2>2. CASE d # Root
    <3>1. InDir(d, name) = x
      BY <2>2 DEF InDir
    <3>2. /\ x \in Text /\ x # <<>> /\ Len(x) = Len(d) + 1 + Len(name) /\ x[Len(d) + 1] = "/"
          /\ x[Len(x)] = name[Len(name)] /\ SubSeq(x, 1, Len(d)) = d
      BY <1>1, <1>2, InDirIs
    <3> HIDE DEF x
    <3>3. Stripped(x) = x
      BY <1>2, <3>2, NothingStripped
    <3>4. x \in DOMAIN tree
      BY <1>3, <3>1, <3>3 DEF StatOf, Missing, Exists
    <3>5. Len(d) + 1 \in 2..Len(x) /\ (Len(d) + 1) - 1 = Len(d)
      BY <1>1, <1>2, <3>2
    <3> QED
      BY <3>2, <3>4, <3>5 DEF Tree, Parents
  <2> QED
    BY <2>1, <2>2
<1>5. tree[d].mtime > 0 /\ tree[d].mtime \in Nat
  BY <1>4 DEF Tree, Disk, FileType
<1> QED
  BY <1>4, <1>5 DEF StatOf, d, IsDir, Exists

-----------------------------------------------------------------------------
(* The copy of the browser, and the one that it will have.                 *)

\* The copy of a request is the one that the browser has.
Owner ==
    /\ asked.at \in Nat /\ asked.at <= clock
    /\ asked.copy # <<>> => asked.copy = cached /\ cached[1].uri = asked.uri
    /\ cached # <<>> => /\ cached[1].at \in Nat /\ cached[1].at <= clock /\ cached[1].mtime \in Nat
                        /\ IsKept(tree, cached[1])

Paths ==
    /\ pc \in {"stat gz", "decide"} => conn.path = Clean(asked.uri)
    /\ pc = "index" => conn.path = Stripped(Clean(asked.uri)) /\ conn.index \in Nat /\ conn.index > 0

\* Whichever old file the server finds for a request, it is that of the copy.
Compared ==
    asked.copy # <<>> =>
        /\ pc = "stat gz" => Zipped(tree, cached[1])
        /\ pc = "decide" => IsDir(conn.file) \/ Agrees(cached[1], conn.path, conn.file)
        /\ pc = "index" => IndexedFrom(tree, cached[1], conn.index)
        /\ pc = "file" \/ answer.status = 304 => Agrees(cached[1], conn.path, conn.file)

\* 304 is told of a file that is not younger than the copy says.
Spared ==
    answer.status = 304 =>
        /\ pc = "done" /\ asked.copy # <<>> /\ Exists(conn.file)
        /\ conn.file.mtime <= cached[1].mtime \/ BeforeLeapDay(cached[1].mtime)

\* The copy that the file of the worker makes.
Prospect(uri, at, name, size) == [uri |-> uri, at |-> at, name |-> name, size |-> size]

New == Prospect(asked.uri, asked.at, conn.path, conn.file.size)

\* It will be what the server finds for the same URI, as long as that is old.
Fresh ==
    /\ pc = "stat gz" => /\ ~IsOld(StatOf(tree, Clean(asked.uri)), asked.at)
                         /\ NoOldIndex(tree, asked.uri, asked.at, Len(IndexFiles))
    /\ pc = "decide" /\ Exists(conn.file) =>
         /\ IsDir(conn.file) => NoOldFile(tree, asked.uri, asked.at)
         /\ ~IsDir(conn.file) => IsKept(tree, New)
    /\ pc = "index" => /\ NoOldFile(tree, asked.uri, asked.at)
                       /\ NoOldIndex(tree, asked.uri, asked.at, conn.index - 1)
    /\ pc = "file" \/ Sending => IsKept(tree, New)
    /\ Sending => answer.name = conn.path /\ (answer.status = 200 => asked.range = <<>>)

CopyInv == Tree /\ Owner /\ Paths /\ Compared /\ Spared /\ Fresh

\* What is known of a prospect.
LEMMA ProspectIs ==
    ASSUME NEW uri, NEW at, NEW name, NEW size
    PROVE  LET c == Prospect(uri, at, name, size)
           IN c.uri = uri /\ c.at = at /\ c.name = name /\ c.size = size
  BY DEF Prospect

\* A copy is worth what its name, size and time say.
LEMMA SameWorth ==
    ASSUME NEW t, NEW c, NEW d, c.uri = d.uri, c.at = d.at, c.name = d.name, c.size = d.size, IsKept(t, c)
    PROVE  IsKept(t, d)
<1>1. ASSUME NEW name, NEW f, Agrees(c, name, f) PROVE Agrees(d, name, f)
  BY <1>1 DEF Agrees
<1>2. Plainly(t, d) /\ (Zipped(t, c) => Zipped(t, d))
  BY <1>1 DEF IsKept, Plainly, Zipped
<1>3. IndexedFrom(t, d, 1)
  BY <1>1 DEF IsKept, IndexedFrom
<1> QED
  BY <1>2, <1>3 DEF IsKept

\* A file that is there under the path of the URI.
LEMMA PlainIsKept ==
    ASSUME Disk, Tree, NEW c, IsPath(c.uri), Exists(StatOf(tree, Clean(c.uri))), ~IsDir(StatOf(tree, Clean(c.uri))),
           c.name = Clean(c.uri), c.size = StatOf(tree, Clean(c.uri)).size
    PROVE  IsKept(tree, c)
<1>1. Clean(c.uri) \in Text /\ Clean(c.uri) # <<>>
  BY CleanIs, PathIsText
<1>2. ASSUME NEW i \in 1..Len(IndexFiles) PROVE ~Exists(StatOf(tree, IndexOf(c.uri, i)))
  <2>1. i \in DOMAIN IndexFiles
    BY IndexFilesAre
  <2> QED
    BY <1>1, <2>1, IndexInDirectory DEF IndexOf
<1>3. IndexedFrom(tree, c, 1)
  BY <1>2 DEF IndexedFrom, Agrees, IsOld
<1>4. Plainly(tree, c)
  BY DEF Plainly, Agrees
<1> QED
  BY <1>3, <1>4 DEF IsKept

\* A packed file, where nothing else is old.
LEMMA PackedIsKept ==
    ASSUME NEW c, ~IsOld(StatOf(tree, Clean(c.uri)), c.at), NoOldIndex(tree, c.uri, c.at, Len(IndexFiles)),
           c.name = Clean(c.uri), c.size = StatOf(tree, Packed(c.uri)).size
    PROVE  IsKept(tree, c)
<1>1. Plainly(tree, c) /\ Zipped(tree, c)
  BY DEF Plainly, Zipped, Agrees
<1>2. IndexedFrom(tree, c, 1)
  BY DEF IndexedFrom, NoOldIndex, Agrees
<1> QED
  BY <1>1, <1>2 DEF IsKept

\* The first index file that is there, where nothing before it is old.
LEMMA IndexIsKept ==
    ASSUME NEW c, NEW k \in 1..Len(IndexFiles), NoOldFile(tree, c.uri, c.at), NoOldIndex(tree, c.uri, c.at, k - 1),
           Exists(StatOf(tree, IndexOf(c.uri, k))),
           c.name = IndexOf(c.uri, k), c.size = StatOf(tree, IndexOf(c.uri, k)).size
    PROVE  IsKept(tree, c)
<1>1. Plainly(tree, c) /\ (Exists(StatOf(tree, Clean(c.uri))) \/ Zipped(tree, c))
  BY DEF NoOldFile, Plainly, Zipped, Agrees
<1>2. ASSUME NEW i \in 1..Len(IndexFiles), Absent(tree, c.uri, 1, i)
      PROVE  Agrees(c, IndexOf(c.uri, i), StatOf(tree, IndexOf(c.uri, i)))
  <2>1. CASE i < k
    <3>1. i \in 1..(k - 1)
      BY <2>1
    <3> QED
      BY <3>1 DEF NoOldIndex, Agrees
  <2>2. CASE i = k
    BY <2>2 DEF Agrees
  <2>3. CASE i > k
    <3>1. k \in 1..(i - 1)
      BY <2>3
    <3> QED
      BY <1>2, <3>1 DEF Absent
  <2> QED
    BY <2>1, <2>2, <2>3
<1>3. IndexedFrom(tree, c, 1)
  BY <1>2 DEF IndexedFrom
<1> QED
  BY <1>1, <1>3 DEF IsKept

\* In the beginning there is no copy.
LEMMA CopyInit == ASSUME Init PROVE CopyInv
<1>1. /\ asked = NoRequest /\ cached = <<>> /\ pc = "idle" /\ answer = NoAnswer
      /\ clock \in Nat
  BY DiskInit DEF Init, Disk
<1>2. asked.at = 0 /\ asked.copy = <<>> /\ answer.status = 0 /\ answer.name = <<>>
  BY <1>1 DEF NoRequest, NoAnswer
<1> QED
  BY <1>1, <1>2, TreeInit DEF CopyInv, Owner, Paths, Compared, Spared, Fresh, Sending

\* The files grow, the clock ticks, or the browser leaves.
LEMMA OthersCopy ==
    ASSUME CopyInv, Disk, Grows, clock <= clock', clock' \in Nat, UNCHANGED server, asked' = asked, cached' = cached
    PROVE  Owner' /\ Paths' /\ Compared' /\ Spared' /\ Fresh'
<1>1. pc' = pc /\ conn' = conn /\ answer' = answer /\ clock \in Nat
  BY DEF server, Disk
<1> DEFINE c == cached[1]
           n == New
           at == asked.at
           uri == asked.uri
<1>2. asked.copy # <<>> => cached # <<>> /\ asked.copy = cached /\ cached[1].uri = asked.uri
  BY DEF CopyInv, Owner
<1>3. cached # <<>> => c.at \in Nat /\ c.at <= clock /\ c.mtime \in Nat /\ IsKept(tree, c)
  BY DEF CopyInv, Owner
<1>4. at \in Nat /\ at <= clock
  BY DEF CopyInv, Owner
<1>5. n.at = at
  BY ProspectIs DEF New
<1>6. New' = New
  BY <1>1 DEF New
<1> HIDE DEF c, n, at, uri
<1>7. Tree
  BY DEF CopyInv
<1>8. cached # <<>> => IsKept(tree', c)
  BY <1>3, <1>7, KeptStays
<1>9. IsKept(tree, n) => IsKept(tree', n)
  BY <1>4, <1>5, <1>7, KeptStays
<1>10. Owner'
  <2>1. cached # <<>> => c.at <= clock'
    BY <1>1, <1>3
  <2>2. at <= clock'
    BY <1>1, <1>4
  <2> QED
    BY <1>2, <1>3, <1>4, <1>8, <2>1, <2>2 DEF Owner, c, at
<1>11. Paths'
  BY <1>1 DEF CopyInv, Paths
<1>12. Spared'
  BY <1>1 DEF CopyInv, Spared
<1>13. Compared'
  <2>1. cached # <<>> /\ Zipped(tree, c) => Zipped(tree', c)
    BY <1>3, <1>7, ZippedStays
  <2>2. \A k : cached # <<>> /\ IndexedFrom(tree, c, k) => IndexedFrom(tree', c, k)
    BY <1>3, <1>7, IndexedStays
  <2> QED
    BY <1>1, <1>2, <2>1, <2>2 DEF CopyInv, Compared, c
<1>14. Fresh'
  <2>1. \A p : ~IsOld(StatOf(tree, p), at) => ~IsOld(StatOf(tree', p), at)
    BY <1>4, NoneGetsOld
  <2>2. NoOldFile(tree, uri, at) => NoOldFile(tree', uri, at)
    BY <1>4, <1>7, NoOldFileStays
  <2>3. \A k : NoOldIndex(tree, uri, at, k) => NoOldIndex(tree', uri, at, k)
    BY <1>4, NoOldIndexStays
  <2> QED
    BY <1>1, <1>6, <1>9, <2>1, <2>2, <2>3 DEF CopyInv, Fresh, Sending, n, at, uri
<1> QED
  BY <1>10, <1>11, <1>12, <1>13, <1>14

\* What the worker does leaves the copy as it is.
LEMMA OwnerStays ==
    ASSUME Owner, UNCHANGED <<disk, clock, user>> PROVE Owner'
  BY DEF Owner, disk, user

\* An answer without a file and without 304.
LEMMA Quiet ==
    ASSUME CopyInv, UNCHANGED <<disk, clock, user>>, pc' \in {"opendir", "readdir", "done"},
           answer'.name = <<>>, answer'.status # 304
    PROVE  Owner' /\ Paths' /\ Compared' /\ Spared' /\ Fresh'
<1>1. Owner'
  BY OwnerStays DEF CopyInv
<1> QED
  BY <1>1 DEF Paths, Compared, Spared, Fresh, Sending

\* A head without a body that is not 304.
LEMMA ReplyCopy ==
    ASSUME CopyInv, NEW status, status # 304, NEW location, Reply(status, location)
    PROVE  Owner' /\ Paths' /\ Compared' /\ Spared' /\ Fresh'
<1>1. answer' = [NoAnswer EXCEPT !.status = status, !.location = location] /\ pc' = "done"
      /\ UNCHANGED <<disk, clock, user>>
  BY DEF Reply
<1>2. answer'.status = status /\ answer'.name = <<>>
  BY <1>1 DEF NoAnswer
<1> QED
  BY <1>1, <1>2, Quiet

\* A worker that has been asked nothing, or has read nothing yet.
LEMMA Waiting ==
    ASSUME Owner', pc' \in {"idle", "request"}, answer'.status # 304
    PROVE  Owner' /\ Paths' /\ Compared' /\ Spared' /\ Fresh'
  BY DEF Paths, Compared, Spared, Fresh, Sending

\* A browser asks, and sends the dates of its copy along.
LEMMA AskCopy == ASSUME ReadInv, WholeInv, CopyInv, Ask PROVE Owner' /\ Paths' /\ Compared' /\ Spared' /\ Fresh'
<1>1. PICK r \in Requests :
        /\ asked' = [method |-> r.method, uri |-> r.uri, range |-> r.range, gzip |-> r.gzip,
                     depth |-> r.depth, at |-> clock, copy |-> KeptFor(r)]
        /\ cached' = KeptFor(r)
  BY DEF Ask
<1>2. asked'.uri = r.uri /\ asked'.at = clock /\ asked'.copy = KeptFor(r)
  BY <1>1
<1>3. KeptFor(r) = <<>> \/ (KeptFor(r) = cached /\ cached # <<>> /\ cached[1].uri = r.uri)
  BY DEF KeptFor
<1>4. browser = "idle" /\ pc' = "request" /\ UNCHANGED disk /\ clock' = clock /\ answer' = answer
  BY DEF Ask
<1>5. answer = NoAnswer /\ tree' = tree /\ clock \in Nat
  BY <1>4 DEF ReadInv, disk, WholeInv, Disk
<1>6. clock <= clock
  BY <1>5
<1>7. Owner'
  BY <1>1, <1>2, <1>3, <1>4, <1>5, <1>6 DEF CopyInv, Owner
<1>8. answer'.status # 304
  BY <1>4, <1>5 DEF NoAnswer
<1> QED
  BY <1>4, <1>7, <1>8, Waiting

\* A file that came whole becomes the copy.
LEMMA AnswerCopy ==
    ASSUME ReadInv, WholeInv, CopyInv, GetAnswer \/ CloseConnection
    PROVE  Owner' /\ Paths' /\ Compared' /\ Spared' /\ Fresh'
<1>1. conn' = NoConn /\ answer' = NoAnswer /\ pc' \in {"idle", "request"} /\ UNCHANGED disk /\ clock' = clock /\ pc = "done"
  BY DEF GetAnswer, CloseConnection
<1>2. tree' = tree /\ clock \in Nat /\ answer'.status # 304
  BY <1>1 DEF disk, WholeInv, Disk, NoAnswer
<1>3. clock <= clock /\ 0 <= clock /\ 0 \in Nat
  BY <1>2
<1> DEFINE old == [uri |-> asked.uri, gzip |-> asked.gzip, name |-> answer.name,
                   at |-> asked.at, size |-> answer.body, mtime |-> answer.file.mtime]
           n == New
<1>4. old.uri = asked.uri /\ old.name = answer.name /\ old.at = asked.at /\ old.size = answer.body
      /\ old.mtime = answer.file.mtime
  OBVIOUS
<1> HIDE DEF old
<1>5. /\ cached' = cached \/ (cached' = <<old>> /\ answer.status = 200 /\ answer.name # <<>> /\ answer.body = answer.announced)
      /\ \/ asked' = NoRequest
         \/ asked' = [asked EXCEPT !.uri = answer.location, !.copy = <<>>, !.at = clock]
  BY DEF GetAnswer, CloseConnection, old
<1>6. asked'.copy = <<>> /\ asked'.at \in Nat /\ asked'.at <= clock
  <2>1. NoRequest.copy = <<>> /\ NoRequest.at = 0
    BY DEF NoRequest
  <2>2. ASSUME asked' = [asked EXCEPT !.uri = answer.location, !.copy = <<>>, !.at = clock]
        PROVE  asked'.copy = <<>> /\ asked'.at = clock
    BY <2>2 DEF ReadInv, NoRequest
  <2> QED
    BY <1>2, <1>3, <1>5, <2>1, <2>2
<1>7. ASSUME answer.status = 200, answer.name # <<>>, answer.body = answer.announced
      PROVE  old.at \in Nat /\ old.at <= clock /\ old.mtime \in Nat /\ IsKept(tree, old)
  <2>1. IsKept(tree, n) /\ answer.name = conn.path /\ asked.range = <<>> /\ answer.file = conn.file
    BY <1>1, <1>7 DEF CopyInv, Fresh, Sending, WholeInv, Answering
  <2>2. Inside(asked.range, conn.file.size)
    BY <2>1 DEF Inside
  <2>3. answer.body = conn.file.size
    BY <1>1, <1>7, <2>1, <2>2 DEF WholeInv, Answering, Sending, IsWhole, PartOf
  <2>4. n.uri = old.uri /\ n.at = old.at /\ n.name = old.name /\ n.size = old.size
    BY <1>4, <2>1, <2>3, ProspectIs DEF New
  <2> HIDE DEF n
  <2>5. IsKept(tree, old)
    BY <2>1, <2>4, SameWorth
  <2>6. conn.file.mtime \in Nat
    BY DEF WholeInv, Worker, FileType
  <2> QED
    BY <1>4, <2>1, <2>5, <2>6 DEF CopyInv, Owner
<1>8. cached' = <<old>> => cached'[1] = old
  OBVIOUS
<1>9. Owner'
  BY <1>1, <1>2, <1>5, <1>6, <1>7, <1>8 DEF CopyInv, Owner
<1> QED
  BY <1>1, <1>2, <1>9, Waiting

\* The file of a URI is found as it is, or not: then the packed one is worth
\* looking for.
LEMMA ReadRequestCopy ==
    ASSUME ReadInv, WholeInv, CopyInv, ReadRequest
    PROVE  Owner' /\ Paths' /\ Compared' /\ Spared' /\ Fresh'
<1> DEFINE m == ParseMessage(Message(asked), MaxHeaders)
           raw == SubSeq(m.uri, 1, Until(m.uri, {"?"}))
           decoded == UrlDecode(raw)
           clean == RemoveDoubleDots(decoded)
           buffer == Overwrite(Overwrite(raw, decoded), clean)
           f == Stat(clean)
           c == [NoConn EXCEPT !.method = m.method, !.headers = m.headers, !.uri = clean,
                              !.path = clean, !.file = f, !.buffer = buffer]
           uri == asked.uri
           g == StatOf(tree, Clean(uri))
           old == cached[1]
           n == Prospect(asked.uri, asked.at, Clean(asked.uri), g.size)
<1>1. pc = "request" /\ \E place \in {"stat gz", "decide"} : Go(place, c) /\ (place = "stat gz" => ~Exists(f))
  BY DEF ReadRequest
<1>2. /\ conn' = c /\ pc' \in {"stat gz", "decide"} /\ answer' = answer /\ UNCHANGED <<disk, clock, user>>
      /\ pc' = "stat gz" => ~Exists(f)
  BY <1>1 DEF Go
<1>3. answer = NoAnswer /\ IsPath(uri)
  BY <1>1 DEF ReadInv, IsRequest
<1>4. clean = Clean(uri)
  <2>1. conn'.uri = clean
    BY <1>2 DEF NoConn
  <2>2. conn'.uri = Clean(asked'.uri) /\ asked' = asked
    BY <1>2, ReadRequestReads DEF ReadInv, IsRead, user
  <2> QED
    BY <2>1, <2>2
<1>5. f = g
  BY <1>4 DEF Stat, StatOf
<1> HIDE DEF m, raw, decoded, clean, buffer, f
<1>6. c.path = clean /\ c.file = f
  BY DEF NoConn
<1> HIDE DEF c
<1>7. conn'.path = Clean(uri) /\ conn'.file = g /\ tree' = tree /\ asked' = asked /\ cached' = cached
  BY <1>2, <1>4, <1>5, <1>6 DEF disk, user
<1>8. New' = n
  BY <1>7 DEF New
<1>9. asked.copy # <<>> => IsKept(tree, old) /\ old.uri = uri
  BY DEF CopyInv, Owner
<1>10. Disk /\ Tree /\ Clean(uri) \in Text /\ Clean(uri) # <<>>
  BY <1>3, CleanIs, PathIsText DEF WholeInv, CopyInv
<1>11. n.uri = uri /\ n.at = asked.at /\ n.name = Clean(uri) /\ n.size = g.size
  BY ProspectIs
<1> HIDE DEF n
<1>12. ~Exists(g) => NoOldIndex(tree, uri, asked.at, Len(IndexFiles))
  <2> SUFFICES ASSUME ~Exists(g), NEW i \in 1..Len(IndexFiles) PROVE ~IsOld(StatOf(tree, IndexOf(uri, i)), asked.at)
    BY DEF NoOldIndex
  <2>1. i \in DOMAIN IndexFiles
    BY IndexFilesAre
  <2> QED
    BY <1>10, <2>1, IndexInDirectory DEF IndexOf, IsOld
<1>13. Exists(g) /\ ~IsDir(g) => IsKept(tree, n)
  BY <1>3, <1>10, <1>11, PlainIsKept
<1>14. Exists(g) /\ IsDir(g) => NoOldFile(tree, uri, asked.at)
  BY DEF NoOldFile
<1>15. Owner'
  BY <1>2, OwnerStays DEF CopyInv
<1>16. answer'.status # 304 /\ answer'.name = <<>>
  <2>1. answer' = NoAnswer
    BY <1>2, <1>3
  <2>2. NoAnswer.status # 304 /\ NoAnswer.name = <<>>
    BY DEF NoAnswer
  <2> QED
    BY <2>1, <2>2
<1>17. Paths'
  BY <1>2, <1>7 DEF Paths
<1>18. Compared'
  <2>1. asked.copy # <<>> => (~Exists(g) => Zipped(tree, old)) /\ (IsDir(g) \/ Agrees(old, Clean(uri), g))
    BY <1>9 DEF IsKept, Plainly
  <2> HIDE DEF g, uri, old
  <2> QED
    BY <1>2, <1>5, <1>7, <1>16, <2>1 DEF Compared, old
<1>19. ~Exists(g) => ~IsOld(g, asked.at)
  BY DEF IsOld
<1>20. Fresh'
  BY <1>2, <1>5, <1>7, <1>8, <1>12, <1>13, <1>14, <1>16, <1>19 DEF Fresh, Sending
<1>21. Spared'
  BY <1>16 DEF Spared
<1> QED
  BY <1>15, <1>17, <1>18, <1>20, <1>21

\* The packed file is found, or not.
LEMMA ConvertGzCopy ==
    ASSUME ReadInv, WholeInv, CopyInv, ConvertGz
    PROVE  Owner' /\ Paths' /\ Compared' /\ Spared' /\ Fresh'
<1> DEFINE p == Append(conn.path, ".gz")
           f == Stat(p)
           c == [conn EXCEPT !.file = f, !.gzipped = Exists(f)]
           uri == asked.uri
           g == StatOf(tree, Packed(uri))
           old == cached[1]
           n == Prospect(asked.uri, asked.at, Clean(asked.uri), g.size)
<1>1. pc = "stat gz" /\ pc' = "decide" /\ conn' = c /\ answer' = answer /\ UNCHANGED <<disk, clock, user>>
  BY DEF ConvertGz, Go
<1>2. conn.path = Clean(uri)
  BY <1>1 DEF CopyInv, Paths
<1>3. f = g
  BY <1>2 DEF Stat, StatOf, Packed
<1> HIDE DEF f
<1>4. c.file = f /\ c.path = conn.path
  BY DEF ReadInv, ConnFields, NoConn
<1> HIDE DEF c
<1>5. conn'.path = Clean(uri) /\ conn'.file = g /\ tree' = tree /\ asked' = asked /\ cached' = cached
  BY <1>1, <1>2, <1>3, <1>4 DEF disk, user
<1>6. New' = n
  BY <1>5 DEF New
<1>7. asked.copy # <<>> => Zipped(tree, old) /\ old.uri = uri
  BY <1>1 DEF CopyInv, Owner, Compared
<1>8. ~IsOld(StatOf(tree, Clean(uri)), asked.at) /\ NoOldIndex(tree, uri, asked.at, Len(IndexFiles))
  BY <1>1 DEF CopyInv, Fresh
<1>9. n.uri = uri /\ n.at = asked.at /\ n.name = Clean(uri) /\ n.size = g.size
  BY ProspectIs
<1> HIDE DEF n
<1>10. IsKept(tree, n)
  BY <1>8, <1>9, PackedIsKept
<1>11. IsDir(g) => NoOldFile(tree, uri, asked.at)
  BY <1>8 DEF NoOldFile
<1>12. Owner'
  BY <1>1, OwnerStays DEF CopyInv
<1>13. answer.status # 304 /\ answer.name = <<>>
  BY <1>1 DEF CopyInv, Spared, WholeInv, Answering
<1>14. asked.copy # <<>> => IsDir(g) \/ Agrees(old, Clean(uri), g)
  BY <1>7 DEF Zipped
<1> HIDE DEF g, uri
<1>15. Paths' /\ Spared'
  BY <1>1, <1>5, <1>13 DEF Paths, Spared, uri
<1>16. Compared'
  BY <1>1, <1>5, <1>13, <1>14 DEF Compared
<1>17. Fresh'
  BY <1>1, <1>5, <1>6, <1>10, <1>11, <1>13 DEF Fresh, Sending, uri
<1> QED
  BY <1>12, <1>15, <1>16, <1>17

\* The date of a copy, as the worker reads it, is not later than the copy,
\* but by a day.
LEMMA DateIsNotLater == ASSUME NEW t \in Nat, NEW s \in Nat, s <= ParseDate(CivilDate(t)) PROVE s <= t \/ BeforeLeapDay(t)
<1>1. CASE t >= 365
  BY <1>1, DateTheorem
<1>2. CASE t < 365
  <2>1. t \div 365 = 0
    BY <1>2
  <2>2. CivilDate(t).year \in (1970 + t \div 366)..(1970 + t \div 365)
    BY CivilDateIs DEF IsDateOf
  <2>3. t \div 366 \in Int
    OBVIOUS
  <2>4. ~(CivilDate(t).year > 1970)
    BY <2>1, <2>2, <2>3
  <2>5. ParseDate(CivilDate(t)) = 0
    BY <2>4 DEF ParseDate
  <2> QED
    BY <2>5
<1> QED
  BY <1>1, <1>2

\* 304 is told of a file that is not younger than the copy, or has its time.
LEMMA NotModifiedCopy ==
    ASSUME ReadInv, WholeInv, CopyInv, NotModified
    PROVE  Owner' /\ Paths' /\ Compared' /\ Spared' /\ Fresh'
<1>1. pc = "file" /\ IsNotModified /\ Reply(304, <<>>)
  BY DEF NotModified
<1>2. /\ answer' = [NoAnswer EXCEPT !.status = 304, !.location = <<>>] /\ pc' = "done"
      /\ conn' = conn /\ UNCHANGED <<disk, clock, user>>
  BY <1>1 DEF Reply
<1>3. answer'.status = 304 /\ answer'.name = <<>>
  BY <1>2 DEF NoAnswer
<1>4. asked' = asked /\ cached' = cached
  BY <1>2 DEF user
<1>5. asked.copy # <<>>
  BY <1>1 DEF IsNotModified, ReadInv, IsRead, IsSent
<1>6. asked.copy = cached /\ cached[1].mtime \in Nat
  BY <1>5 DEF CopyInv, Owner
<1>7. Exists(conn.file) /\ conn.file.mtime \in Nat
  BY <1>1 DEF WholeInv, Answering, IsThere, Worker, FileType
<1> DEFINE s == conn.file.mtime
           t == cached[1].mtime
<1>8. s = t \/ s <= ParseDate(CivilDate(t))
  BY <1>1, <1>6 DEF IsNotModified
<1>9. s \in Nat /\ t \in Nat
  BY <1>6, <1>7
<1> HIDE DEF s, t
<1>10. s <= t \/ BeforeLeapDay(t)
  BY <1>8, <1>9, DateIsNotLater
<1>11. Agrees(cached[1], conn.path, conn.file)
  BY <1>1, <1>5 DEF CopyInv, Compared
<1>12. Owner'
  BY <1>2, OwnerStays DEF CopyInv
<1>13. Spared'
  BY <1>2, <1>4, <1>5, <1>7, <1>10 DEF Spared, s, t
<1>14. Compared'
  BY <1>2, <1>4, <1>11 DEF Compared
<1> QED
  BY <1>2, <1>3, <1>12, <1>13, <1>14 DEF Paths, Fresh, Sending

\* What a decision leaves to be looked for.
LEMMA DecideCopy ==
    ASSUME ReadInv, WholeInv, CopyInv, Decide
    PROVE  Owner' /\ Paths' /\ Compared' /\ Spared' /\ Fresh'
<1>1. pc = "decide"
  BY DEF Decide, SendOptions, SendAuthorizationRequest, NotFound, Redirect, OpenDirectory, OpenFile, Served
<1>2. CASE SendOptions \/ SendAuthorizationRequest \/ NotFound \/ Redirect
  BY <1>2, ReplyCopy DEF SendOptions, SendAuthorizationRequest, NotFound, Redirect
<1>3. conn.path = Clean(asked.uri)
  BY <1>1 DEF CopyInv, Paths
<1>4. answer.status # 304 /\ answer.name = <<>>
  BY <1>1 DEF CopyInv, Spared, WholeInv, Answering
<1>5. asked.copy # <<>> => IsKept(tree, cached[1])
  BY DEF CopyInv, Owner
<1>6. CASE OpenDirectory
  <2> DEFINE d == Stripped(conn.path)
             c == [conn EXCEPT !.path = Stripped(@), !.index = 1]
             old == cached[1]
  <2>1. /\ pc' = "index" /\ conn' = c /\ answer' = answer /\ UNCHANGED <<disk, clock, user>>
        /\ Exists(conn.file) /\ conn.file.dir
    BY <1>6 DEF OpenDirectory, Go, Found
  <2>2. IsDir(conn.file)
    BY <2>1 DEF IsDir, WholeInv, Worker, FileType
  <2>3. c.path = d /\ c.index = 1
    BY DEF ReadInv, ConnFields, NoConn
  <2> HIDE DEF c
  <2>4. tree' = tree /\ asked' = asked /\ cached' = cached
    BY <2>1 DEF disk, user
  <2>5. Owner'
    BY <2>1, OwnerStays DEF CopyInv
  <2>6. Paths'
    BY <1>3, <2>1, <2>3, <2>4 DEF Paths
  <2>7. Compared'
    BY <1>4, <1>5, <2>1, <2>3, <2>4 DEF Compared, IsKept
  <2>8. Spared'
    BY <1>4, <2>1 DEF Spared
  <2>9. NoOldFile(tree, asked.uri, asked.at)
    BY <1>1, <2>1, <2>2 DEF CopyInv, Fresh
  <2>10. NoOldIndex(tree, asked.uri, asked.at, 1 - 1)
    BY DEF NoOldIndex
  <2>11. Fresh'
    BY <1>4, <2>1, <2>3, <2>4, <2>9, <2>10 DEF Fresh, Sending
  <2> QED
    BY <2>5, <2>6, <2>7, <2>8, <2>11
<1>7. CASE OpenFile
  <2>1. /\ pc' = "file" /\ conn' = conn /\ answer' = answer /\ UNCHANGED <<disk, clock, user>>
        /\ Exists(conn.file) /\ ~conn.file.dir
    BY <1>7 DEF OpenFile, Go, Found
  <2>2. ~IsDir(conn.file)
    BY <2>1 DEF IsDir
  <2>3. tree' = tree /\ asked' = asked /\ cached' = cached
    BY <2>1 DEF disk, user
  <2>4. New' = New
    BY <2>1, <2>3 DEF New
  <2>5. Owner'
    BY <2>1, OwnerStays DEF CopyInv
  <2>6. Paths' /\ Spared'
    BY <1>4, <2>1 DEF Paths, Spared
  <2>7. Compared'
    BY <1>1, <1>4, <2>1, <2>2, <2>3 DEF CopyInv, Compared
  <2>8. Fresh'
    BY <1>1, <1>4, <2>1, <2>2, <2>3, <2>4 DEF CopyInv, Fresh, Sending
  <2> QED
    BY <2>5, <2>6, <2>7, <2>8
<1> QED
  BY <1>2, <1>6, <1>7 DEF Decide

\* An index file is looked for.
LEMMA SubstituteCopy ==
    ASSUME ReadInv, WholeInv, CopyInv, SubstituteIndexFile
    PROVE  Owner' /\ Paths' /\ Compared' /\ Spared' /\ Fresh'
<1> DEFINE p == InDir(conn.path, IndexFiles[conn.index])
           f == Stat(p)
           c == [conn EXCEPT !.path = p, !.file = f, !.gzipped = FALSE]
           d == [conn EXCEPT !.index = @ + 1]
           k == conn.index
           uri == asked.uri
           at == asked.at
           old == cached[1]
           g == StatOf(tree, IndexOf(uri, k))
           n == Prospect(asked.uri, asked.at, p, f.size)
<1>1. pc = "index" /\ \/ Go("opendir", conn)
                      \/ ~(k > Len(IndexFiles)) /\ ((Go("file", c) /\ Exists(f)) \/ (Go("index", d) /\ ~Exists(f)))
  BY DEF SubstituteIndexFile
<1>2. conn.path = Stripped(Clean(uri)) /\ k \in Nat /\ k > 0
  BY <1>1 DEF CopyInv, Paths
<1>3. p = IndexOf(uri, k)
  BY <1>2 DEF IndexOf
<1>4. f = g
  BY <1>3 DEF Stat, StatOf
<1>5. answer.status # 304 /\ answer.name = <<>>
  BY <1>1 DEF CopyInv, Spared, WholeInv, Answering
<1>6. asked.copy # <<>> => IndexedFrom(tree, old, k) /\ old.uri = uri
  BY <1>1 DEF CopyInv, Owner, Compared
<1>7. NoOldFile(tree, uri, at) /\ NoOldIndex(tree, uri, at, k - 1)
  BY <1>1 DEF CopyInv, Fresh
<1>8. Len(IndexFiles) \in Nat
  BY IndexFilesAre
<1> HIDE DEF p, f
<1>9. c.path = p /\ c.file = f
  BY DEF ReadInv, ConnFields, NoConn
<1>10. d.path = conn.path /\ d.index = k + 1 /\ d.file = conn.file
  BY DEF ReadInv, ConnFields, NoConn
<1> HIDE DEF c, d
<1>11. CASE Go("opendir", conn)
  <2>1. UNCHANGED <<disk, clock, user>> /\ pc' = "opendir" /\ answer' = answer
    BY <1>11 DEF Go
  <2> QED
    BY <1>5, <2>1, Quiet
<1>12. CASE ~(k > Len(IndexFiles)) /\ Go("file", c) /\ Exists(f)
  <2>1. pc' = "file" /\ conn' = c /\ answer' = answer /\ UNCHANGED <<disk, clock, user>>
    BY <1>12 DEF Go
  <2>2. tree' = tree /\ asked' = asked /\ cached' = cached
    BY <2>1 DEF disk, user
  <2>3. New' = n
    BY <1>9, <2>1, <2>2 DEF New
  <2>4. n.uri = uri /\ n.at = at /\ n.name = p /\ n.size = f.size
    BY ProspectIs
  <2> HIDE DEF n
  <2>5. k \in 1..Len(IndexFiles)
    BY <1>2, <1>8, <1>12
  <2>6. IsKept(tree, n)
    BY <1>3, <1>4, <1>7, <1>12, <2>4, <2>5, IndexIsKept
  <2>7. asked.copy # <<>> => Agrees(old, p, f)
    <3> SUFFICES ASSUME asked.copy # <<>> PROVE Agrees(old, p, f)
      OBVIOUS
    <3>1. Absent(tree, old.uri, k, k)
      BY <1>2 DEF Absent
    <3>2. k \in k..Len(IndexFiles)
      BY <2>5
    <3> HIDE DEF k, old, uri
    <3> QED
      BY <1>3, <1>4, <1>6, <3>1, <3>2 DEF IndexedFrom
  <2>8. Owner'
    BY <2>1, OwnerStays DEF CopyInv
  <2>9. Paths' /\ Spared'
    BY <1>5, <2>1 DEF Paths, Spared
  <2>10. Compared'
    BY <1>5, <1>9, <2>1, <2>2, <2>7 DEF Compared
  <2>11. Fresh'
    BY <1>5, <2>1, <2>2, <2>3, <2>6 DEF Fresh, Sending
  <2> QED
    BY <2>8, <2>9, <2>10, <2>11
<1>13. CASE ~(k > Len(IndexFiles)) /\ Go("index", d) /\ ~Exists(f)
  <2>1. pc' = "index" /\ conn' = d /\ answer' = answer /\ UNCHANGED <<disk, clock, user>>
    BY <1>13 DEF Go
  <2>2. tree' = tree /\ asked' = asked /\ cached' = cached
    BY <2>1 DEF disk, user
  <2>3. ~Exists(StatOf(tree, IndexOf(uri, k)))
    BY <1>4, <1>13
  <2>4. asked.copy # <<>> => IndexedFrom(tree, old, k + 1)
    <3> SUFFICES ASSUME asked.copy # <<>>, NEW i \in (k + 1)..Len(IndexFiles), Absent(tree, old.uri, k + 1, i)
                 PROVE  Agrees(old, IndexOf(old.uri, i), StatOf(tree, IndexOf(old.uri, i)))
      BY DEF IndexedFrom
    <3>1. i \in k..Len(IndexFiles) /\ k \in Nat
      BY <1>2, <1>8
    <3>2. Absent(tree, old.uri, k, i)
      <4> SUFFICES ASSUME NEW j \in k..(i - 1) PROVE ~Exists(StatOf(tree, IndexOf(old.uri, j)))
        BY DEF Absent
      <4>1. j = k \/ j \in (k + 1)..(i - 1)
        BY <3>1
      <4> HIDE DEF k, old, uri
      <4> QED
        BY <1>6, <2>3, <4>1 DEF Absent
    <3> HIDE DEF k, old, uri
    <3> QED
      BY <1>6, <3>1, <3>2 DEF IndexedFrom
  <2>5. NoOldIndex(tree, uri, at, (k + 1) - 1)
    <3> SUFFICES ASSUME NEW i \in 1..((k + 1) - 1) PROVE ~IsOld(StatOf(tree, IndexOf(uri, i)), at)
      BY DEF NoOldIndex
    <3>1. i = k \/ i \in 1..(k - 1)
      BY <1>2
    <3> HIDE DEF k, uri, at
    <3> QED
      BY <1>7, <2>3, <3>1 DEF NoOldIndex, IsOld
  <2>6. Owner'
    BY <2>1, OwnerStays DEF CopyInv
  <2>7. k + 1 \in Nat /\ k + 1 > 0
    BY <1>2
  <2>8. Paths' /\ Spared'
    BY <1>2, <1>5, <1>10, <2>1, <2>2, <2>7 DEF Paths, Spared
  <2> HIDE DEF k, uri, at, old
  <2>9. Compared'
    BY <1>5, <1>10, <2>1, <2>2, <2>4 DEF Compared, old
  <2>10. Fresh'
    BY <1>5, <1>7, <1>10, <2>1, <2>2, <2>5 DEF Fresh, Sending, uri, at
  <2> QED
    BY <2>6, <2>8, <2>9, <2>10
<1> QED
  BY <1>1, <1>11, <1>12, <1>13

\* A head is sent: of a file as a whole, if no range was asked for.
LEMMA SendHeadCopy ==
    ASSUME ReadInv, WholeInv, CopyInv, SendHead
    PROVE  Owner' /\ Paths' /\ Compared' /\ Spared' /\ Fresh'
<1> DEFINE range == IF Header(conn.headers, "Range") = None THEN <<>> ELSE asked.range
           length == Announced(range)
           status == IF range = <<>> THEN 200 ELSE 206
           offset == IF range = <<>> THEN 0 ELSE Least(range[1], conn.file.size)
           head == [NoAnswer EXCEPT !.status = status, !.announced = length, !.name = conn.path,
                                    !.file = conn.file]
           c == [conn EXCEPT !.fp = TRUE, !.left = length, !.offset = offset]
<1>1. pc = "file" /\ IsRead
  BY DEF SendHead, ReadInv
<1>2. range = asked.range
  BY <1>1 DEF IsRead, IsSent
<1>3. \/ Reply(501, <<>>)
      \/ /\ answer' = head /\ conn' = c /\ UNCHANGED <<disk, clock, user>>
         /\ pc' \in {"close", "send"}
  BY DEF SendHead
<1>4. CASE Reply(501, <<>>)
  BY <1>4, ReplyCopy
<1>5. CASE ~Reply(501, <<>>)
  <2>1. status # 304 /\ (status = 200 => asked.range = <<>>)
    BY <1>2
  <2> HIDE DEF range, length, status, offset
  <2>2. c.file = conn.file /\ c.path = conn.path
    BY DEF ReadInv, ConnFields, NoConn
  <2>3. head.status = status /\ head.name = conn.path
    BY DEF NoAnswer
  <2> HIDE DEF c, head
  <2>4. answer' = head /\ conn' = c /\ UNCHANGED <<disk, clock, user>> /\ pc' \in {"close", "send"}
    BY <1>3, <1>5
  <2>5. tree' = tree /\ asked' = asked
    BY <2>4 DEF disk, user
  <2>6. New' = New
    BY <2>2, <2>4, <2>5 DEF New
  <2>7. Owner'
    BY <2>4, OwnerStays DEF CopyInv
  <2>8. Paths' /\ Spared' /\ Compared'
    BY <2>1, <2>3, <2>4 DEF Paths, Spared, Compared
  <2>9. Fresh'
    BY <1>1, <2>1, <2>2, <2>3, <2>4, <2>5, <2>6 DEF CopyInv, Fresh, Sending
  <2> QED
    BY <2>7, <2>8, <2>9
<1> QED
  BY <1>4, <1>5

\* A piece is sent, or the file closed: it is still the same file.
LEMMA SendCopy ==
    ASSUME ReadInv, WholeInv, CopyInv, SendFileData \/ CloseFile
    PROVE  Owner' /\ Paths' /\ Compared' /\ Spared' /\ Fresh'
<1>1. pc \in {"send", "close"} /\ pc' \in {"send", "close", "done"} /\ UNCHANGED <<disk, clock, user>>
  BY DEF SendFileData, CloseFile, Go
<1>2. conn'.file = conn.file /\ conn'.path = conn.path
  <2>1. CASE SendFileData
    <3> DEFINE there == Stat(Opened).size - conn.offset
               m == Least(Least(BufLen, conn.left), there)
               c == [conn EXCEPT !.left = @ - m, !.offset = @ + m]
    <3>1. conn' = conn \/ conn' = c
      BY <2>1 DEF SendFileData, Opened
    <3> HIDE DEF m
    <3>2. c.file = conn.file /\ c.path = conn.path
      BY DEF ReadInv, ConnFields, NoConn
    <3> HIDE DEF c
    <3> QED
      BY <3>1, <3>2
  <2>2. CASE CloseFile
    BY <2>2 DEF CloseFile, Go, ReadInv, ConnFields, NoConn
  <2> QED
    BY <2>1, <2>2
<1>3. answer'.status = answer.status /\ answer'.name = answer.name
  <2>1. CASE SendFileData
    <3> DEFINE there == Stat(Opened).size - conn.offset
               m == Least(Least(BufLen, conn.left), there)
               a == [answer EXCEPT !.body = @ + m]
    <3>1. answer' = answer \/ answer' = a
      BY <2>1 DEF SendFileData, Opened
    <3> HIDE DEF m
    <3>2. a.status = answer.status /\ a.name = answer.name
      BY DEF ReadInv, AnswerFields, NoAnswer
    <3> HIDE DEF a
    <3> QED
      BY <3>1, <3>2
  <2>2. CASE CloseFile
    BY <2>2 DEF CloseFile, Go
  <2> QED
    BY <2>1, <2>2
<1>4. tree' = tree /\ asked' = asked
  BY <1>1 DEF disk, user
<1>5. New' = New
  BY <1>2, <1>4 DEF New
<1>6. Sending /\ answer.status # 304
  BY <1>1 DEF Sending, CopyInv, Spared
<1>7. Owner'
  BY <1>1, OwnerStays DEF CopyInv
<1>8. Paths' /\ Spared' /\ Compared'
  BY <1>1, <1>3, <1>6 DEF Paths, Spared, Compared
<1>9. Fresh'
  BY <1>1, <1>2, <1>3, <1>4, <1>5, <1>6 DEF CopyInv, Fresh, Sending
<1> QED
  BY <1>7, <1>8, <1>9

\* A directory is listed: no file comes of it.
LEMMA DirectoryCopy ==
    ASSUME ReadInv, WholeInv, CopyInv, Directory
    PROVE  Owner' /\ Paths' /\ Compared' /\ Spared' /\ Fresh'
<1>1. UNCHANGED <<disk, clock, user>> /\ pc \in {"decide", "opendir", "readdir"} /\ pc' \in {"readdir", "done"}
  BY DEF Directory, Propfind, OpenDir, OpenDirFails, ReadDir, PrintDirectory, Served, Go, Reply
<1>2. answer.status # 304 /\ answer.name = <<>>
  BY <1>1 DEF CopyInv, Spared, WholeInv, Answering
<1>3. answer'.status # 304 /\ answer'.name = <<>>
  <2>1. CASE Propfind
    <3> DEFINE s == <<[href |-> conn.uri, name |-> <<>>, file |-> conn.file]>>
    <3>1. answer' = [NoAnswer EXCEPT !.status = 207, !.shown = s]
      BY <2>1 DEF Propfind
    <3> HIDE DEF s
    <3> QED
      BY <3>1 DEF NoAnswer
  <2>2. CASE OpenDir
    BY <1>2, <2>2 DEF OpenDir, Go
  <2>3. CASE OpenDirFails
    BY <2>3 DEF OpenDirFails, Reply, NoAnswer
  <2>4. CASE ReadDir
    <3>1. PICK e : answer' = answer \/ answer' = [answer EXCEPT !.shown = Append(@, e)]
      BY <2>4 DEF ReadDir
    <3>2. answer'.status = answer.status /\ answer'.name = answer.name
      BY <3>1 DEF ReadInv, AnswerFields, NoAnswer
    <3> QED
      BY <1>2, <3>2
  <2>5. CASE PrintDirectory
    <3>1. PICK s : answer' = answer \/ answer' = [NoAnswer EXCEPT !.status = 200, !.shown = s]
      BY <2>5 DEF PrintDirectory
    <3> DEFINE a == [NoAnswer EXCEPT !.status = 200, !.shown = s]
    <3>2. a.status = 200 /\ a.name = <<>>
      BY DEF NoAnswer
    <3>3. answer' = answer \/ answer' = a
      BY <3>1
    <3> HIDE DEF a
    <3> QED
      BY <1>2, <3>3, <3>2
  <2> QED
    BY <2>1, <2>2, <2>3, <2>4, <2>5 DEF Directory
<1> QED
  BY <1>1, <1>3, Quiet

\* Every step keeps the copy worth what it says.
LEMMA CopyNext == ASSUME ReadInv, WholeInv, CopyInv, [Next]_vars PROVE CopyInv'
<1>1. Disk' /\ Grows /\ clock <= clock' /\ Tree'
  BY DiskNext, TreeNext DEF WholeInv, CopyInv
<1>2. CASE Tick \/ Copy \/ Leave \/ UNCHANGED vars
  <2>1. UNCHANGED server /\ asked' = asked /\ cached' = cached
    BY <1>2 DEF Tick, Copy, StartCopy, Extract, CopyFile, WriteFails, Kill, Leave, vars, user, server
  <2> QED
    BY <1>1, <2>1, OthersCopy DEF WholeInv, CopyInv, Disk
<1>3. CASE Ask \/ GetAnswer \/ CloseConnection \/ ReadRequest \/ ConvertGz \/ Decide
  BY <1>1, <1>3, AskCopy, AnswerCopy, ReadRequestCopy, ConvertGzCopy, DecideCopy DEF CopyInv
<1>4. CASE File \/ Directory \/ SendHead \/ NotModified
  BY <1>1, <1>4, SubstituteCopy, SendCopy, DirectoryCopy, SendHeadCopy, NotModifiedCopy DEF File, CopyInv
<1>5. CASE FopenFails
  BY <1>1, <1>5, ReplyCopy DEF FopenFails, CopyInv
<1> QED
  BY <1>2, <1>3, <1>4, <1>5 DEF Next, Browser, Work, Serve

\* A browser that is told that its copy is the file as it is has that file.
THEOREM NotModifiedIsTrueTheorem == Spec => []NotModifiedIsTrue
<1>1. ReadInv /\ WholeInv /\ CopyInv => NotModifiedIsTrue
  <2> SUFFICES ASSUME WholeInv, CopyInv, answer.status = 304,
                      asked.copy[1].mtime < asked.copy[1].at, ~BeforeLeapDay(asked.copy[1].mtime)
               PROVE  asked.copy[1].size = conn.file.size /\ asked.copy[1].name = conn.path
    BY DEF NotModifiedIsTrue
  <2>1. asked.copy # <<>> /\ asked.copy = cached
    BY DEF CopyInv, Owner, Spared
  <2>2. cached[1].mtime \in Nat /\ cached[1].at \in Nat /\ conn.file.mtime \in Nat
    BY <2>1 DEF CopyInv, Owner, WholeInv, Worker, FileType
  <2>3. Exists(conn.file) /\ conn.file.mtime <= cached[1].mtime
    BY <2>1 DEF CopyInv, Spared
  <2>4. IsOld(conn.file, cached[1].at)
    BY <2>1, <2>2, <2>3 DEF IsOld
  <2>5. Agrees(cached[1], conn.path, conn.file)
    BY <2>1 DEF CopyInv, Compared
  <2> QED
    BY <2>1, <2>4, <2>5 DEF Agrees
<1>2. Spec => [](ReadInv /\ WholeInv /\ CopyInv)
  BY ReadInit, ReadNext, WholeInit, WholeNext, CopyInit, CopyNext, PTL DEF Spec
<1> QED
  BY <1>1, <1>2, PTL

-----------------------------------------------------------------------------
(* The links of a listing: what is encoded and decoded again.               *)

\* The function of mg_url_decode.
IsCodeAt(s, i) == i < Len(s) - 1 /\ s[i] = "%" /\ s[i + 1] \in DOMAIN Hex /\ s[i + 2] \in DOMAIN Hex

PieceAt(s, i) == IF IsCodeAt(s, i) THEN <<Decoded(s[i + 1], s[i + 2])>> ELSE <<s[i]>>

BehindAt(s, i) == IF IsCodeAt(s, i) THEN i + 3 ELSE i + 1

IsDecoding(s, from) ==
    /\ \A i \in 1..(Len(s) + 1) : from[i] \in Text
    /\ from[Len(s) + 1] = <<>>
    /\ \A i \in 1..Len(s) : from[i] = PieceAt(s, i) \o from[BehindAt(s, i)]
    /\ UrlDecode(s) = from[1]

\* A piece of a text is one symbol.
LEMMA PieceIs ==
    ASSUME NEW s \in Text, NEW i \in 1..Len(s)
    PROVE  /\ PieceAt(s, i) \in Text /\ Len(PieceAt(s, i)) = 1
           /\ BehindAt(s, i) \in (i + 1)..(Len(s) + 1)
<1>1. Len(s) \in Nat /\ s[i] \in Symbol
  BY DEF Text
<1>2. Decoded(s[i + 1], s[i + 2]) \in Symbol
  BY DecodedIsLetter DEF Letter
<1>3. ASSUME NEW c \in Symbol PROVE <<c>> \in Text /\ Len(<<c>>) = 1
  BY DEF Text
<1>4. BehindAt(s, i) \in (i + 1)..(Len(s) + 1)
  BY <1>1 DEF BehindAt, IsCodeAt
<1> QED
  BY <1>1, <1>2, <1>3, <1>4 DEF PieceAt

\* There is such a function.
LEMMA DecodingIs == ASSUME NEW s \in Text PROVE \E from : IsDecoding(s, from)
<1> DEFINE n == Len(s)
           IsCode(i) == i < Len(s) - 1 /\ s[i] = "%" /\ s[i + 1] \in DOMAIN Hex /\ s[i + 2] \in DOMAIN Hex
           from[i \in 1..(Len(s) + 1)] ==
               IF i > Len(s) THEN <<>>
               ELSE IF IsCode(i) THEN <<Decoded(s[i + 1], s[i + 2])>> \o from[i + 3]
               ELSE <<s[i]>> \o from[i + 1]
<1>1. UrlDecode(s) = from[1]
  BY Zenon DEF UrlDecode
<1> HIDE DEF from
<1> DEFINE piece == [i \in 1..n |-> PieceAt(s, i)]
           next == [i \in 1..n |-> BehindAt(s, i)]
<1>2. n \in Nat
  BY DEF Text
<1>3. /\ piece \in [1..n -> Text] /\ \A i \in 1..n : next[i] \in (i + 1)..(n + 1)
      /\ \A i \in 1..n : piece[i] = PieceAt(s, i) /\ next[i] = BehindAt(s, i)
  BY PieceIs
<1>4. \A i : IsCode(i) = IsCodeAt(s, i)
  BY DEF IsCodeAt
<1> HIDE DEF n, piece, next, IsCode
<1>5. ASSUME NEW f, NEW i \in 1..(n + 1)
      PROVE  (IF i > n THEN <<>> ELSE piece[i] \o f[next[i]])
               = IF i > n THEN <<>>
                 ELSE IF IsCode(i) THEN <<Decoded(s[i + 1], s[i + 2])>> \o f[i + 3]
                 ELSE <<s[i]>> \o f[i + 1]
  <2>1. ~(i > n) => i \in 1..n
    BY <1>2
  <2> QED
    BY <1>3, <1>4, <2>1 DEF PieceAt, BehindAt
<1>6. IsJoined(from, n, piece, next)
  <2>1. PICK f : IsJoined(f, n, piece, next)
    BY <1>2, <1>3, JoinedExists
  <2>2. f = [i \in 1..(n + 1) |-> IF i > n THEN <<>>
                 ELSE IF IsCode(i) THEN <<Decoded(s[i + 1], s[i + 2])>> \o f[i + 3]
                 ELSE <<s[i]>> \o f[i + 1]]
    BY <1>5, <2>1 DEF IsJoined
  <2>3. from = [i \in 1..(n + 1) |-> IF i > n THEN <<>>
                 ELSE IF IsCode(i) THEN <<Decoded(s[i + 1], s[i + 2])>> \o from[i + 3]
                 ELSE <<s[i]>> \o from[i + 1]]
    BY <2>2 DEF from, n
  <2> QED
    BY <1>5, <2>3 DEF IsJoined
<1>7. \A i \in 1..(n + 1) : from[i] \in Text
  BY <1>2, <1>3, <1>6, JoinedHas DEF Text
<1>8. from[n + 1] = <<>>
  <2>1. n + 1 \in 1..(n + 1) /\ n + 1 > n
    BY <1>2
  <2> QED
    BY <1>6, <2>1 DEF IsJoined
<1>9. ASSUME NEW i \in 1..n PROVE from[i] = PieceAt(s, i) \o from[BehindAt(s, i)]
  <2>1. i \in 1..(n + 1) /\ ~(i > n)
    BY <1>2
  <2> QED
    BY <1>3, <1>6, <2>1 DEF IsJoined
<1> QED
  BY <1>1, <1>7, <1>8, <1>9 DEF IsDecoding, n

\* What is behind a text is decoded as it is alone.
LEMMA DecodingBehind ==
    ASSUME NEW u \in Text, NEW t \in Text, NEW f, IsDecoding(u \o t, f)
    PROVE  f[Len(u) + 1] = UrlDecode(t)
<1> DEFINE s == u \o t
           k == Len(u)
           n == Len(t)
<1>1. /\ s \in Text /\ Len(s) = k + n /\ k \in Nat /\ n \in Nat
      /\ \A j \in 1..(k + n) : s[j] = IF j <= k THEN u[j] ELSE t[j - k]
  BY JoinIs
<1>2. PICK g : IsDecoding(t, g)
  BY DecodingIs
<1>3. IsDecoding(s, f)
  OBVIOUS
<1> HIDE DEF s, k, n
<1>4. \A i \in 1..n : k + i \in 1..Len(s) /\ s[k + i] = t[i]
  <2> SUFFICES ASSUME NEW i \in 1..n PROVE k + i \in 1..Len(s) /\ s[k + i] = t[i]
    OBVIOUS
  <2>1. k + i \in 1..(k + n) /\ ~(k + i <= k) /\ (k + i) - k = i
    BY <1>1
  <2> QED
    BY <1>1, <2>1
<1>5. ASSUME NEW i \in 1..n PROVE PieceAt(s, k + i) = PieceAt(t, i) /\ BehindAt(s, k + i) = k + BehindAt(t, i)
  <2>1. (k + i < Len(s) - 1) = (i < n - 1) /\ (k + i) + 1 = k + (i + 1) /\ (k + i) + 2 = k + (i + 2) /\ (k + i) + 3 = k + (i + 3)
    BY <1>1
  <2>2. i < n - 1 => i + 1 \in 1..n /\ i + 2 \in 1..n
    BY <1>1
  <2>3. s[k + i] = t[i] /\ (i < n - 1 => s[(k + i) + 1] = t[i + 1] /\ s[(k + i) + 2] = t[i + 2])
    BY <1>4, <2>1, <2>2
  <2>4. IsCodeAt(s, k + i) = IsCodeAt(t, i)
    BY <2>1, <2>3 DEF IsCodeAt, n
  <2>5. IsCodeAt(t, i) => i < n - 1
    BY DEF IsCodeAt, n
  <2> QED
    BY <2>1, <2>3, <2>4, <2>5 DEF PieceAt, BehindAt
<1> DEFINE S == {i \in 1..(n + 1) : f[k + i] = g[i]}
<1>6. ASSUME NEW i \in 1..(n + 1), \A j \in (i + 1)..(n + 1) : j \in S PROVE i \in S
  <2>1. CASE i = n + 1
    <3>1. k + i = Len(s) + 1
      BY <1>1, <2>1
    <3> QED
      BY <1>2, <1>3, <2>1, <3>1 DEF IsDecoding, n
  <2>2. CASE i # n + 1
    <3>1. i \in 1..n
      BY <1>1, <2>2
    <3> DEFINE b == BehindAt(t, i)
    <3>2. b \in (i + 1)..(n + 1)
      BY <3>1, PieceIs DEF n
    <3>3. f[k + i] = PieceAt(t, i) \o f[k + b]
      BY <1>3, <1>4, <1>5, <3>1 DEF IsDecoding
    <3>4. g[i] = PieceAt(t, i) \o g[b]
      BY <1>2, <3>1 DEF IsDecoding, n
    <3> HIDE DEF b
    <3> QED
      BY <1>6, <3>2, <3>3, <3>4
  <2> QED
    BY <2>1, <2>2
<1>7. \A i \in 1..(n + 1) : i \in S
  <2>1. 1 \in Int /\ n + 1 \in Int
    BY <1>1
  <2> HIDE DEF S
  <2> QED
    BY <1>6, <2>1, Downward
<1>8. 1 \in 1..(n + 1)
  BY <1>1
<1>9. f[k + 1] = g[1]
  BY <1>7, <1>8
<1> QED
  BY <1>2, <1>9 DEF IsDecoding, k

\* The text p is decoded to the symbol c, whatever is behind it.
Codes(p, c) == \A t \in Text : UrlDecode(p \o t) = Cons(c, UrlDecode(t))

\* What is decoded is a text.
LEMMA DecodedIsText == ASSUME NEW s \in Text PROVE UrlDecode(s) \in Text
<1>1. PICK f : IsDecoding(s, f)
  BY DecodingIs
<1>2. 1 \in 1..(Len(s) + 1)
  BY DEF Text
<1> QED
  BY <1>1, <1>2 DEF IsDecoding

\* A symbol that is no percent sign is decoded to itself.
LEMMA SymbolCodes == ASSUME NEW c \in Symbol, c # "%" PROVE Codes(<<c>>, c)
<1> SUFFICES ASSUME NEW t \in Text PROVE UrlDecode(<<c>> \o t) = Cons(c, UrlDecode(t))
  BY DEF Codes
<1> DEFINE p == <<c>>
           s == p \o t
<1>1. p \in Text /\ Len(p) = 1 /\ p[1] = c
  BY DEF Text
<1>2. /\ s \in Text /\ Len(s) = 1 + Len(t) /\ Len(t) \in Nat /\ s[1] = c
  <2> HIDE DEF p
  <2>1. /\ s \in Text /\ Len(s) = Len(p) + Len(t) /\ Len(t) \in Nat
        /\ \A i \in 1..(Len(p) + Len(t)) : s[i] = IF i <= Len(p) THEN p[i] ELSE t[i - Len(p)]
    BY <1>1, JoinIs
  <2> QED
    BY <1>1, <2>1
<1>3. PICK f : IsDecoding(s, f)
  BY <1>2, DecodingIs
<1>4. f[2] = UrlDecode(t)
  <2>1. Len(p) + 1 = 2
    BY <1>1
  <2> HIDE DEF p
  <2>2. f[Len(p) + 1] = UrlDecode(t)
    BY <1>1, <1>3, DecodingBehind
  <2> QED
    BY <2>1, <2>2
<1> HIDE DEF p, s
<1>5. PieceAt(s, 1) = p /\ BehindAt(s, 1) = 2
  BY <1>2 DEF PieceAt, BehindAt, IsCodeAt, p
<1>6. f[1] = p \o f[2]
  <2>1. 1 \in 1..Len(s)
    BY <1>2
  <2> QED
    BY <1>3, <1>5, <2>1 DEF IsDecoding
<1>7. UrlDecode(s) = p \o UrlDecode(t)
  BY <1>3, <1>4, <1>6 DEF IsDecoding
<1> QED
  BY <1>7 DEF Cons, p, s

\* A percent sign with two digits behind it is decoded to one symbol.
LEMMA DigitsCode ==
    ASSUME NEW a \in DOMAIN Hex, NEW b \in DOMAIN Hex
    PROVE  <<"%", a, b>> \in Text /\ Codes(<<"%", a, b>>, Decoded(a, b))
<1> DEFINE p == <<"%", a, b>>
<1>1. p \in Text /\ Len(p) = 3 /\ p[1] = "%" /\ p[2] = a /\ p[3] = b
  <2>1. DOMAIN Hex \subseteq Symbol /\ "%" \in Symbol
    BY DEF Symbol, Named
  <2>2. a \in Symbol /\ b \in Symbol
    BY <2>1
  <2> QED
    BY <2>1, <2>2 DEF Text
<1> SUFFICES ASSUME NEW t \in Text PROVE UrlDecode(p \o t) = Cons(Decoded(a, b), UrlDecode(t))
  BY <1>1 DEF Codes
<1> DEFINE s == p \o t
<1>2. s \in Text /\ Len(s) = 3 + Len(t) /\ Len(t) \in Nat /\ s[1] = "%" /\ s[2] = a /\ s[3] = b
  <2> HIDE DEF p
  <2>1. /\ s \in Text /\ Len(s) = Len(p) + Len(t) /\ Len(t) \in Nat
        /\ \A i \in 1..(Len(p) + Len(t)) : s[i] = IF i <= Len(p) THEN p[i] ELSE t[i - Len(p)]
    BY <1>1, JoinIs
  <2> QED
    BY <1>1, <2>1
<1>3. PICK f : IsDecoding(s, f)
  BY <1>2, DecodingIs
<1>4. f[4] = UrlDecode(t)
  <2>1. Len(p) + 1 = 4
    BY <1>1
  <2> HIDE DEF p
  <2>2. f[Len(p) + 1] = UrlDecode(t)
    BY <1>1, <1>3, DecodingBehind
  <2> QED
    BY <2>1, <2>2
<1> HIDE DEF p, s
<1>5. PieceAt(s, 1) = <<Decoded(a, b)>> /\ BehindAt(s, 1) = 4
  <2>1. IsCodeAt(s, 1)
    BY <1>2 DEF IsCodeAt
  <2> QED
    BY <1>2, <2>1 DEF PieceAt, BehindAt
<1>6. f[1] = <<Decoded(a, b)>> \o f[4]
  <2>1. 1 \in 1..Len(s)
    BY <1>2
  <2> QED
    BY <1>3, <1>5, <2>1 DEF IsDecoding
<1>7. UrlDecode(s) = <<Decoded(a, b)>> \o UrlDecode(t)
  BY <1>3, <1>4, <1>6 DEF IsDecoding
<1> QED
  BY <1>7 DEF Cons, s

\* Pieces that are decoded to the symbols of s, one behind the other, are
\* decoded to s.
LEMMA Chain ==
    ASSUME NEW s \in Text, NEW piece \in [1..Len(s) -> Text], NEW next, NEW f,
           IsJoined(f, Len(s), piece, next), \A i \in 1..Len(s) : next[i] = i + 1,
           \A i \in 1..Len(s) : Codes(piece[i], s[i]), NEW t \in Text
    PROVE  f[1] \in Text /\ UrlDecode(f[1] \o t) = s \o UrlDecode(t)
<1> DEFINE n == Len(s)
           v == UrlDecode(t)
           S == {i \in 1..(n + 1) : UrlDecode(f[i] \o t) = SubSeq(s, i, n) \o v}
<1>1. n \in Nat /\ 1 \in Int /\ n + 1 \in Int /\ s \in Seq(Symbol) /\ t \in Seq(Symbol) /\ v \in Text /\ v \in Seq(Symbol)
  <2>1. v \in Text
    BY DecodedIsText
  <2> HIDE DEF v
  <2> QED
    BY <2>1 DEF Text
<1>2. \A i \in 1..(n + 1) : f[i] \in Text
  <2>1. \A i \in 1..n : next[i] \in (i + 1)..(n + 1)
    BY <1>1
  <2> HIDE DEF n
  <2> QED
    BY <1>1, <2>1, JoinedHas DEF Text, n
<1> HIDE DEF v
<1>3. ASSUME NEW i \in 1..(n + 1), \A j \in (i + 1)..(n + 1) : j \in S PROVE i \in S
  <2>1. CASE i = n + 1
    <3>1. f[i] = <<>>
      BY <1>1, <2>1 DEF IsJoined
    <3>2. SubSeq(s, i, n) = <<>>
      BY <1>1, <2>1, SubSeqEmpty
    <3>3. <<>> \o t = t /\ <<>> \o v = v
      BY <1>1, ConcatEmptySeq
    <3>4. UrlDecode(f[i] \o t) = SubSeq(s, i, n) \o v
      BY <3>1, <3>2, <3>3 DEF v
    <3> QED
      BY <3>4
  <2>2. CASE i # n + 1
    <3>1. i \in 1..n /\ i + 1 \in S /\ ~(i > n) /\ i + 1 \in 1..(n + 1) /\ n \in i..n
      BY <1>1, <1>3, <2>2
    <3>2. f[i] = piece[i] \o f[i + 1] /\ piece[i] \in Text /\ Codes(piece[i], s[i]) /\ s[i] \in Symbol
      <4>1. piece[i] \in Text /\ Codes(piece[i], s[i]) /\ next[i] = i + 1
        BY <3>1
      <4>2. s[i] \in Symbol
        BY <3>1 DEF Text
      <4>3. i \in 1..(n + 1)
        OBVIOUS
      <4> HIDE DEF n, S
      <4>4. f[i] = piece[i] \o f[next[i]]
        BY <3>1, <4>3 DEF IsJoined, n
      <4> QED
        BY <4>1, <4>2, <4>4
    <3> DEFINE p == piece[i]
               c == s[i]
               g == f[i + 1]
               r == SubSeq(s, i + 1, n)
    <3>3. p \in Seq(Symbol) /\ g \in Seq(Symbol) /\ g \in Text
      BY <1>2, <3>1, <3>2 DEF Text
    <3>4. r \in Seq(Symbol) /\ SubSeq(s, i, n) = <<c>> \o r
      <4>1. SubSeq(s, i, n) = <<c>> \o r
        BY <1>1, <3>1, SubSeqRecursiveFirst
      <4>2. \A j \in (i + 1)..n : s[j] \in Symbol
        BY <1>1, <3>1
      <4>3. i + 1 \in Int /\ n \in Int
        BY <1>1, <3>1
      <4>4. r \in Seq(Symbol)
        BY <4>2, <4>3, SubSeqProperties
      <4> QED
        BY <4>1, <4>4
    <3>5. UrlDecode(g \o t) = r \o v
      BY <3>1
    <3>6. f[i] = p \o g /\ Codes(p, c) /\ c \in Symbol
      BY <3>2
    <3> HIDE DEF p, c, g, r
    <3>7. (p \o g) \o t = p \o (g \o t)
      BY <1>1, <3>3, ConcatAssociative
    <3>8. g \o t \in Text
      BY <3>3, JoinIs
    <3>9. UrlDecode(p \o (g \o t)) = Cons(c, r \o v)
      BY <3>5, <3>6, <3>8 DEF Codes
    <3>10. Cons(c, r) \o v = Cons(c, r \o v)
      BY <1>1, <3>4, <3>6, ConsJoin DEF Text
    <3>11. UrlDecode(f[i] \o t) = SubSeq(s, i, n) \o v
      BY <3>4, <3>6, <3>7, <3>9, <3>10 DEF Cons
    <3> QED
      BY <3>11
  <2> QED
    BY <2>1, <2>2
<1>4. \A i \in 1..(n + 1) : i \in S
  <2> HIDE DEF S, n
  <2> QED
    BY <1>1, <1>3, Downward
<1>5. 1 \in 1..(n + 1)
  BY <1>1
<1>6. UrlDecode(f[1] \o t) = SubSeq(s, 1, n) \o v
  BY <1>4, <1>5
<1>7. SubSeq(s, 1, n) = s
  BY <1>1, SubSeqFull
<1> QED
  BY <1>2, <1>5, <1>6, <1>7 DEF v

\* mg_url_encode of one symbol.
Digit(n) == CHOOSE c \in DOMAIN Hex : Hex[c] = n

Code(c) == CHOOSE k \in DOMAIN Ascii : Ascii[k] = c

Escape(c) == IF c \in Plain \/ c \notin {Ascii[k] : k \in DOMAIN Ascii} THEN <<c>>
             ELSE <<"%", Digit(Code(c) \div 16), Digit(Code(c) % 16)>>

\* Each number below 16 has a digit.
LEMMA DigitIs == ASSUME NEW n \in 0..15 PROVE Digit(n) \in DOMAIN Hex /\ Hex[Digit(n)] = n
<1>1. DOMAIN Hex = {"0", "1", "2", "3", "4", "5", "6", "7", "8", "9", "a", "b", "c", "d", "e", "f"}
  BY DEF Hex
<1>2. /\ Hex["0"] = 0 /\ Hex["1"] = 1 /\ Hex["2"] = 2 /\ Hex["3"] = 3 /\ Hex["4"] = 4 /\ Hex["5"] = 5
      /\ Hex["6"] = 6 /\ Hex["7"] = 7 /\ Hex["8"] = 8 /\ Hex["9"] = 9 /\ Hex["a"] = 10 /\ Hex["b"] = 11
      /\ Hex["c"] = 12 /\ Hex["d"] = 13 /\ Hex["e"] = 14 /\ Hex["f"] = 15
  BY DEF Hex
<1>3. n \in {0, 1, 2, 3, 4, 5, 6, 7, 8, 9, 10, 11, 12, 13, 14, 15}
  OBVIOUS
<1>4. \E c \in DOMAIN Hex : Hex[c] = n
  BY <1>1, <1>2, <1>3
<1> QED
  BY <1>4 DEF Digit

\* A symbol that is escaped is decoded to itself.
LEMMA EscapeCodes == ASSUME NEW c \in Symbol PROVE Escape(c) \in Text /\ Codes(Escape(c), c)
<1>1. DOMAIN Ascii = {37, 46, 47, 92, 97, 100} /\ Ascii[37] = "%"
  BY DEF Ascii
<1>2. CASE c \in Plain \/ c \notin {Ascii[k] : k \in DOMAIN Ascii}
  <2>1. "%" \notin Plain
    BY DEF Plain, Hex
  <2>2. c # "%"
    BY <1>1, <1>2, <2>1
  <2>3. Escape(c) = <<c>>
    BY <1>2 DEF Escape
  <2>4. <<c>> \in Text
    BY DEF Text
  <2> QED
    BY <2>2, <2>3, <2>4, SymbolCodes
<1>3. CASE ~(c \in Plain \/ c \notin {Ascii[k] : k \in DOMAIN Ascii})
  <2> DEFINE k == Code(c)
             a == Digit(k \div 16)
             b == Digit(k % 16)
  <2>1. k \in DOMAIN Ascii /\ Ascii[k] = c
    BY <1>3 DEF Code
  <2>2. Escape(c) = <<"%", a, b>>
    BY <1>3 DEF Escape
  <2>3. k \in {37, 46, 47, 92, 97, 100}
    BY <1>1, <2>1
  <2> HIDE DEF k
  <2>4. k \div 16 \in 0..15 /\ k % 16 \in 0..15 /\ 16 * (k \div 16) + (k % 16) = k
    BY <2>3
  <2>5. a \in DOMAIN Hex /\ Hex[a] = k \div 16 /\ b \in DOMAIN Hex /\ Hex[b] = k % 16
    BY <2>4, DigitIs
  <2> HIDE DEF a, b
  <2>6. 16 * Hex[a] + Hex[b] = k
    BY <2>4, <2>5
  <2>7. Decoded(a, b) = c
    BY <2>1, <2>6 DEF Decoded
  <2> QED
    BY <2>2, <2>5, <2>7, DigitsCode
<1> QED
  BY <1>2, <1>3

\* The browser that follows a link asks for the name that the server encoded.
THEOREM LinkTheorem ==
    ASSUME NEW s \in Text, NEW t \in Text
    PROVE  UrlEncode(s) \in Text /\ UrlDecode(UrlEncode(s) \o t) = s \o UrlDecode(t)
<1> DEFINE n == Len(s)
           Num(m) == CHOOSE c \in DOMAIN Hex : Hex[c] = m
           Cod(c) == CHOOSE k \in DOMAIN Ascii : Ascii[k] = c
           Esc(c) == IF c \in Plain \/ c \notin {Ascii[k] : k \in DOMAIN Ascii} THEN <<c>>
                     ELSE <<"%", Num(Cod(c) \div 16), Num(Cod(c) % 16)>>
           from[i \in 1..(Len(s) + 1)] == IF i > Len(s) THEN <<>> ELSE Esc(s[i]) \o from[i + 1]
<1>1. UrlEncode(s) = from[1]
  BY Zenon DEF UrlEncode
<1> HIDE DEF from
<1> DEFINE piece == [i \in 1..n |-> Escape(s[i])]
           next == [i \in 1..n |-> i + 1]
<1>2. n \in Nat /\ \A i \in 1..n : s[i] \in Symbol
  BY DEF Text
<1>3. \A i \in 1..n : Escape(s[i]) \in Text /\ Codes(Escape(s[i]), s[i])
  BY <1>2, EscapeCodes
<1>4. /\ piece \in [1..n -> Text] /\ \A i \in 1..n : next[i] = i + 1
      /\ \A i \in 1..n : piece[i] = Escape(s[i])
  BY <1>3
<1>5. \A c : Esc(c) = Escape(c)
  BY DEF Escape, Digit, Code
<1> HIDE DEF n, piece, next, Esc
<1>6. ASSUME NEW f, NEW i \in 1..(n + 1)
      PROVE  (IF i > n THEN <<>> ELSE piece[i] \o f[next[i]]) = IF i > n THEN <<>> ELSE Esc(s[i]) \o f[i + 1]
  <2>1. ~(i > n) => i \in 1..n
    BY <1>2
  <2> QED
    BY <1>4, <1>5, <2>1
<1>7. IsJoined(from, n, piece, next)
  <2>1. PICK f : IsJoined(f, n, piece, next)
    <3>1. \A i \in 1..n : next[i] \in (i + 1)..(n + 1)
      BY <1>2, <1>4
    <3> QED
      BY <1>2, <1>4, <3>1, JoinedExists
  <2>2. f = [i \in 1..(n + 1) |-> IF i > n THEN <<>> ELSE Esc(s[i]) \o f[i + 1]]
    BY <1>6, <2>1 DEF IsJoined
  <2>3. from = [i \in 1..(n + 1) |-> IF i > n THEN <<>> ELSE Esc(s[i]) \o from[i + 1]]
    BY <2>2 DEF from, n
  <2> QED
    BY <1>6, <2>3 DEF IsJoined
<1>8. from[1] \in Text /\ UrlDecode(from[1] \o t) = s \o UrlDecode(t)
  BY <1>3, <1>4, <1>7, Chain DEF n
<1> QED
  BY <1>1, <1>8

\* What has no percent sign is decoded to itself.
LEMMA PlainlyDecoded ==
    ASSUME NEW u \in Text, \A i \in 1..Len(u) : u[i] # "%", NEW t \in Text
    PROVE  UrlDecode(u \o t) = u \o UrlDecode(t)
<1> DEFINE n == Len(u)
           piece == [i \in 1..n |-> <<u[i]>>]
           next == [i \in 1..n |-> i + 1]
           f == [i \in 1..(n + 1) |-> SubSeq(u, i, n)]
<1>1. n \in Nat /\ u \in Seq(Symbol) /\ \A i \in 1..n : u[i] \in Symbol
  BY DEF Text
<1>2. \A i \in 1..n : <<u[i]>> \in Text /\ Codes(<<u[i]>>, u[i])
  <2>1. \A c \in Symbol : <<c>> \in Text
    BY DEF Text
  <2> QED
    BY <1>1, <2>1, SymbolCodes
<1>3. /\ piece \in [1..n -> Text] /\ \A i \in 1..n : next[i] = i + 1
      /\ \A i \in 1..n : piece[i] = <<u[i]>>
      /\ \A i \in 1..(n + 1) : f[i] = SubSeq(u, i, n)
  BY <1>2
<1>4. ASSUME NEW i \in 1..(n + 1) PROVE SubSeq(u, i, n) = IF i > n THEN <<>> ELSE piece[i] \o f[next[i]]
  <2>1. CASE i > n
    <3>1. i \in Int /\ n \in Int /\ n < i
      BY <1>1, <2>1
    <3> HIDE DEF n, piece, next, f
    <3> QED
      BY <2>1, <3>1, SubSeqEmpty
  <2>2. CASE ~(i > n)
    <3>1. i \in 1..n /\ n \in i..n /\ i + 1 \in 1..(n + 1)
      BY <1>1, <2>2
    <3>2. SubSeq(u, i, n) = <<u[i]>> \o SubSeq(u, i + 1, n)
      BY <1>1, <3>1, SubSeqRecursiveFirst
    <3> HIDE DEF piece, next, f, n
    <3> QED
      BY <1>3, <2>2, <3>1, <3>2
  <2> QED
    BY <2>1, <2>2
<1>5. IsJoined(f, n, piece, next)
  <2>1. f = [i \in 1..(n + 1) |-> SubSeq(u, i, n)]
    OBVIOUS
  <2> HIDE DEF f, n, piece, next
  <2>2. [i \in 1..(n + 1) |-> SubSeq(u, i, n)] = [i \in 1..(n + 1) |-> IF i > n THEN <<>> ELSE piece[i] \o f[next[i]]]
    BY <1>4
  <2> QED
    BY <2>1, <2>2, Zenon DEF IsJoined
<1>6. f[1] = u
  <2>1. 1 \in 1..(n + 1) /\ SubSeq(u, 1, n) = u
    BY <1>1, SubSeqFull
  <2> HIDE DEF f, n
  <2> QED
    BY <1>3, <2>1
<1> HIDE DEF piece, next, f
<1>7. UrlDecode(f[1] \o t) = u \o UrlDecode(t)
  <2>1. \A i \in 1..n : Codes(piece[i], u[i])
    BY <1>2, <1>3
  <2> QED
    BY <1>3, <1>5, <2>1, Chain
<1> QED
  BY <1>6, <1>7

-----------------------------------------------------------------------------
(* The end of a URI: a slash stays one when the URI is decoded and cleaned. *)

\* A text ends in a symbol of D.
Ends(s, D) == s # <<>> /\ s[Len(s)] \in D

\* Two texts end as the second does, if it is not empty.
LEMMA JoinEnds ==
    ASSUME NEW u \in Text, NEW v \in Text, NEW D, Ends(v, D)
    PROVE  Ends(u \o v, D)
<1>1. /\ u \o v \in Text /\ Len(u \o v) = Len(u) + Len(v) /\ Len(u) \in Nat /\ Len(v) \in Nat
      /\ \A i \in 1..(Len(u) + Len(v)) : (u \o v)[i] = IF i <= Len(u) THEN u[i] ELSE v[i - Len(u)]
  BY JoinIs
<1>2. Len(v) > 0
  BY <1>1, EmptySeq DEF Ends, Text
<1> DEFINE w == u \o v
<1> HIDE DEF w
<1>3. Len(w) \in 1..(Len(u) + Len(v)) /\ ~(Len(w) <= Len(u)) /\ Len(w) - Len(u) = Len(v)
  BY <1>1, <1>2 DEF w
<1>4. w[Len(w)] = v[Len(v)] /\ w # <<>>
  BY <1>1, <1>3 DEF w
<1> QED
  BY <1>4 DEF Ends, w

\* What is decoded is not longer, and ends in a slash if it was one.
LEMMA DecodedEnds ==
    ASSUME NEW s \in Text
    PROVE  Len(UrlDecode(s)) <= Len(s) /\ (Ends(s, {"/"}) => Ends(UrlDecode(s), {"/"}))
<1>1. PICK f : IsDecoding(s, f)
  BY DecodingIs
<1> DEFINE n == Len(s)
           Good(i) == /\ f[i] \in Text /\ Len(f[i]) <= n + 1 - i
                      /\ i <= n /\ Ends(s, {"/"}) => Ends(f[i], {"/"})
           S == {i \in 1..(n + 1) : Good(i)}
<1>2. n \in Nat /\ 1 \in Int /\ n + 1 \in Int /\ 1 \in 1..(n + 1)
  BY DEF Text
<1>3. \A i \in 1..(n + 1) : f[i] \in Text /\ Len(f[i]) \in Nat
  BY <1>1 DEF IsDecoding, Text
<1>4. ASSUME NEW i \in 1..(n + 1), \A j \in (i + 1)..(n + 1) : j \in S PROVE i \in S
  <2>1. CASE i = n + 1
    <3>1. f[i] = <<>>
      BY <1>1, <2>1 DEF IsDecoding
    <3>2. Len(f[i]) <= n + 1 - i /\ ~(i <= n)
      BY <1>2, <2>1, <3>1
    <3> QED
      BY <1>3, <3>2
  <2>2. CASE i # n + 1
    <3>1. i \in 1..n
      BY <1>2, <2>2
    <3> DEFINE p == PieceAt(s, i)
               b == BehindAt(s, i)
               g == f[b]
    <3>2. p \in Text /\ Len(p) = 1 /\ b \in (i + 1)..(n + 1) /\ f[i] = p \o g
      BY <1>1, <3>1, PieceIs DEF IsDecoding
    <3>3. b \in S /\ Good(b)
      BY <1>4, <3>2
    <3>4. g \in Text /\ Len(g) <= n + 1 - b /\ Len(g) \in Nat
      BY <1>3, <3>2, <3>3
    <3>5. Len(f[i]) = 1 + Len(g)
      <4> HIDE DEF p, g
      <4> QED
        BY <3>2, <3>4, JoinIs
    <3>6. Len(f[i]) <= n + 1 - i
      BY <1>2, <3>1, <3>2, <3>4, <3>5
    <3>7. ASSUME Ends(s, {"/"}) PROVE Ends(f[i], {"/"})
      <4>1. s[n] = "/"
        BY <3>7 DEF Ends
      <4>2. CASE b <= n
        <5>1. Ends(g, {"/"})
          BY <3>3, <3>7, <4>2
        <5> HIDE DEF p, g
        <5> QED
          BY <3>2, <3>4, <5>1, JoinEnds
      <4>3. CASE ~(b <= n)
        <5>1. b = n + 1
          BY <1>2, <3>1, <3>2, <4>3
        <5>2. ~IsCodeAt(s, i)
          <6> SUFFICES ASSUME IsCodeAt(s, i) PROVE FALSE
            OBVIOUS
          <6>1. i + 2 = n /\ s[i + 2] \in DOMAIN Hex
            BY <1>2, <3>1, <5>1 DEF BehindAt, IsCodeAt
          <6>2. "/" \notin DOMAIN Hex
            BY DEF Hex
          <6> QED
            BY <4>1, <6>1, <6>2
        <5>3. i = n
          BY <1>2, <3>1, <5>1, <5>2 DEF BehindAt
        <5>4. p = <<"/">> /\ g = <<>>
          BY <1>1, <4>1, <5>1, <5>2, <5>3 DEF PieceAt, IsDecoding
        <5>5. p \o g = p
          BY <5>4
        <5>6. Ends(p, {"/"})
          BY <5>4 DEF Ends
        <5> HIDE DEF p, g
        <5> QED
          BY <3>2, <5>5, <5>6
      <4> QED
        BY <4>2, <4>3
    <3>8. Good(i)
      BY <1>3, <3>1, <3>6, <3>7
    <3> HIDE DEF Good
    <3> QED
      BY <3>8
  <2> QED
    BY <2>1, <2>2
<1>5. \A i \in 1..(n + 1) : i \in S
  <2> HIDE DEF S, n
  <2> QED
    BY <1>2, <1>4, Downward
<1>6. Good(1)
  BY <1>2, <1>5
<1>7. Ends(s, {"/"}) => 1 <= n
  BY <1>2, EmptySeq DEF Ends, Text
<1>8. UrlDecode(s) = f[1]
  BY <1>1 DEF IsDecoding
<1> QED
  BY <1>2, <1>6, <1>7, <1>8

\* One step of rewriting does not make a path longer or empty, nor takes a
\* slash at its end away.
LEMMA ShortenedEnds ==
    ASSUME NEW s \in Text, s # <<>>
    PROVE  /\ Shortened(s) \in Text /\ Shortened(s) # <<>> /\ Len(Shortened(s)) <= Len(s)
           /\ Ends(s, Slashes) => Ends(Shortened(s), Slashes)
<1>1. CASE Doubled(s) \cup Dotted(s) = {}
  <2>1. Shortened(s) = s /\ Len(s) \in Nat
    BY <1>1 DEF Shortened, Text
  <2> QED
    BY <2>1
<1>2. CASE Doubled(s) \cup Dotted(s) # {}
  <2> DEFINE B == Doubled(s) \cup Dotted(s)
             i == First(s)
             w == Width(s, i)
             v == Without(s, i, w)
  <2>1. i \in B
    <3>1. B \subseteq Nat /\ B # {}
      BY <1>2 DEF Doubled, Dotted, Text
    <3> HIDE DEF B
    <3>2. \E k \in B : \A j \in B : k <= j
      BY <3>1, LeastNumber
    <3> USE DEF B
    <3> QED
      BY <3>2 DEF First
  <2> HIDE DEF i
  <2>2. /\ i \in 1..Len(s) /\ w \in {1, 2} /\ i + w <= Len(s) /\ Len(s) \in Nat /\ s[i] \in Slashes
    BY <2>1 DEF Width, Doubled, Dotted, Text
  <2>3. Shortened(s) = v
    BY <1>2 DEF Shortened, i
  <2> HIDE DEF w
  <2>4. /\ v \in Text /\ Len(v) = Len(s) - w
        /\ \A j \in 1..i : v[j] = s[j]
        /\ \A j \in (i + 1)..(Len(s) - w) : v[j] = s[j + w]
    BY <2>2, WithoutIs
  <2> HIDE DEF v
  <2>5. Len(v) <= Len(s) /\ Len(v) > 0 /\ v # <<>>
    BY <2>2, <2>4
  <2>6. ASSUME s[Len(s)] \in Slashes PROVE v[Len(v)] \in Slashes
    <3>1. CASE Len(v) = i
      <4>1. i \in 1..i
        BY <2>2
      <4> QED
        BY <2>2, <2>4, <3>1, <4>1
    <3>2. CASE Len(v) # i
      <4>1. Len(v) \in (i + 1)..(Len(s) - w) /\ Len(v) + w = Len(s)
        BY <2>2, <2>4, <3>2
      <4> QED
        BY <2>4, <2>6, <4>1
    <3> QED
      BY <3>1, <3>2
  <2> QED
    BY <2>3, <2>4, <2>5, <2>6 DEF Ends
<1> QED
  BY <1>1, <1>2

\* What each step of rewriting keeps, rewriting keeps.
LEMMA RewrittenKeeps ==
    ASSUME NEW P, NEW s \in P, s \in Text, \A v \in P : Shortened(v) \in P
    PROVE  Rewritten(s) \in P
<1> DEFINE n == Len(s)
<1>1. n \in Nat
  BY DEF Text
<1> DEFINE rest[k \in 0..n] == IF k = 0 THEN s ELSE Shortened(rest[k - 1])
<1>2. Rewritten(s) = rest[n]
  BY Zenon DEF Rewritten
<1>3. \E f : f = [k \in 0..n |-> IF k = 0 THEN s ELSE Shortened(f[k - 1])]
  <2> DEFINE step == [k \in 1..n |-> [v \in P |-> Shortened(v)]]
  <2>1. step \in [1..n -> [P -> P]]
    OBVIOUS
  <2>2. \A k \in 1..n, v \in P : step[k][v] = Shortened(v)
    OBVIOUS
  <2> HIDE DEF step, n
  <2>3. PICK f : Up(f, n, P, s, step)
    BY <1>1, <2>1, RecursionUp
  <2>4. ASSUME NEW k \in 0..n PROVE f[k] = IF k = 0 THEN s ELSE Shortened(f[k - 1])
    <3>1. CASE k = 0
      BY <2>3, <3>1 DEF Up
    <3>2. CASE k # 0
      <4>1. k \in 1..n /\ k - 1 \in 0..n
        BY <1>1, <3>2
      <4>2. f[k] = step[k][f[k - 1]] /\ f[k - 1] \in P
        BY <2>3, <3>2, <4>1 DEF Up
      <4> QED
        BY <2>2, <3>2, <4>1, <4>2
    <3> QED
      BY <3>1, <3>2
  <2>5. f = [k \in 0..n |-> f[k]]
    BY <2>3 DEF Up
  <2> QED
    BY <2>4, <2>5
<1>4. rest = [k \in 0..n |-> IF k = 0 THEN s ELSE Shortened(rest[k - 1])]
  BY <1>3
<1> HIDE DEF rest, n
<1> DEFINE S == {k \in Nat : k <= n => rest[k] \in P}
<1>5. 0 \in S
  <2>1. rest[0] = s
    BY <1>1, <1>4
  <2> QED
    BY <2>1
<1>6. ASSUME NEW k \in Nat, k \in S PROVE k + 1 \in S
  <2> SUFFICES ASSUME k + 1 <= n PROVE rest[k + 1] \in P
    OBVIOUS
  <2>1. k + 1 \in 0..n /\ k + 1 # 0 /\ (k + 1) - 1 = k /\ k <= n
    BY <1>1
  <2>2. rest[k + 1] = Shortened(rest[k])
    BY <1>4, <2>1
  <2> QED
    BY <1>6, <2>1, <2>2
<1>7. \A k \in Nat : k \in S
  <2> HIDE DEF S
  <2> QED
    BY <1>5, <1>6, Induction
<1>8. rest[n] \in P
  <2>1. n \in S /\ n <= n
    BY <1>1, <1>7
  <2> QED
    BY <2>1
<1> QED
  BY <1>2, <1>8

\* So it keeps the end, and the length at most.
LEMMA RewrittenEnds ==
    ASSUME NEW s \in Text, s # <<>>
    PROVE  /\ Rewritten(s) \in Text /\ Rewritten(s) # <<>> /\ Len(Rewritten(s)) <= Len(s)
           /\ Ends(s, Slashes) => Ends(Rewritten(s), Slashes)
<1> DEFINE P == {v \in Text : v # <<>> /\ Len(v) <= Len(s) /\ (Ends(s, Slashes) => Ends(v, Slashes))}
<1>1. s \in P
  BY DEF Text
<1>2. ASSUME NEW v \in P PROVE Shortened(v) \in P
  <2>1. /\ Shortened(v) \in Text /\ Shortened(v) # <<>> /\ Len(Shortened(v)) <= Len(v)
        /\ Ends(v, Slashes) => Ends(Shortened(v), Slashes)
    BY ShortenedEnds
  <2>2. Len(Shortened(v)) \in Nat /\ Len(v) \in Nat /\ Len(s) \in Nat
    BY <2>1 DEF Text
  <2> QED
    BY <2>1, <2>2
<1>3. Rewritten(s) \in P
  <2> HIDE DEF P
  <2> QED
    BY <1>1, <1>2, RewrittenKeeps
<1> QED
  BY <1>3

\* A text that is written over another, with its end behind it.
LEMMA OverwriteIs ==
    ASSUME NEW V, NEW b \in Seq(V), NEW t \in Seq(V), "nul" \in V
    PROVE  /\ Overwrite(b, t) \in Seq(V) /\ Len(Overwrite(b, t)) = Len(b)
           /\ \A i \in 1..Len(b) : Overwrite(b, t)[i] = IF i <= Len(t) THEN t[i]
                                                       ELSE IF i = Len(t) + 1 THEN "nul" ELSE b[i]
<1> DEFINE n == Len(b)
           o == Overwrite(b, t)
<1>1. n \in Nat /\ Len(t) \in Nat /\ DOMAIN b = 1..n
  OBVIOUS
<1>2. o = [i \in 1..n |-> IF i <= Len(t) THEN t[i] ELSE IF i = Len(t) + 1 THEN "nul" ELSE b[i]]
  BY <1>1 DEF Overwrite
<1>3. \A i \in 1..n : (IF i <= Len(t) THEN t[i] ELSE IF i = Len(t) + 1 THEN "nul" ELSE b[i]) \in V
  BY <1>1
<1> HIDE DEF n, o
<1>4. o \in [1..n -> V]
  BY <1>2, <1>3
<1>5. o \in Seq(V)
  BY <1>1, <1>4, SeqDef
<1>6. Len(o) = n
  <2>1. DOMAIN o = 1..Len(o) /\ Len(o) \in Nat /\ DOMAIN o = 1..n
    BY <1>4, <1>5, LenProperties
  <2>2. n \in Nat
    BY <1>1 DEF n
  <2> DEFINE l == Len(o)
  <2>3. l \in Nat /\ 1..l = 1..n
    BY <2>1
  <2> HIDE DEF l
  <2>4. ~(l < n)
    <3>1. n > 0 => n \in 1..n
      BY <2>2
    <3> QED
      BY <2>2, <2>3, <3>1
  <2>5. ~(n < l)
    <3>1. l > 0 => l \in 1..l
      BY <2>3
    <3> QED
      BY <2>2, <2>3, <3>1
  <2> QED
    BY <2>2, <2>3, <2>4, <2>5 DEF l
<1> QED
  BY <1>1, <1>2, <1>5, <1>6 DEF n, o

\* If the buffer ends in a slash, so does the path.
LEMMA BufferEnds ==
    ASSUME NEW uri, IsPath(uri), Last(Buffer(uri)) = "/"
    PROVE  Ends(Clean(uri), Slashes)
<1> DEFINE d == UrlDecode(uri)
           c == Clean(uri)
           V == Symbol \cup {"nul"}
           a == Overwrite(uri, d)
           b == Overwrite(a, c)
           n == Len(uri)
<1>1. uri \in Text /\ uri # <<>> /\ d \in Text /\ d # <<>>
  BY UrlDecodeIsPath, PathIsText DEF IsPath
<1>2. Len(d) <= n /\ (Ends(uri, {"/"}) => Ends(d, {"/"}))
  BY <1>1, DecodedEnds
<1>3. c \in Text /\ c # <<>> /\ Len(c) <= Len(d) /\ (Ends(d, Slashes) => Ends(c, Slashes))
  BY <1>1, RewrittenEnds DEF Clean
<1>4. Symbol \subseteq V /\ "nul" \in V
  OBVIOUS
<1> HIDE DEF d, c, V
<1>5. uri \in Seq(V) /\ d \in Seq(V) /\ c \in Seq(V)
  BY <1>1, <1>3, <1>4, SeqMonotonic DEF Text
<1>6. /\ a \in Seq(V) /\ Len(a) = n
      /\ \A i \in 1..n : a[i] = IF i <= Len(d) THEN d[i] ELSE IF i = Len(d) + 1 THEN "nul" ELSE uri[i]
  BY <1>4, <1>5, OverwriteIs
<1> HIDE DEF a
<1>7. /\ Len(b) = n
      /\ \A i \in 1..n : b[i] = IF i <= Len(c) THEN c[i] ELSE IF i = Len(c) + 1 THEN "nul" ELSE a[i]
  BY <1>4, <1>5, <1>6, OverwriteIs
<1>8. b[n] = "/"
  <2>1. Last(b) = "/"
    BY DEF Buffer, a, b, c, d
  <2> QED
    BY <1>7, <2>1 DEF Last
<1> HIDE DEF b
<1>9. n \in Nat /\ n > 0 /\ n \in 1..n /\ Len(c) \in Nat /\ Len(d) \in Nat
  BY <1>1, <1>3, EmptySeq DEF Text
<1> HIDE DEF n
<1>10. "/" \in Slashes /\ "nul" # "/"
  BY DEF Slashes
<1>11. CASE n <= Len(c)
  <2>1. Len(c) = n /\ b[n] = c[n]
    BY <1>2, <1>3, <1>7, <1>9, <1>11 DEF n
  <2>2. c[Len(c)] \in Slashes
    BY <1>8, <1>10, <2>1
  <2>3. Ends(c, Slashes)
    BY <1>3, <2>2 DEF Ends
  <2> QED
    BY <2>3 DEF c
<1>12. CASE ~(n <= Len(c))
  <2>1. a[n] = "/"
    BY <1>7, <1>8, <1>9, <1>10, <1>12
  <2>2. Ends(d, {"/"})
    <3>1. CASE n <= Len(d)
      <4>1. Len(d) = n /\ a[n] = d[n]
        BY <1>2, <1>6, <1>9, <3>1
      <4> QED
        BY <1>1, <2>1, <4>1 DEF Ends
    <3>2. CASE ~(n <= Len(d))
      <4>1. uri[n] = "/"
        BY <1>6, <1>9, <1>10, <2>1, <3>2
      <4> QED
        BY <1>1, <1>2, <4>1 DEF Ends, n
    <3> QED
      BY <3>1, <3>2
  <2>3. Ends(d, Slashes)
    BY <1>10, <2>2 DEF Ends
  <2> QED
    BY <1>3, <2>3 DEF c
<1> QED
  BY <1>11, <1>12 DEF c

-----------------------------------------------------------------------------
(* The names in a directory, and what leads to them.                        *)

\* Neither a backslash nor a percent sign.
Bare(u) == \A k \in 1..Len(u) : u[k] \notin {"\\", "%"}

IsOrdinary(s) == Doubled(s) \cup Dotted(s) = {}

\* The URI of a directory, in front of the names in it.
IsBase(u) == u \in Text /\ Ends(u, {"/"}) /\ IsOrdinary(u) /\ Bare(u)

\* What is stripped of it is one slash, if there is more.
LEMMA BaseStripped ==
    ASSUME NEW u, IsBase(u)
    PROVE  \/ u = Root /\ Stripped(u) = Root
           \/ Stripped(u) \in Text /\ Stripped(u) # Root /\ Stripped(u) \o <<"/">> = u
<1> DEFINE n == Len(u)
           E == {k \in 1..n : \A i \in (k + 1)..n : u[i] = "/"}
           e == CHOOSE k \in E : \A m \in E : k <= m
<1>1. n \in Nat /\ n > 0 /\ u \in Seq(Symbol) /\ u \in Text /\ u[n] = "/" /\ n \in 1..n /\ DOMAIN u = 1..n
  BY EmptySeq, LenProperties DEF Text, IsBase, Ends
<1>2. Stripped(u) = SubSeq(u, 1, e)
  BY DEF Stripped
<1> HIDE DEF n
<1>3. CASE n = 1
  <2>1. E = {1}
    BY <1>3
  <2> HIDE DEF E
  <2>2. e = 1
    BY <2>1
  <2> HIDE DEF e
  <2>3. Stripped(u) = u
    BY <1>1, <1>2, <1>3, <2>2, SubSeqFull DEF n
  <2>4. u = Root
    <3> DEFINE r == Root
    <3>1. r \in Seq(Symbol) /\ Len(r) = 1 /\ r[1] = "/"
      BY DEF Root, Symbol, Named
    <3> HIDE DEF r
    <3>2. \A i \in 1..Len(u) : u[i] = r[i]
      BY <1>1, <1>3, <3>1 DEF n
    <3>3. u = r
      BY <1>1, <1>3, <3>1, <3>2, SeqEqual DEF n
    <3> QED
      BY <3>3 DEF r
  <2> QED
    BY <2>3, <2>4
<1>4. CASE n # 1
  <2>1. u[n - 1] # "/"
    <3> SUFFICES ASSUME u[n - 1] = "/" PROVE FALSE
      OBVIOUS
    <3> DEFINE k == n - 1
    <3>1. k \in 1..n /\ k < n /\ k + 1 = n
      BY <1>1, <1>4
    <3>2. u[k] = "/"
      OBVIOUS
    <3> HIDE DEF k, E, e
    <3>3. u[k + 1] = "/"
      BY <1>1, <3>1
    <3>4. k \in DOMAIN u /\ k < Len(u)
      BY <1>1, <3>1 DEF n
    <3>5. k \in Doubled(u)
      BY <3>2, <3>3, <3>4 DEF Doubled, Slashes
    <3> QED
      BY <3>5 DEF IsBase, IsOrdinary
  <2>2. n - 1 \in E
    <3>1. n - 1 \in 1..n /\ \A i \in ((n - 1) + 1)..n : i = n
      BY <1>1, <1>4
    <3> QED
      BY <1>1, <3>1
  <2>3. ASSUME NEW m \in E PROVE n - 1 <= m
    <3> SUFFICES ASSUME ~(n - 1 <= m) PROVE FALSE
      OBVIOUS
    <3>1. n - 1 \in (m + 1)..n
      BY <1>1
    <3> QED
      BY <2>1, <3>1
  <2>4. E \subseteq Nat
    OBVIOUS
  <2> HIDE DEF E
  <2>5. e = n - 1
    <3>1. \A k \in E : (\A m \in E : k <= m) => k = n - 1
      <4> SUFFICES ASSUME NEW k \in E, \A m \in E : k <= m PROVE k = n - 1
        OBVIOUS
      <4>1. k <= n - 1 /\ n - 1 <= k /\ k \in Nat
        BY <2>2, <2>3, <2>4
      <4> QED
        BY <1>1, <4>1
    <3> QED
      BY <2>2, <2>3, <3>1
  <2> HIDE DEF e
  <2> DEFINE d == SubSeq(u, 1, n - 1)
  <2>6. Stripped(u) = d
    BY <1>2, <2>5
  <2>7. d \in Seq(Symbol) /\ Len(d) = n - 1 /\ d[n - 1] = u[n - 1]
    <3>1. \A i \in 1..(n - 1) : u[i] \in Symbol
      BY <1>1
    <3>2. 1 \in Int /\ n - 1 \in Int /\ 1 <= n - 1 /\ (n - 1) - 1 + 1 = n - 1 /\ n - 1 \in 1..((n - 1) - 1 + 1)
          /\ 1 + (n - 1) - 1 = n - 1
      BY <1>1, <1>4
    <3> HIDE DEF n
    <3> QED
      BY <3>1, <3>2, SubSeqProperties
  <2>8. d \o <<u[n]>> = u
    <3>1. SubSeq(u, 1, n) = SubSeq(u, 1, n - 1) \o <<u[n]>>
      <4>1. 1 \in 1..Len(u) /\ n \in 1..Len(u)
        BY <1>1 DEF n
      <4> HIDE DEF n
      <4>2. u \in Seq(Symbol)
        BY <1>1
      <4> QED
        BY <4>1, <4>2, SubSeqRecursiveSecond
    <3>2. SubSeq(u, 1, n) = u
      BY <1>1, SubSeqFull DEF n
    <3> QED
      BY <3>1, <3>2
  <2>9. d # Root
    <3> SUFFICES ASSUME d = Root PROVE FALSE
      OBVIOUS
    <3>1. Len(Root) = 1 /\ Root[1] = "/"
      BY DEF Root
    <3>2. n - 1 = 1
      BY <2>7, <3>1
    <3> QED
      BY <2>1, <2>7, <3>1, <3>2
  <2> HIDE DEF d
  <2> QED
    BY <1>1, <2>6, <2>7, <2>8, <2>9 DEF Text
<1> QED
  BY <1>3, <1>4

\* A name in the directory is behind its URI.
LEMMA InBase ==
    ASSUME NEW u, IsBase(u), NEW name
    PROVE  InDir(Stripped(u), name) = u \o name
<1>1. CASE u = Root /\ Stripped(u) = Root
  BY <1>1 DEF InDir
<1>2. CASE Stripped(u) # Root /\ Stripped(u) \o <<"/">> = u
  BY <1>2 DEF InDir
<1> QED
  BY <1>1, <1>2, BaseStripped

\* The files are the document root and assets.
FromAssets == \A p \in DOMAIN tree : p = Root \/ \E i \in DOMAIN Assets : p = Assets[i].path

\* The paths of the assets are as a listing needs them.
LEMMA PlainPath ==
    ASSUME PlainNames, FromAssets, AsMade, NEW p \in DOMAIN tree, p # Root
    PROVE  /\ p \in Text /\ ~Ends(p, {"/"}) /\ IsOrdinary(p)
           /\ tree[p].dir = TRUE => Bare(p)
<1>1. PICK i \in DOMAIN Assets : p = Assets[i].path
  BY DEF FromAssets
<1>2. p \in Seq(STRING) /\ tree[p].dir = Assets[i].dir
  <2>1. Assets[i] \in AssetType
    BY AssetsAre
  <2>2. Assets[i].path \in Seq(STRING)
    BY <2>1 DEF AssetType
  <2>3. tree[p].dir = Assets[i].dir
    BY <1>1 DEF AsMade
  <2> QED
    BY <1>1, <2>2, <2>3
<1>3. /\ Last(p) # "/" /\ IsOrdinary(p)
      /\ Assets[i].dir => \A k \in DOMAIN p : p[k] \notin {"\\", "%"}
  BY <1>1 DEF PlainNames, IsOrdinary
<1>4. p \in Text /\ DOMAIN p = 1..Len(p)
  <2>1. STRING \subseteq Symbol
    BY DEF Symbol
  <2>2. p \in Seq(Symbol)
    BY <1>2, <2>1, SeqMonotonic
  <2> QED
    BY <2>2 DEF Text
<1>5. ~Ends(p, {"/"})
  BY <1>3 DEF Ends, Last
<1> QED
  BY <1>2, <1>3, <1>4, <1>5 DEF Bare

\* What a directory has a name of is a file.
LEMMA NameLeads ==
    ASSUME PlainNames, FromAssets, AsMade, NEW u, IsBase(u), NEW name \in Names(Stripped(u))
    PROVE  name \in Text /\ name # <<>> /\ u \o name \in DOMAIN tree /\ u \o name # Root
<1> DEFINE x == InDir(Stripped(u), <<>>)
           l == Len(u)
<1>1. u \in Text /\ u \in Seq(Symbol) /\ l \in Nat
  BY DEF IsBase, Text
<1>2. x = u
  <2>1. x = u \o <<>>
    BY InBase
  <2>2. u \o <<>> = u
    BY <1>1, ConcatEmptySeq
  <2> QED
    BY <2>1, <2>2
<1>3. PICK p \in DOMAIN tree \ {Root} : IsPrefix(x, p) /\ name = SubSeq(p, Len(x) + 1, Len(p))
  BY DEF Names
<1> HIDE DEF x
<1>4. p \in Text /\ ~Ends(p, {"/"})
  BY <1>3, PlainPath
<1>5. p \in Seq(Symbol) /\ Len(p) \in Nat /\ l <= Len(p) /\ u = SubSeq(p, 1, l) /\ name = SubSeq(p, l + 1, Len(p))
  <2>1. SubSeq(u, 1, Len(u)) = u
    BY <1>1, SubSeqFull
  <2> QED
    BY <1>2, <1>3, <1>4, <2>1 DEF IsPrefix, Text
<1>6. u \o name = p
  <2>1. SubSeq(p, 1, l) \o SubSeq(p, l + 1, Len(p)) = SubSeq(p, 1, Len(p))
    <3>1. 1 \in 1..(Len(p) + 1) /\ l \in (1 - 1)..Len(p) /\ Len(p) \in l..Len(p)
      BY <1>1, <1>5
    <3> HIDE DEF l
    <3> QED
      BY <1>5, <3>1, ConcatAdjacentSubSeq
  <2>2. SubSeq(p, 1, Len(p)) = p
    BY <1>5, SubSeqFull
  <2> QED
    BY <1>5, <2>1, <2>2
<1>7. name \in Text
  <2>1. \A i \in (l + 1)..Len(p) : p[i] \in Symbol
    BY <1>1, <1>5
  <2>2. l + 1 \in Int /\ Len(p) \in Int
    BY <1>1, <1>5
  <2> HIDE DEF l
  <2> QED
    BY <1>5, <2>1, <2>2, SubSeqProperties DEF Text
<1>8. name # <<>>
  <2> SUFFICES ASSUME name = <<>> PROVE FALSE
    OBVIOUS
  <2>1. p = u
    BY <1>1, <1>6, ConcatEmptySeq
  <2> QED
    BY <1>4, <2>1 DEF IsBase
<1> QED
  BY <1>3, <1>6, <1>7, <1>8

\* An ordinary path is not rewritten.
LEMMA NotRewritten == ASSUME NEW x \in Text, IsOrdinary(x) PROVE Rewritten(x) = x
  BY OrdinaryPath, PathTheorem DEF IsOrdinary

\* A directory with a slash behind it is the base of the names in it.
LEMMA DirectoryBase ==
    ASSUME NEW x \in Text, x # <<>>, ~Ends(x, {"/"}), IsOrdinary(x), Bare(x)
    PROVE  IsBase(x \o <<"/">>) /\ Stripped(x \o <<"/">>) = x
<1> DEFINE c == "/"
           s == <<c>>
           y == x \o s
           n == Len(x)
<1>0. c \in Symbol
  BY DEF Symbol, Named
<1> HIDE DEF c
<1>1. s \in Text /\ Len(s) = 1 /\ s[1] = c
  BY <1>0 DEF Text
<1> HIDE DEF s
<1>2. /\ y \in Text /\ Len(y) = n + 1 /\ n \in Nat /\ n > 0
      /\ \A i \in 1..(n + 1) : y[i] = IF i <= n THEN x[i] ELSE c
  <2>1. /\ y \in Text /\ Len(y) = n + Len(s) /\ n \in Nat
        /\ \A i \in 1..(n + Len(s)) : y[i] = IF i <= n THEN x[i] ELSE s[i - n]
    BY <1>1, JoinIs
  <2>2. n > 0
    BY EmptySeq DEF Text
  <2>3. \A i \in 1..(n + 1) : ~(i <= n) => i - n = 1
    BY <2>1
  <2> QED
    BY <1>1, <2>1, <2>2, <2>3
<1> HIDE DEF y, n
<1>3. x[n] \notin Slashes
  BY <1>2 DEF n, Ends, Bare, Slashes
<1>4. \A i \in 1..n : y[i] = x[i] /\ i \in 1..(n + 1)
  BY <1>2
<1>5. y[n + 1] = "/"
  BY <1>2 DEF c
<1>6. Doubled(y) = {}
  <2> SUFFICES ASSUME NEW i \in Doubled(y) PROVE FALSE
    OBVIOUS
  <2>1. i \in 1..n /\ y[i] \in Slashes /\ y[i + 1] \in Slashes
    BY <1>2 DEF Doubled, Text
  <2>2. x[i] \in Slashes
    BY <1>4, <2>1
  <2>3. i < n /\ x[i + 1] \in Slashes
    BY <1>2, <1>3, <1>4, <2>1, <2>2
  <2>4. i \in Doubled(x)
    BY <2>1, <2>2, <2>3 DEF Doubled, Text, n
  <2> QED
    BY <2>4 DEF IsOrdinary
<1>7. Dotted(y) = {}
  <2> SUFFICES ASSUME NEW i \in Dotted(y) PROVE FALSE
    OBVIOUS
  <2>1. i \in 1..n /\ i + 2 <= n + 1 /\ y[i] \in Slashes /\ y[i + 1] = "." /\ y[i + 2] = "."
    BY <1>2 DEF Dotted, Text
  <2>2. i + 2 # n + 1
    BY <1>5, <2>1
  <2>3. i + 2 \in 1..n /\ i + 1 \in 1..n /\ i < n - 1
    BY <1>2, <2>1, <2>2
  <2>4. i \in Dotted(x)
    BY <1>4, <2>1, <2>3 DEF Dotted, Text, n
  <2> QED
    BY <2>4 DEF IsOrdinary
<1>8. Bare(y)
  <2> SUFFICES ASSUME NEW i \in 1..(n + 1) PROVE y[i] \notin {"\\", "%"}
    BY <1>2 DEF Bare
  <2>1. CASE i = n + 1
    BY <1>5, <2>1
  <2>2. CASE i # n + 1
    <3>1. i \in 1..n
      BY <1>2, <2>2
    <3> QED
      BY <1>4, <3>1 DEF Bare, n
  <2> QED
    BY <2>1, <2>2
<1>9. y # <<>> /\ Ends(y, {"/"})
  BY <1>2, <1>5 DEF Ends
<1>10. IsBase(y)
  BY <1>2, <1>6, <1>7, <1>8, <1>9 DEF IsBase, IsOrdinary
<1>11. y # Root
  <2> SUFFICES ASSUME y = Root PROVE FALSE
    OBVIOUS
  <2>1. Len(Root) = 1
    BY DEF Root
  <2>2. Len(y) = 1
    BY <2>1
  <2>3. Len(y) = n + 1 /\ n > 0 /\ n \in Nat
    BY <1>2
  <2>4. Len(y) # 1
    BY <2>3
  <2> QED
    BY <2>2, <2>4
<1>12. Stripped(y) \in Text /\ Stripped(y) \o s = y
  BY <1>10, <1>11, BaseStripped DEF s, c
<1>13. Stripped(y) = x
  <2> DEFINE z == Stripped(y)
  <2>1. z \in Seq(Symbol) /\ x \in Seq(Symbol) /\ s \in Seq(Symbol) /\ z \o s = x \o s
    BY <1>1, <1>12 DEF Text, y
  <2> HIDE DEF z
  <2>2. z = x
    BY <2>1, ConcatSimplifications!cancelRight
  <2> QED
    BY <2>2 DEF z
<1> QED
  BY <1>10, <1>13 DEF y, s, c

\* Of nothing there is nothing decoded.
LEMMA NothingDecoded == <<>> \in Text /\ UrlDecode(<<>>) = <<>>
<1> DEFINE s == <<>>
<1>1. s \in Text /\ Len(s) = 0
  BY DEF Text
<1>2. PICK f : IsDecoding(s, f)
  BY <1>1, DecodingIs
<1>3. f[Len(s) + 1] = <<>> /\ UrlDecode(s) = f[1]
  BY <1>2 DEF IsDecoding
<1> QED
  BY <1>1, <1>3

\* Nothing behind a text leaves it as it is.
LEMMA JoinNothing == ASSUME NEW s \in Text PROVE s \o <<>> = s
  BY ConcatEmptySeq DEF Text

\* Without a percent sign there is nothing to decode.
LEMMA BareDecoded ==
    ASSUME NEW u \in Text, \A i \in 1..Len(u) : u[i] # "%"
    PROVE  UrlDecode(u) = u
<1>1. UrlDecode(u \o <<>>) = u \o UrlDecode(<<>>)
  BY NothingDecoded, PlainlyDecoded
<1> QED
  BY <1>1, NothingDecoded, JoinNothing

\* The base of a directory leads to itself, and what is behind it is decoded
\* by itself.
LEMMA BaseDecoded ==
    ASSUME NEW u, IsBase(u)
    PROVE  /\ Clean(u) = u
           /\ \A t \in Text : UrlDecode(u \o t) = u \o UrlDecode(t)
<1>1. u \in Text /\ IsOrdinary(u)
  BY DEF IsBase
<1>2. \A i \in 1..Len(u) : u[i] # "%"
  BY DEF IsBase, Bare
<1> QED
  BY <1>1, <1>2, BareDecoded, PlainlyDecoded, NotRewritten DEF Clean

\* Where a link e of the directory u leads: to the file of its name, or to the
\* directory of its name with a slash behind.
Leads(t, u, e) ==
    LET x == u \o e.name
    IN Clean(e.href) = x \/ (Clean(e.href) = x \o <<"/">> /\ x \notin {Root, <<>>} /\ x \in DOMAIN t /\ t[x].dir = TRUE)

\* The text of a slash.
LEMMA SlashIs == <<"/">> \in Text /\ UrlDecode(<<"/">>) = <<"/">>
<1> DEFINE c == "/"
           s == <<c>>
<1>0. c \in Symbol /\ c # "%"
  BY DEF Symbol, Named
<1> HIDE DEF c
<1>1. s \in Text /\ \A i \in 1..Len(s) : s[i] # "%"
  BY <1>0 DEF Text
<1> HIDE DEF s
<1>2. UrlDecode(s) = s
  BY <1>1, BareDecoded
<1> QED
  BY <1>1, <1>2 DEF s, c

\* A file without a slash at the end is what stat tells.
LEMMA FileIs ==
    ASSUME PlainNames, FromAssets, AsMade, NEW x \in DOMAIN tree, x # Root, x # <<>>
    PROVE  Stripped(x) = x /\ StatOf(tree, x) = tree[x]
<1>1. x \in Text /\ ~Ends(x, {"/"})
  BY PlainPath
<1>2. x[Len(x)] # "/"
  BY <1>1 DEF Ends
<1>3. Stripped(x) = x
  BY <1>1, <1>2, NothingStripped
<1> QED
  BY <1>3 DEF StatOf

\* A directory with a slash behind it is the same directory.
LEMMA DirectoryIs ==
    ASSUME PlainNames, FromAssets, AsMade, NEW x \in DOMAIN tree, x # Root, x # <<>>, tree[x].dir = TRUE
    PROVE  IsBase(x \o <<"/">>) /\ StatOf(tree, x \o <<"/">>) = tree[x]
<1>1. x \in Text /\ ~Ends(x, {"/"}) /\ IsOrdinary(x) /\ Bare(x)
  BY PlainPath
<1> DEFINE y == x \o <<"/">>
<1>2. IsBase(y) /\ Stripped(y) = x
  BY <1>1, DirectoryBase
<1> HIDE DEF y
<1>3. StatOf(tree, y) = tree[x]
  BY <1>2 DEF StatOf
<1> QED
  BY <1>2, <1>3 DEF y

\* Where a link leads is the file that it is shown for.
LEMMA LeadsThere ==
    ASSUME PlainNames, FromAssets, AsMade, NEW u, IsBase(u), NEW e, Leads(tree, u, e)
    PROVE  StatOf(tree, Clean(e.href)) = StatOf(tree, InDir(Stripped(u), e.name))
<1> DEFINE x == u \o e.name
           y == x \o <<"/">>
<1>1. InDir(Stripped(u), e.name) = x
  BY InBase
<1>2. Clean(e.href) = x \/ (Clean(e.href) = y /\ x \notin {Root, <<>>} /\ x \in DOMAIN tree /\ tree[x].dir = TRUE)
  BY DEF Leads
<1> HIDE DEF x
<1>3. CASE x \notin {Root, <<>>} /\ x \in DOMAIN tree /\ tree[x].dir = TRUE
  <2>1. StatOf(tree, x) = tree[x] /\ StatOf(tree, y) = tree[x]
    BY <1>3, FileIs, DirectoryIs
  <2> QED
    BY <1>1, <1>2, <2>1
<1> QED
  BY <1>1, <1>2, <1>3

\* The links of a listing lead to the files of their names.
LEMMA ListingLinks ==
    ASSUME PlainNames, FromAssets, AsMade, NEW u, IsBase(u), NEW name \in Names(Stripped(u)),
           NEW f, f = StatOf(tree, u \o name), f.dir \in BOOLEAN, NEW e, e.name = name,
           e.href = u \o UrlEncode(name) \o (IF f.dir THEN <<"/">> ELSE <<>>)
    PROVE  e.href \in Text /\ Leads(tree, u, e)
<1> DEFINE x == u \o name
           c == UrlEncode(name)
           s == IF f.dir THEN <<"/">> ELSE <<>>
<1>1. name \in Text /\ x \in DOMAIN tree /\ x # Root /\ u \in Text /\ u # <<>>
  BY NameLeads DEF IsBase, Ends
<1>2. x \in Text /\ IsOrdinary(x)
  BY <1>1, PlainPath
<1>3. x # <<>>
  <2>1. Len(x) = Len(u) + Len(name) /\ Len(u) \in Nat /\ Len(name) \in Nat
    BY <1>1, JoinIs
  <2>2. Len(u) > 0
    BY <1>1, EmptySeq DEF Text
  <2>3. Len(x) # 0
    BY <2>1, <2>2
  <2> HIDE DEF x
  <2> QED
    BY <2>3
<1>4. f = tree[x]
  BY <1>1, <1>3, FileIs
<1>5. s \in Text /\ UrlDecode(s) = s
  BY SlashIs, NothingDecoded
<1>6. c \in Text /\ UrlDecode(c \o s) = name \o s
  <2> HIDE DEF s
  <2>1. c \in Text /\ UrlDecode(c \o s) = name \o UrlDecode(s)
    BY <1>1, <1>5, LinkTheorem
  <2> QED
    BY <1>5, <2>1
<1>7. e.href = u \o (c \o s) /\ c \o s \in Text
  <2>1. u \in Seq(Symbol) /\ c \in Seq(Symbol) /\ s \in Seq(Symbol)
    BY <1>1, <1>5, <1>6 DEF Text
  <2>2. e.href = (u \o c) \o s
    OBVIOUS
  <2> HIDE DEF c, s
  <2>3. c \o s \in Text
    BY <1>5, <1>6, JoinIs
  <2>4. (u \o c) \o s = u \o (c \o s)
    BY <2>1, ConcatAssociative
  <2> QED
    BY <2>2, <2>3, <2>4
<1>8. UrlDecode(e.href) = x \o s
  <2>1. UrlDecode(u \o (c \o s)) = u \o (name \o s)
    <3> DEFINE z == c \o s
    <3>1. z \in Text /\ UrlDecode(z) = name \o s
      BY <1>6, <1>7
    <3> HIDE DEF z
    <3>2. UrlDecode(u \o z) = u \o UrlDecode(z)
      BY <3>1, BaseDecoded
    <3> QED
      BY <3>1, <3>2 DEF z
  <2>2. u \in Seq(Symbol) /\ name \in Seq(Symbol) /\ s \in Seq(Symbol)
    BY <1>1, <1>5 DEF Text
  <2> HIDE DEF c, s
  <2>3. u \o (name \o s) = (u \o name) \o s
    BY <2>2, ConcatAssociative
  <2> QED
    BY <1>7, <2>1, <2>3 DEF x
<1>9. e.href \in Text
  <2> DEFINE z == c \o s
  <2>1. z \in Text /\ e.href = u \o z
    BY <1>7
  <2> HIDE DEF z
  <2> QED
    BY <1>1, <2>1, JoinIs
<1>10. CASE f.dir
  <2>1. f.dir = TRUE
    BY <1>10
  <2>2. tree[x].dir = TRUE /\ s = <<"/">>
    BY <1>4, <1>10, <2>1
  <2>3. IsBase(x \o <<"/">>)
    BY <1>1, <1>3, <2>2, DirectoryIs
  <2>4. Clean(e.href) = x \o <<"/">>
    BY <1>8, <2>2, <2>3, NotRewritten DEF Clean, IsBase
  <2> QED
    BY <1>1, <1>9, <2>2, <2>4 DEF Leads
<1>11. CASE ~f.dir
  <2>1. x \o s = x
    <3>1. s = <<>>
      BY <1>11
    <3> QED
      BY <1>2, <3>1, JoinNothing
  <2>2. Clean(e.href) = x
    BY <1>2, <1>8, <2>1, NotRewritten DEF Clean
  <2> QED
    BY <1>9, <2>2 DEF Leads
<1> QED
  BY <1>10, <1>11

\* So do those that PROPFIND prints.
LEMMA PropertyLinks ==
    ASSUME PlainNames, FromAssets, AsMade, NEW u, IsBase(u), NEW name \in Names(Stripped(u)),
           NEW e, e.name = name, e.href = UrlEncode(u \o name)
    PROVE  e.href \in Text /\ Leads(tree, u, e)
<1> DEFINE x == u \o name
<1>1. x \in DOMAIN tree /\ x # Root
  BY NameLeads
<1>2. x \in Text /\ IsOrdinary(x)
  BY <1>1, PlainPath
<1>3. e.href = UrlEncode(x)
  OBVIOUS
<1> HIDE DEF x
<1>4. UrlEncode(x) \in Text /\ UrlDecode(UrlEncode(x) \o <<>>) = x \o UrlDecode(<<>>)
  BY <1>2, NothingDecoded, LinkTheorem
<1>5. UrlDecode(UrlEncode(x)) = x
  BY <1>2, <1>4, NothingDecoded, JoinNothing
<1>6. Clean(e.href) = x
  BY <1>2, <1>3, <1>5, NotRewritten DEF Clean
<1> QED
  BY <1>3, <1>4, <1>6 DEF Leads, x

\* The directory itself, which PROPFIND prints first.
LEMMA ItselfLinks ==
    ASSUME NEW u, IsBase(u), NEW e, e.name = <<>>, e.href = u, NEW t
    PROVE  e.href \in Text /\ Leads(t, u, e)
<1>1. u \in Text /\ Clean(u) = u
  BY BaseDecoded DEF IsBase
<1>2. u \o <<>> = u
  BY <1>1, JoinNothing
<1> QED
  BY <1>1, <1>2 DEF Leads

\* What a directory has, and where a link leads, stays.
LEMMA LeadsStays ==
    ASSUME Grows
    PROVE  /\ \A d : Names(d) \subseteq Names(d)'
           /\ \A u, e : Leads(tree, u, e) => Leads(tree', u, e)
<1>1. DOMAIN tree \subseteq DOMAIN tree' /\ \A p \in DOMAIN tree : tree'[p].dir = tree[p].dir
  BY DEF Grows
<1>2. ASSUME NEW d PROVE Names(d) \subseteq Names(d)'
  BY <1>1 DEF Names
<1> QED
  BY <1>1, <1>2 DEF Leads

-----------------------------------------------------------------------------
(* What has been read of a directory.                                       *)

\* The names in the directory d.
NamesIn(t, d) ==
    {SubSeq(p, Len(InDir(d, <<>>)) + 1, Len(p)) :
       p \in {q \in DOMAIN t \ {Root} :
                /\ IsPrefix(InDir(d, <<>>), q)
                /\ Until(Rest(q, Len(InDir(d, <<>>))), {"/"}) = Len(q) - Len(InDir(d, <<>>))}}

\* They are what opendir finds.
LEMMA NamesAre == ASSUME NEW d PROVE Names(d) = NamesIn(tree, d)
  BY DEF Names, NamesIn

\* The entries that may be shown for the names of the directory u.
Entries(t, u, names) == {e \in [name : names \cup {<<>>}, file : FileType, href : Text] : Leads(t, u, e)}

\* The URI is the base of the directory.
IsListable(c) == c.path = Stripped(c.uri) /\ IsBase(c.uri)

\* A list shows each name that has been read.
Shows(list, names) == \A n \in names : ~MustHide(n) => \E i \in DOMAIN list : list[i].name = n

Ordered(list) == \A i, j \in DOMAIN list : i < j /\ list[j].file.dir => list[i].file.dir

Listed(t, c, list) ==
    /\ IsListable(c)
    /\ c.there \subseteq NamesIn(t, c.path) /\ c.unread \subseteq c.there
    /\ list \in Seq(Entries(t, c.uri, NamesIn(t, c.path)))
    /\ ~c.failed => Shows(list, c.there \ c.unread)

\* An entry of a list is such an entry.
LEMMA EntryIs ==
    ASSUME NEW t, NEW u, NEW names, NEW list \in Seq(Entries(t, u, names)), NEW i \in DOMAIN list
    PROVE  /\ list[i].name \in names \cup {<<>>} /\ list[i].file.dir \in BOOLEAN
           /\ Leads(t, u, list[i])
<1>1. list[i] \in Entries(t, u, names)
  OBVIOUS
<1> QED
  BY <1>1 DEF Entries, FileType

\* What has been read stays right while the files grow.
LEMMA ListedStays ==
    ASSUME Grows, NEW c, NEW list, Listed(tree, c, list)
    PROVE  Listed(tree', c, list)
<1> DEFINE N == NamesIn(tree, c.path)
           M == NamesIn(tree', c.path)
           E == Entries(tree, c.uri, N)
           F == Entries(tree', c.uri, M)
<1>1. DOMAIN tree \subseteq DOMAIN tree' /\ \A p \in DOMAIN tree : tree'[p].dir = tree[p].dir
  BY DEF Grows
<1>2. N \subseteq M
  BY <1>1 DEF NamesIn
<1> HIDE DEF N, M
<1>3. \A u, e : Leads(tree, u, e) => Leads(tree', u, e)
  BY <1>1 DEF Leads
<1>4. E \subseteq F
  BY <1>2, <1>3 DEF Entries
<1>5. list \in Seq(E)
  BY DEF Listed, N
<1> HIDE DEF E, F
<1>6. list \in Seq(F)
  BY <1>4, <1>5, SeqMonotonic
<1> QED
  BY <1>2, <1>6 DEF Listed, E, F, N, M

\* In the beginning nothing is read.
LEMMA ListedNothing ==
    ASSUME NEW t, NEW c, IsListable(c), c.there = NamesIn(t, c.path), c.unread = c.there
    PROVE  Listed(t, c, <<>>)
<1> DEFINE E == Entries(t, c.uri, NamesIn(t, c.path))
<1>1. <<>> \in Seq(E)
  BY EmptySeq
<1> HIDE DEF E
<1> QED
  BY <1>1 DEF Listed, Shows, E

\* One more name is read, and shown.
LEMMA ListedMore ==
    ASSUME NEW t, NEW c, NEW list, Listed(t, c, list), NEW name \in c.unread,
           NEW e \in Entries(t, c.uri, NamesIn(t, c.path)), e.name = name,
           NEW d, d.path = c.path, d.uri = c.uri, d.there = c.there,
           d.unread = c.unread \ {name}, d.failed = c.failed
    PROVE  Listed(t, d, Append(list, e))
<1> DEFINE E == Entries(t, c.uri, NamesIn(t, c.path))
           more == Append(list, e)
<1>1. list \in Seq(E) /\ e \in E
  BY DEF Listed
<1> HIDE DEF E
<1>2. /\ more \in Seq(E) /\ Len(more) = Len(list) + 1 /\ more[Len(list) + 1] = e /\ Len(list) \in Nat
      /\ \A i \in 1..Len(list) : more[i] = list[i]
  BY <1>1, AppendProperties
<1>3. DOMAIN list = 1..Len(list) /\ DOMAIN more = 1..(Len(list) + 1)
  BY <1>1, <1>2
<1> HIDE DEF more
<1>4. ASSUME ~d.failed, NEW n \in d.there \ d.unread, ~MustHide(n)
      PROVE  \E i \in DOMAIN more : more[i].name = n
  <2>1. CASE n = name
    <3>1. Len(list) + 1 \in DOMAIN more
      BY <1>2, <1>3
    <3> QED
      BY <1>2, <2>1, <3>1
  <2>2. CASE n # name
    <3>1. n \in c.there \ c.unread /\ ~c.failed
      BY <1>4, <2>2
    <3>2. PICK i \in DOMAIN list : list[i].name = n
      BY <1>4, <3>1 DEF Listed, Shows
    <3>3. i \in DOMAIN more /\ more[i] = list[i]
      BY <1>2, <1>3
    <3> QED
      BY <3>2, <3>3
  <2> QED
    BY <2>1, <2>2
<1>5. ~d.failed => Shows(more, d.there \ d.unread)
  BY <1>4 DEF Shows
<1>6. d.there \subseteq NamesIn(t, d.path) /\ d.unread \subseteq d.there /\ IsListable(d)
  BY DEF Listed, IsListable
<1> QED
  BY <1>2, <1>5, <1>6 DEF Listed, E, more

\* One more name is read, and hidden.
LEMMA ListedHidden ==
    ASSUME NEW t, NEW c, NEW list, Listed(t, c, list), NEW name \in c.unread, MustHide(name),
           NEW d, d.path = c.path, d.uri = c.uri, d.there = c.there,
           d.unread = c.unread \ {name}, d.failed = c.failed
    PROVE  Listed(t, d, list)
<1>1. ~d.failed => Shows(list, d.there \ d.unread)
  <2> SUFFICES ASSUME ~d.failed, NEW n \in d.there \ d.unread, ~MustHide(n)
               PROVE  \E i \in DOMAIN list : list[i].name = n
    BY DEF Shows
  <2>1. n \in c.there \ c.unread /\ ~c.failed
    OBVIOUS
  <2> QED
    BY <2>1 DEF Listed, Shows
<1> QED
  BY <1>1 DEF Listed, IsListable

\* The entries are lost.
LEMMA ListedLost ==
    ASSUME NEW t, NEW c, NEW list, Listed(t, c, list), NEW name,
           NEW d, d.path = c.path, d.uri = c.uri, d.there = c.there,
           d.unread = c.unread \ {name}, d.failed = TRUE
    PROVE  Listed(t, d, <<>>)
<1> DEFINE E == Entries(t, c.uri, NamesIn(t, c.path))
<1>1. <<>> \in Seq(E)
  BY EmptySeq
<1> HIDE DEF E
<1> QED
  BY <1>1 DEF Listed, IsListable, E

\* What qsort makes of the entries has each of them, directories first.
LEMMA SortedIs ==
    ASSUME NEW E, \A e \in E : e.file.dir \in BOOLEAN, NEW list \in Seq(E), NEW s \in Sorted(list)
    PROVE  /\ s \in Seq(E) /\ Ordered(s)
           /\ \A names : Shows(list, names) => Shows(s, names)
<1> DEFINE D == DOMAIN list
<1>1. PICK f \in Bijection(D, D) : s = [i \in D |-> list[f[i]]]
  BY DEF Sorted
<1>2. f \in [D -> D] /\ \A w \in D : \E v \in D : f[v] = w
  BY DEF Bijection, Surjection
<1>3. \A i, j \in D : i < j => ~CompareDirEntries(s[j], s[i])
  BY DEF Sorted
<1>4. D = 1..Len(list) /\ Len(list) \in Nat /\ \A i \in D : list[i] \in E
  OBVIOUS
<1> HIDE DEF D
<1>5. DOMAIN s = D /\ \A i \in D : s[i] = list[f[i]] /\ f[i] \in D /\ s[i] \in E
  BY <1>1, <1>2, <1>4
<1>6. s \in Seq(E)
  BY <1>1, <1>4, <1>5
<1>7. Ordered(s)
  <2> SUFFICES ASSUME NEW i \in D, NEW j \in D, i < j, s[j].file.dir PROVE s[i].file.dir
    BY <1>5 DEF Ordered
  <2>1. s[i].file.dir \in BOOLEAN
    BY <1>5
  <2> QED
    BY <1>3, <2>1 DEF CompareDirEntries
<1>8. ASSUME NEW names, Shows(list, names) PROVE Shows(s, names)
  <2> SUFFICES ASSUME NEW n \in names, ~MustHide(n) PROVE \E i \in DOMAIN s : s[i].name = n
    BY DEF Shows
  <2>1. PICK w \in D : list[w].name = n
    BY <1>8 DEF Shows, D
  <2>2. PICK v \in D : f[v] = w
    BY <1>2
  <2> QED
    BY <1>5, <2>1, <2>2
<1> QED
  BY <1>6, <1>7, <1>8

-----------------------------------------------------------------------------
(* The invariant of the listings.                                           *)

\* Before a directory is read nothing of it is known.
Early == pc \notin {"readdir", "done"} => conn.there = {} /\ conn.entries = <<>> /\ answer.status # 207

\* A directory that is found has a path without backslashes and percent signs.
Bases ==
    /\ pc \in {"stat gz", "decide"} => conn.path = conn.uri
    /\ pc = "decide" /\ IsDir(conn.file) => Bare(conn.uri)
    /\ pc \in {"index", "opendir"} => IsListable(conn)

Printed == pc = "done" /\ conn.there # {} /\ answer.status \in {200, 207}

\* What is shown, or will be, is what has been read.
Shown ==
    /\ pc = "readdir" => Listed(tree, conn, IF answer.status = 207 THEN answer.shown ELSE conn.entries)
    /\ Printed => /\ Listed(tree, conn, answer.shown) /\ conn.unread = {}
                  /\ answer.status = 200 => Ordered(answer.shown)

ListInv == FromAssets /\ Early /\ Bases /\ Shown

\* The files are those of the assets.
LEMMA FromNext == ASSUME Tree, Disk, FromAssets, [Next]_vars PROVE FromAssets'
<1>1. CASE DOMAIN tree' = DOMAIN tree
  BY <1>1 DEF FromAssets
<1>2. CASE Extract /\ Asset.path \notin DOMAIN tree
  <2> DEFINE new == [dir |-> Asset.dir, size |-> 0, mtime |-> clock]
  <2>1. tree' = WithFile(Asset.path, new) /\ todo # <<>>
    BY <1>2 DEF Extract
  <2> HIDE DEF new
  <2>2. DOMAIN tree' = DOMAIN tree \cup {Asset.path}
    BY <2>1 DEF WithFile
  <2>3. PICK k \in DOMAIN Assets : CopiedTo(k)
    BY <2>1 DEF Tree
  <2>4. Asset = Assets[k]
    BY <2>1, <2>3, AssetsLeft DEF CopiedTo
  <2> QED
    BY <2>2, <2>4 DEF FromAssets
<1>3. CASE Extract /\ Asset.path \in DOMAIN tree
  BY <1>1, <1>3 DEF Extract
<1>4. CASE CopyFile
  BY <1>1, <1>4 DEF CopyFile
<1>5. CASE StartCopy \/ WriteFails \/ Kill
  BY <1>1, <1>5 DEF StartCopy, WriteFails, Kill
<1>6. CASE ~Copy
  <2>1. UNCHANGED disk
    BY <1>6, OthersLeaveDisk
  <2> QED
    BY <1>1, <2>1 DEF disk
<1> QED
  BY <1>2, <1>3, <1>4, <1>5, <1>6 DEF Copy

\* What a directory is told of has neither backslashes nor percent signs.
LEMMA DirectoryIsBare ==
    ASSUME PlainNames, FromAssets, AsMade, NEW p \in Text, p # <<>>, IsDir(StatOf(tree, p))
    PROVE  Bare(p)
<1> DEFINE E == {n \in 1..Len(p) : \A i \in (n + 1)..Len(p) : p[i] = "/"}
           e == CHOOSE n \in E : \A m \in E : n <= m
           q == SubSeq(p, 1, e)
<1>1. Len(p) \in Nat /\ Len(p) > 0 /\ p \in Seq(Symbol)
  BY EmptySeq, LenProperties DEF Text
<1>2. Stripped(p) = q
  BY DEF Stripped
<1>3. Len(p) \in E /\ E \subseteq Nat
  BY <1>1
<1>4. e \in E
  <2> HIDE DEF E
  <2>1. \E n \in E : \A m \in E : n <= m
    BY <1>3, LeastNumber
  <2> QED
    BY <2>1
<1>5. e \in 1..Len(p) /\ \A i \in (e + 1)..Len(p) : p[i] = "/"
  <2> HIDE DEF e
  <2> QED
    BY <1>4
<1> HIDE DEF e, E
<1>6. Len(q) = e /\ \A i \in 1..e : q[i] = p[i]
  BY <1>1, <1>5, SubSeqProperties
<1> HIDE DEF q
<1>7. q \in DOMAIN tree /\ tree[q].dir = TRUE
  BY <1>2 DEF IsDir, StatOf, Missing
<1>8. Bare(q)
  <2>1. CASE q = Root
    BY <2>1 DEF Root, Bare
  <2>2. CASE q # Root
    BY <1>7, <2>2, PlainPath
  <2> QED
    BY <2>1, <2>2
<1>9. ASSUME NEW k \in 1..Len(p) PROVE p[k] \notin {"\\", "%"}
  <2>1. CASE k <= e
    <3>1. k \in 1..e
      BY <1>5, <2>1
    <3> QED
      BY <1>6, <1>8, <3>1 DEF Bare
  <2>2. CASE ~(k <= e)
    <3>1. k \in (e + 1)..Len(p)
      BY <1>1, <1>5, <2>2
    <3> QED
      BY <1>5, <3>1
  <2> QED
    BY <2>1, <2>2
<1> QED
  BY <1>9 DEF Bare

\* In the beginning.
LEMMA ListInit == ASSUME Init PROVE ListInv
<1> DEFINE root == [dir |-> TRUE, size |-> 0, mtime |-> clock]
<1>1. tree = [p \in {Root} |-> root] /\ pc = "idle" /\ conn = NoConn /\ answer = NoAnswer
  BY DEF Init
<1> HIDE DEF root
<1>2. FromAssets
  BY <1>1 DEF FromAssets
<1>3. conn.there = {} /\ conn.entries = <<>> /\ answer.status # 207
  BY <1>1 DEF NoConn, NoAnswer
<1> QED
  BY <1>1, <1>2, <1>3 DEF ListInv, Early, Bases, Shown, Printed

\* The files, the clock and the browser leave the worker to its listing.
LEMMA OthersList ==
    ASSUME ListInv, Grows, UNCHANGED server
    PROVE  Early' /\ Bases' /\ Shown'
<1>1. pc' = pc /\ conn' = conn /\ answer' = answer
  BY DEF server
<1>2. Early' /\ Bases'
  BY <1>1 DEF ListInv, Early, Bases
<1>3. \A list : Listed(tree, conn, list) => Listed(tree', conn, list)
  BY ListedStays
<1>4. Shown'
  BY <1>1, <1>3 DEF ListInv, Shown, Printed
<1> QED
  BY <1>2, <1>4

\* A worker on its way to a place where no directory is read.
LEMMA NoListing ==
    ASSUME pc' \notin {"stat gz", "decide", "index", "opendir", "readdir"},
           conn'.there = {}, conn'.entries = <<>>, answer'.status # 207
    PROVE  Early' /\ Bases' /\ Shown'
  BY DEF Early, Bases, Shown, Printed

\* A head without a body.
LEMMA ReplyList ==
    ASSUME ListInv, pc \notin {"readdir", "done"}, NEW status, NEW location, Reply(status, location)
    PROVE  Early' /\ Bases' /\ Shown'
  BY DEF Reply, ListInv, Early, Bases, Shown, Printed

\* A browser asks, or has got its answer.
LEMMA BrowserList ==
    ASSUME ReadInv, ListInv, Ask \/ GetAnswer \/ CloseConnection
    PROVE  Early' /\ Bases' /\ Shown'
<1>1. NoConn.there = {} /\ NoConn.entries = <<>> /\ NoAnswer.status # 207
  BY DEF NoConn, NoAnswer
<1>2. CASE Ask
  <2>1. pc = "idle" /\ pc' = "request" /\ conn' = conn /\ answer' = answer
    BY <1>2 DEF Ask, ReadInv
  <2> QED
    BY <2>1, NoListing DEF ListInv, Early
<1>3. CASE GetAnswer \/ CloseConnection
  <2>1. pc' \in {"idle", "request"} /\ conn' = NoConn /\ answer' = NoAnswer
    BY <1>3 DEF GetAnswer, CloseConnection
  <2> QED
    BY <1>1, <2>1, NoListing
<1> QED
  BY <1>2, <1>3

\* What the worker has read of the URI.
LEMMA UriIs ==
    ASSUME ReadInv, pc \notin {"idle", "request"}
    PROVE  /\ conn.uri \in Text /\ conn.uri # <<>> /\ IsOrdinary(conn.uri)
           /\ Last(conn.buffer) = "/" => Ends(conn.uri, Slashes)
<1>1. conn.uri = Clean(asked.uri) /\ conn.buffer = Buffer(asked.uri) /\ IsPath(asked.uri)
  BY DEF ReadInv, IsRead, IsRequest
<1>2. UrlDecode(asked.uri) \in Text
  BY <1>1, PathIsText, DecodedIsText DEF IsPath
<1>3. IsOrdinary(Clean(asked.uri))
  BY <1>2, PathTheorem DEF Clean, IsOrdinary
<1>4. Clean(asked.uri) \in Text /\ Clean(asked.uri) # <<>>
  BY <1>1, CleanIs, PathIsText
<1>5. Last(Buffer(asked.uri)) = "/" => Ends(Clean(asked.uri), Slashes)
  BY <1>1, BufferEnds
<1> QED
  BY <1>1, <1>3, <1>4, <1>5

\* A directory that was asked for with a slash behind it is the base of the
\* names in it.
LEMMA BaseFound ==
    ASSUME ReadInv, ListInv, pc = "decide", HasSlash, IsDir(conn.file)
    PROVE  conn.path = conn.uri /\ IsBase(conn.uri)
<1>1. conn.path = conn.uri /\ Bare(conn.uri)
  BY DEF ListInv, Bases
<1>2. /\ conn.uri \in Text /\ conn.uri # <<>> /\ IsOrdinary(conn.uri)
      /\ Last(conn.buffer) = "/" => Ends(conn.uri, Slashes)
  BY UriIs
<1>3. Ends(conn.uri, Slashes)
  BY <1>2 DEF HasSlash, IsDir
<1>4. Ends(conn.uri, {"/"})
  <2>1. Len(conn.uri) \in 1..Len(conn.uri)
    BY <1>2, EmptySeq DEF Text
  <2> QED
    BY <1>1, <1>3, <2>1 DEF Ends, Bare, Slashes
<1> QED
  BY <1>1, <1>2, <1>4 DEF IsBase

\* The worker reads a request.
LEMMA ReadRequestList ==
    ASSUME PlainNames, ReadInv, Tree, ListInv, ReadRequest
    PROVE  Early' /\ Bases' /\ Shown'
<1> DEFINE m == ParseMessage(Message(asked), MaxHeaders)
           raw == SubSeq(m.uri, 1, Until(m.uri, {"?"}))
           decoded == UrlDecode(raw)
           clean == RemoveDoubleDots(decoded)
           c == [NoConn EXCEPT !.method = m.method, !.headers = m.headers, !.uri = clean,
                              !.path = clean, !.file = Stat(clean),
                              !.buffer = Overwrite(Overwrite(raw, decoded), clean)]
<1>1. /\ conn' = c /\ pc' \in {"stat gz", "decide"} /\ answer' = answer /\ asked' = asked
      /\ pc = "request" /\ tree' = tree
  <2>1. \E place \in {"stat gz", "decide"} : Go(place, c)
    BY DEF ReadRequest
  <2> HIDE DEF c
  <2> QED
    BY <2>1 DEF Go, user, disk, ReadRequest
<1>2. c.uri = clean /\ c.path = clean /\ c.file = Stat(clean) /\ c.there = {} /\ c.entries = <<>>
  BY DEF NoConn
<1>3. answer.status # 207 /\ IsRequest(asked)
  BY <1>1 DEF ListInv, Early, ReadInv
<1>4. clean \in Text /\ clean # <<>>
  <2>1. MaxHeaders \in Nat
    BY FileAssumption
  <2>2. m.uri = asked.uri
    BY <1>3, <2>1, ParsedAsSent
  <2> HIDE DEF m
  <2>3. IsPath(asked.uri)
    BY <1>3 DEF IsRequest
  <2>4. raw = asked.uri
    BY <2>2, <2>3, CleanIs
  <2>5. clean = Clean(asked.uri)
    BY <2>3, <2>4, CleanIs
  <2> HIDE DEF clean
  <2> QED
    BY <2>3, <2>5, CleanIs, PathIsText
<1> HIDE DEF c, clean, decoded, raw, m
<1>5. IsDir(c.file) => Bare(clean)
  <2>1. c.file = StatOf(tree, clean)
    BY <1>2 DEF Stat, StatOf
  <2> QED
    BY <1>4, <2>1, DirectoryIsBare DEF Tree, ListInv
<1> QED
  BY <1>1, <1>2, <1>3, <1>5 DEF Early, Bases, Shown, Printed

\* The file is looked for packed.
LEMMA ConvertGzList ==
    ASSUME PlainNames, ReadInv, Tree, ListInv, ConvertGz
    PROVE  Early' /\ Bases' /\ Shown'
<1> DEFINE gz == ".gz"
           p == Append(conn.path, gz)
           f == Stat(p)
           c == [conn EXCEPT !.file = f, !.gzipped = Exists(f)]
<1>1. pc = "stat gz" /\ pc' = "decide" /\ conn' = c /\ answer' = answer
  BY DEF ConvertGz, Go
<1>2. c.file = f /\ c.uri = conn.uri /\ c.path = conn.path /\ c.there = conn.there /\ c.entries = conn.entries
  <2> HIDE DEF f
  <2> QED
    BY DEF ReadInv, ConnFields, NoConn
<1>3. conn.path = conn.uri /\ conn.there = {} /\ conn.entries = <<>> /\ answer.status # 207
  BY <1>1 DEF ListInv, Bases, Early
<1>4. conn.uri \in Text
  BY <1>1, UriIs
<1>5. gz \in Symbol
  BY DEF Symbol, Named
<1> HIDE DEF gz, c
<1>6. /\ p \in Text /\ p # <<>> /\ Len(p) = Len(conn.uri) + 1 /\ Len(conn.uri) \in Nat
      /\ \A i \in 1..Len(conn.uri) : p[i] = conn.uri[i]
  BY <1>3, <1>4, <1>5, AppendProperties DEF Text
<1> HIDE DEF p
<1>7. f = StatOf(tree, p)
  BY DEF Stat, StatOf
<1> HIDE DEF f
<1>8. IsDir(f) => Bare(conn.uri)
  <2> SUFFICES ASSUME IsDir(f) PROVE Bare(conn.uri)
    OBVIOUS
  <2>1. Bare(p)
    BY <1>6, <1>7, DirectoryIsBare DEF Tree, ListInv
  <2>2. \A i \in 1..Len(conn.uri) : i \in 1..Len(p)
    BY <1>6
  <2> QED
    BY <1>6, <2>1, <2>2 DEF Bare
<1> QED
  BY <1>1, <1>2, <1>3, <1>8 DEF Early, Bases, Shown, Printed

\* The request is decided.
LEMMA DecideList ==
    ASSUME ReadInv, WholeInv, ListInv, Decide
    PROVE  Early' /\ Bases' /\ Shown'
<1>1. pc = "decide"
  BY DEF Decide, SendOptions, SendAuthorizationRequest, NotFound, Redirect, OpenDirectory, OpenFile, Served
<1>2. CASE SendOptions \/ SendAuthorizationRequest \/ NotFound \/ Redirect
  BY <1>1, <1>2, ReplyList DEF SendOptions, SendAuthorizationRequest, NotFound, Redirect
<1>3. conn.there = {} /\ conn.entries = <<>> /\ answer.status # 207
  BY <1>1 DEF ListInv, Early
<1>4. CASE OpenDirectory
  <2> DEFINE c == [conn EXCEPT !.path = Stripped(@), !.index = 1]
  <2>1. pc' = "index" /\ conn' = c /\ answer' = answer /\ HasSlash /\ conn.file.dir
    BY <1>4 DEF OpenDirectory, Go
  <2>2. c.path = Stripped(conn.path) /\ c.uri = conn.uri /\ c.there = conn.there /\ c.entries = conn.entries
    BY DEF ReadInv, ConnFields, NoConn
  <2> HIDE DEF c
  <2>3. IsDir(conn.file)
    BY <2>1 DEF IsDir, WholeInv, Worker, FileType
  <2>4. conn.path = conn.uri /\ IsBase(conn.uri)
    BY <1>1, <2>1, <2>3, BaseFound
  <2>5. IsListable(c)
    BY <2>2, <2>4 DEF IsListable
  <2> QED
    BY <1>3, <2>1, <2>2, <2>5 DEF Early, Bases, Shown, Printed
<1>5. CASE OpenFile
  <2>1. pc' = "file" /\ conn' = conn /\ answer' = answer
    BY <1>5 DEF OpenFile, Go
  <2> QED
    BY <1>3, <2>1, NoListing
<1> QED
  BY <1>2, <1>4, <1>5 DEF Decide

\* Index files, and the pieces of a file.
LEMMA FileList ==
    ASSUME ReadInv, ListInv, File
    PROVE  Early' /\ Bases' /\ Shown'
<1>1. DOMAIN conn = ConnFields /\ DOMAIN answer = AnswerFields
  BY DEF ReadInv
<1>2. pc \notin {"readdir", "done"}
  BY DEF File, SubstituteIndexFile, SendFileData, CloseFile
<1>3. conn.there = {} /\ conn.entries = <<>> /\ answer.status # 207
  BY <1>2 DEF ListInv, Early
<1>4. CASE SubstituteIndexFile
  <2> DEFINE p == InDir(conn.path, IndexFiles[conn.index])
             f == Stat(p)
             c == [conn EXCEPT !.path = p, !.file = f, !.gzipped = FALSE]
             d == [conn EXCEPT !.index = @ + 1]
  <2>1. /\ pc = "index" /\ answer' = answer
        /\ \/ pc' = "opendir" /\ conn' = conn
           \/ pc' = "file" /\ conn' = c
           \/ pc' = "index" /\ conn' = d
    BY <1>4 DEF SubstituteIndexFile, Go
  <2>2. c.there = conn.there /\ c.entries = conn.entries
    <3> HIDE DEF p, f
    <3> QED
      BY <1>1 DEF ConnFields, NoConn
  <2>3. d.path = conn.path /\ d.uri = conn.uri /\ d.there = conn.there /\ d.entries = conn.entries
    BY <1>1 DEF ConnFields, NoConn
  <2> HIDE DEF c, d
  <2>4. IsListable(conn)
    BY <2>1 DEF ListInv, Bases
  <2>5. IsListable(d)
    BY <2>3, <2>4 DEF IsListable
  <2> QED
    BY <1>3, <2>1, <2>2, <2>3, <2>4, <2>5 DEF Early, Bases, Shown, Printed
<1>5. CASE SendFileData
  <2>1. /\ pc' \in {"send", "close"}
        /\ \E n : \/ conn' = conn /\ answer' = answer
                  \/ /\ conn' = [conn EXCEPT !.left = @ - n, !.offset = @ + n]
                     /\ answer' = [answer EXCEPT !.body = @ + n]
    BY <1>5 DEF SendFileData
  <2>2. conn'.there = conn.there /\ conn'.entries = conn.entries
    BY <1>1, <2>1 DEF ConnFields, NoConn
  <2>3. answer'.status = answer.status
    BY <1>1, <2>1 DEF AnswerFields, NoAnswer
  <2> QED
    BY <1>3, <2>1, <2>2, <2>3, NoListing
<1>6. CASE CloseFile
  <2> DEFINE c == [conn EXCEPT !.fp = FALSE]
  <2>1. pc' = "done" /\ conn' = c /\ answer' = answer
    BY <1>6 DEF CloseFile, Go
  <2>2. c.there = conn.there /\ c.entries = conn.entries
    BY <1>1 DEF ConnFields, NoConn
  <2> HIDE DEF c
  <2> QED
    BY <1>3, <2>1, <2>2, NoListing
<1> QED
  BY <1>4, <1>5, <1>6 DEF File

\* The head of a file.
LEMMA SendHeadList ==
    ASSUME ReadInv, ListInv, SendHead
    PROVE  Early' /\ Bases' /\ Shown'
<1> DEFINE range == IF Header(conn.headers, "Range") = None THEN <<>> ELSE asked.range
           n == Announced(range)
           status == IF range = <<>> THEN 200 ELSE 206
           offset == IF range = <<>> THEN 0 ELSE Least(range[1], conn.file.size)
           head == [NoAnswer EXCEPT !.status = status, !.announced = n, !.name = conn.path, !.file = conn.file]
           c == [conn EXCEPT !.fp = TRUE, !.left = n, !.offset = offset]
<1>1. /\ pc = "file"
      /\ Reply(501, <<>>) \/ (answer' = head /\ conn' = c /\ pc' \in {"send", "close"})
  BY DEF SendHead
<1>2. CASE Reply(501, <<>>)
  BY <1>1, <1>2, ReplyList
<1>3. CASE ~Reply(501, <<>>)
  <2>1. conn.there = {} /\ conn.entries = <<>>
    BY <1>1 DEF ListInv, Early
  <2>2. status # 207
    OBVIOUS
  <2> HIDE DEF status, n, offset
  <2>3. head.status # 207
    BY <2>2 DEF NoAnswer
  <2>4. c.there = conn.there /\ c.entries = conn.entries
    BY DEF ReadInv, ConnFields, NoConn
  <2> HIDE DEF head, c
  <2> QED
    BY <1>1, <1>3, <2>1, <2>3, <2>4, NoListing
<1> QED
  BY <1>2, <1>3

\* A directory is opened for PROPFIND.
LEMMA PropfindList ==
    ASSUME ReadInv, WholeInv, ListInv, Propfind
    PROVE  Early' /\ Bases' /\ Shown'
<1> DEFINE first == [href |-> conn.uri, name |-> <<>>, file |-> conn.file]
           a == [NoAnswer EXCEPT !.status = 207, !.shown = <<first>>]
           names == Names(Stripped(conn.path))
           c == [conn EXCEPT !.path = Stripped(@), !.dir = TRUE, !.there = names, !.unread = names]
<1>1. pc = "decide" /\ answer' = a /\ HasSlash /\ tree' = tree
  BY DEF Propfind, Served, disk
<1>2. \/ pc' = "readdir" /\ conn' = c /\ conn.file.dir
      \/ pc' = "done" /\ conn' = conn
  BY DEF Propfind
<1>3. first.href = conn.uri /\ first.name = <<>> /\ first.file = conn.file
      /\ first \in [name : {<<>>}, file : {conn.file}, href : {conn.uri}]
  OBVIOUS
<1> DEFINE l == <<first>>
<1> HIDE DEF first
<1>4. a.status = 207 /\ a.shown = l
  <2>1. a = [NoAnswer EXCEPT !.status = 207, !.shown = l]
    OBVIOUS
  <2> HIDE DEF l
  <2> QED
    BY <2>1 DEF NoAnswer
<1> HIDE DEF a
<1>5. CASE pc' = "done" /\ conn' = conn
  <2>1. conn.there = {}
    BY <1>1 DEF ListInv, Early
  <2> QED
    BY <1>5, <2>1 DEF Early, Bases, Shown, Printed
<1>6. CASE pc' = "readdir" /\ conn' = c /\ conn.file.dir
  <2> HIDE DEF names
  <2>1. c.path = Stripped(conn.path) /\ c.uri = conn.uri /\ c.there = names /\ c.unread = names /\ c.failed = conn.failed
    BY DEF ReadInv, ConnFields, NoConn
  <2> HIDE DEF c
  <2>2. IsDir(conn.file) /\ conn.file \in FileType
    BY <1>6 DEF IsDir, WholeInv, Worker, FileType
  <2>3. conn.path = conn.uri /\ IsBase(conn.uri)
    BY <1>1, <2>2, BaseFound
  <2>4. IsListable(c) /\ names = NamesIn(tree, c.path)
    BY <2>1, <2>3, NamesAre DEF IsListable, names
  <2> DEFINE N == NamesIn(tree, c.path)
             E == Entries(tree, c.uri, N)
  <2>5. first.href \in Text /\ Leads(tree, c.uri, first)
    BY <1>3, <2>1, <2>3, ItselfLinks
  <2>6. first \in E
    <3> HIDE DEF N
    <3>1. first \in [name : N \cup {<<>>}, file : FileType, href : Text]
      BY <1>3, <2>2, <2>5
    <3> QED
      BY <2>5, <3>1 DEF Entries
  <2>7. l \in Seq(E)
    <3> HIDE DEF E
    <3> QED
      BY <2>6
  <2>8. Listed(tree, c, l)
    <3> HIDE DEF l
    <3> QED
      BY <2>1, <2>4, <2>7 DEF Listed, Shows
  <2> QED
    BY <1>1, <1>4, <1>6, <2>8 DEF Early, Bases, Shown, Printed
<1> QED
  BY <1>2, <1>5, <1>6

\* A directory is opened for a listing.
LEMMA OpenDirList ==
    ASSUME ReadInv, ListInv, OpenDir \/ OpenDirFails
    PROVE  Early' /\ Bases' /\ Shown'
<1>1. CASE OpenDirFails
  BY <1>1, ReplyList DEF OpenDirFails
<1>2. CASE OpenDir
  <2> DEFINE names == Names(conn.path)
             c == [conn EXCEPT !.dir = TRUE, !.there = names, !.unread = names, !.arr = ArrSize]
  <2>1. pc = "opendir" /\ pc' = "readdir" /\ conn' = c /\ answer' = answer /\ tree' = tree
    BY <1>2 DEF OpenDir, Go, disk
  <2>2. names = NamesIn(tree, conn.path)
    BY NamesAre
  <2> HIDE DEF names
  <2>3. /\ c.path = conn.path /\ c.uri = conn.uri /\ c.there = names /\ c.unread = names
        /\ c.entries = conn.entries
    BY DEF ReadInv, ConnFields, NoConn
  <2> HIDE DEF c
  <2>4. IsListable(conn) /\ conn.entries = <<>> /\ answer.status # 207
    BY <2>1 DEF ListInv, Bases, Early
  <2>5. IsListable(c)
    BY <2>3, <2>4 DEF IsListable
  <2>6. Listed(tree, c, <<>>)
    BY <2>2, <2>3, <2>5, ListedNothing
  <2> QED
    BY <2>1, <2>3, <2>4, <2>6 DEF Early, Bases, Shown, Printed
<1> QED
  BY <1>1, <1>2

\* What the callback makes of a name: one entry more, or none at all.
LEMMA ScanIs ==
    ASSUME NEW c, DOMAIN c = ConnFields, NEW e, NEW mem \in BOOLEAN
    PROVE  LET d == DirScanCallback(c, e, mem)
           IN /\ d.path = c.path /\ d.uri = c.uri /\ d.there = c.there /\ d.unread = c.unread
              /\ \/ d.entries = Append(c.entries, e) /\ d.failed = c.failed
                 \/ d.entries = <<>> /\ d.failed = TRUE
<1> DEFINE d == DirScanCallback(c, e, mem)
           full == c.entries = <<>> \/ Len(c.entries) >= c.arr
<1>1. CASE full /\ mem
  BY <1>1 DEF DirScanCallback, ConnFields, NoConn
<1>2. CASE full /\ ~mem
  BY <1>2 DEF DirScanCallback, ConnFields, NoConn
<1>3. CASE ~full
  BY <1>3 DEF DirScanCallback, ConnFields, NoConn
<1> QED
  BY <1>1, <1>2, <1>3

\* The entry of a name is one that may be shown.
LEMMA EntryMade ==
    ASSUME PlainNames, Disk, Tree, FromAssets, NEW c, NEW list, Listed(tree, c, list), NEW name \in c.unread,
           NEW e, e.name = name, e.file = Stat(InDir(c.path, name)),
           \/ e.href = c.uri \o UrlEncode(name) \o (IF e.file.dir THEN <<"/">> ELSE <<>>)
           \/ e.href = UrlEncode(c.uri \o name),
           e = [name |-> e.name, file |-> e.file, href |-> e.href]
    PROVE  e \in Entries(tree, c.uri, NamesIn(tree, c.path))
<1> DEFINE N == NamesIn(tree, c.path)
           u == c.uri
<1>1. c.path = Stripped(u) /\ IsBase(u) /\ name \in N
  BY DEF Listed, IsListable
<1>2. N = Names(Stripped(u))
  BY <1>1, NamesAre
<1>3. InDir(c.path, name) = u \o name
  BY <1>1, InBase
<1>4. e.file = StatOf(tree, u \o name)
  BY <1>3 DEF Stat, StatOf
<1>5. e.file \in FileType /\ e.file.dir \in BOOLEAN
  <2>1. e.file \in FileType
    BY StatNow
  <2> QED
    BY <2>1 DEF FileType
<1> HIDE DEF N, u
<1>6. AsMade
  BY DEF Tree
<1>7. e.href \in Text /\ Leads(tree, u, e)
  <2>1. CASE e.href = c.uri \o UrlEncode(name) \o (IF e.file.dir THEN <<"/">> ELSE <<>>)
    <3> DEFINE f == e.file
    <3>1. /\ f = StatOf(tree, u \o name) /\ f.dir \in BOOLEAN
          /\ e.href = u \o UrlEncode(name) \o (IF f.dir THEN <<"/">> ELSE <<>>)
      BY <1>4, <1>5, <2>1 DEF u
    <3> HIDE DEF f
    <3> QED
      BY <1>1, <1>2, <1>6, <3>1, ListingLinks
  <2>2. CASE e.href = UrlEncode(c.uri \o name)
    <3>1. e.href = UrlEncode(u \o name)
      BY <2>2 DEF u
    <3> QED
      BY <1>1, <1>2, <1>6, <3>1, PropertyLinks
  <2> QED
    BY <2>1, <2>2
<1>8. e \in [name : N \cup {<<>>}, file : FileType, href : Text]
  BY <1>1, <1>5, <1>7
<1> QED
  BY <1>7, <1>8 DEF Entries, N, u

\* One name is read.
LEMMA ReadDirList ==
    ASSUME PlainNames, ReadInv, Disk, Tree, ListInv, ReadDir
    PROVE  Early' /\ Bases' /\ Shown'
<1> DEFINE list == IF answer.status = 207 THEN answer.shown ELSE conn.entries
           read(name) == [conn EXCEPT !.unread = @ \ {name}]
           f(name) == Stat(InDir(read(name).path, name))
           e(name) == [name |-> name, file |-> f(name),
                       href |-> IF IsListing
                                THEN read(name).uri \o UrlEncode(name) \o (IF f(name).dir THEN <<"/">> ELSE <<>>)
                                ELSE UrlEncode(read(name).uri \o name)]
<1>1. pc = "readdir" /\ pc' = "readdir" /\ tree' = tree
  BY DEF ReadDir, disk
<1>2. PICK name \in conn.unread, mem \in BOOLEAN :
        /\ conn' = IF MustHide(name) \/ ~IsListing THEN read(name) ELSE DirScanCallback(read(name), e(name), mem)
        /\ answer' = IF MustHide(name) \/ IsListing THEN answer ELSE [answer EXCEPT !.shown = Append(@, e(name))]
  BY DEF ReadDir
<1> DEFINE c == read(name)
           x == e(name)
<1>3. /\ DOMAIN c = ConnFields /\ c.path = conn.path /\ c.uri = conn.uri /\ c.there = conn.there
      /\ c.unread = conn.unread \ {name} /\ c.failed = conn.failed /\ c.entries = conn.entries
  BY DEF ReadInv, ConnFields, NoConn
<1>4. Listed(tree, conn, list)
  BY <1>1 DEF ListInv, Shown
<1>5. x \in Entries(tree, conn.uri, NamesIn(tree, conn.path)) /\ x.name = name
  <2>1. /\ x.name = name /\ x.file = Stat(InDir(c.path, name))
        /\ \/ x.href = c.uri \o UrlEncode(name) \o (IF x.file.dir THEN <<"/">> ELSE <<>>)
           \/ x.href = UrlEncode(c.uri \o name)
        /\ x = [name |-> x.name, file |-> x.file, href |-> x.href]
    <3> DEFINE g == f(name)
               one == c.uri \o UrlEncode(name) \o (IF g.dir THEN <<"/">> ELSE <<>>)
               two == UrlEncode(c.uri \o name)
               h == IF IsListing THEN one ELSE two
    <3>1. x = [name |-> name, file |-> g, href |-> h] /\ g = Stat(InDir(c.path, name))
      OBVIOUS
    <3>2. h = one \/ h = two
      OBVIOUS
    <3> HIDE DEF c, x, g, h, f
    <3>3. x.name = name /\ x.file = g /\ x.href = h
      BY <3>1
    <3> QED
      BY <3>1, <3>2, <3>3
  <2> HIDE DEF x, c, list
  <2>2. FromAssets
    BY DEF ListInv
  <2> QED
    BY <1>3, <1>4, <2>1, <2>2, EntryMade
<1>6. /\ conn' = IF MustHide(name) \/ ~IsListing THEN c ELSE DirScanCallback(c, x, mem)
      /\ answer' = IF MustHide(name) \/ IsListing THEN answer ELSE [answer EXCEPT !.shown = Append(@, x)]
  BY <1>2
<1> HIDE DEF c, x
<1>7. pc' = "readdir" /\ Listed(tree', conn', IF answer'.status = 207 THEN answer'.shown ELSE conn'.entries)
  <2>1. CASE MustHide(name)
    <3>1. conn' = c /\ answer' = answer
      BY <1>6, <2>1
    <3>2. Listed(tree, c, list)
      <4> HIDE DEF list
      <4> QED
        BY <1>3, <1>4, <2>1, ListedHidden
    <3>3. list = IF answer'.status = 207 THEN answer'.shown ELSE conn'.entries
      BY <1>3, <3>1
    <3> QED
      BY <1>1, <3>1, <3>2, <3>3
  <2>2. CASE ~MustHide(name) /\ IsListing
    <3>1. conn' = DirScanCallback(c, x, mem) /\ answer' = answer
      BY <1>6, <2>2
    <3>2. answer'.status # 207 /\ list = conn.entries
      BY <2>2, <3>1 DEF IsListing
    <3>3. /\ conn'.path = c.path /\ conn'.uri = c.uri /\ conn'.there = c.there /\ conn'.unread = c.unread
          /\ \/ conn'.entries = Append(c.entries, x) /\ conn'.failed = c.failed
             \/ conn'.entries = <<>> /\ conn'.failed = TRUE
      BY <1>3, <3>1, ScanIs
    <3> HIDE DEF list
    <3> DEFINE d == conn'
    <3>4. /\ d.path = conn.path /\ d.uri = conn.uri /\ d.there = conn.there /\ d.unread = conn.unread \ {name}
          /\ \/ d.entries = Append(list, x) /\ d.failed = conn.failed
             \/ d.entries = <<>> /\ d.failed = TRUE
      BY <1>3, <3>2, <3>3
    <3> HIDE DEF d
    <3>5. Listed(tree, d, d.entries)
      <4>1. CASE d.entries = Append(list, x) /\ d.failed = conn.failed
        BY <1>4, <1>5, <3>4, <4>1, ListedMore
      <4>2. CASE d.entries = <<>> /\ d.failed = TRUE
        BY <1>4, <3>4, <4>2, ListedLost
      <4> QED
        BY <3>4, <4>1, <4>2
    <3> QED
      BY <1>1, <3>2, <3>5 DEF d
  <2>3. CASE ~MustHide(name) /\ ~IsListing
    <3>1. conn' = c /\ answer' = [answer EXCEPT !.shown = Append(@, x)]
      BY <1>6, <2>3
    <3>2. answer'.status = answer.status /\ answer'.shown = Append(answer.shown, x)
      BY <3>1 DEF ReadInv, AnswerFields, NoAnswer
    <3>3. answer'.status = 207 /\ answer'.shown = Append(list, x)
      BY <2>3, <3>2 DEF IsListing
    <3> HIDE DEF list
    <3>4. Listed(tree, c, Append(list, x))
      BY <1>3, <1>4, <1>5, ListedMore
    <3> QED
      BY <1>1, <3>1, <3>3, <3>4
  <2> QED
    BY <2>1, <2>2, <2>3
<1> QED
  BY <1>7 DEF Early, Bases, Shown, Printed

\* The entries are printed.
LEMMA PrintDirectoryList ==
    ASSUME ReadInv, ListInv, PrintDirectory
    PROVE  Early' /\ Bases' /\ Shown'
<1> DEFINE c == [conn EXCEPT !.dir = FALSE, !.entries = <<>>]
           a(s) == [NoAnswer EXCEPT !.status = 200, !.shown = s]
           E == Entries(tree, conn.uri, NamesIn(tree, conn.path))
<1>1. /\ pc = "readdir" /\ conn.unread = {} /\ pc' = "done" /\ conn' = c /\ tree' = tree
      /\ \/ IsListing /\ \E s \in Sorted(conn.entries) : answer' = a(s)
         \/ ~IsListing /\ answer' = answer
  BY DEF PrintDirectory, disk
<1>2. /\ c.path = conn.path /\ c.uri = conn.uri /\ c.there = conn.there /\ c.unread = conn.unread
      /\ c.failed = conn.failed
  BY DEF ReadInv, ConnFields, NoConn
<1> HIDE DEF c
<1>3. ASSUME NEW l, Listed(tree, conn, l) PROVE Listed(tree, c, l)
  BY <1>2, <1>3 DEF Listed, IsListable
<1>4. CASE IsListing /\ \E s \in Sorted(conn.entries) : answer' = a(s)
  <2>1. PICK s \in Sorted(conn.entries) : answer' = a(s)
    BY <1>4
  <2>2. a(s).status = 200 /\ a(s).shown = s
    BY DEF NoAnswer
  <2> HIDE DEF a
  <2>3. Listed(tree, conn, conn.entries)
    BY <1>1, <1>4 DEF ListInv, Shown, IsListing
  <2>4. conn.entries \in Seq(E)
    BY <2>3 DEF Listed
  <2>5. \A e \in E : e.file.dir \in BOOLEAN
    BY DEF Entries, FileType
  <2> HIDE DEF E
  <2> DEFINE l == conn.entries
  <2>6. s \in Seq(E) /\ Ordered(s) /\ \A names : Shows(l, names) => Shows(s, names)
    <3>1. l \in Seq(E) /\ s \in Sorted(l)
      BY <2>4
    <3> HIDE DEF l
    <3> QED
      BY <2>5, <3>1, SortedIs
  <2>7. Listed(tree, conn, s)
    BY <2>3, <2>6 DEF Listed, E
  <2>8. Listed(tree, c, s)
    BY <1>3, <2>7
  <2> QED
    BY <1>1, <1>2, <2>1, <2>2, <2>6, <2>8 DEF Early, Bases, Shown, Printed
<1>5. CASE ~IsListing /\ answer' = answer
  <2>1. Listed(tree, conn, answer.shown)
    BY <1>1, <1>5 DEF ListInv, Shown, IsListing
  <2>2. Listed(tree, c, answer.shown) /\ answer'.status # 200
    BY <1>3, <1>5, <2>1 DEF IsListing
  <2> QED
    BY <1>1, <1>2, <1>5, <2>2 DEF Early, Bases, Shown, Printed
<1> QED
  BY <1>1, <1>4, <1>5

\* Every step keeps the listings right.
LEMMA ListNext ==
    ASSUME PlainNames, ReadInv, WholeInv, CopyInv, ListInv, [Next]_vars
    PROVE  ListInv'
<1>1. Disk /\ Tree /\ FromAssets /\ Grows
  BY DiskNext DEF WholeInv, CopyInv, ListInv
<1>2. FromAssets'
  BY <1>1, FromNext
<1>3. CASE Tick \/ Copy \/ Leave \/ UNCHANGED vars
  <2>1. UNCHANGED server
    BY <1>3 DEF Tick, Copy, StartCopy, Extract, CopyFile, WriteFails, Kill, Leave, vars, server
  <2> QED
    BY <1>1, <1>2, <2>1, OthersList DEF ListInv
<1>4. CASE Ask \/ GetAnswer \/ CloseConnection \/ ReadRequest \/ ConvertGz \/ Decide
  BY <1>1, <1>2, <1>4, BrowserList, ReadRequestList, ConvertGzList, DecideList DEF ListInv
<1>5. CASE File \/ SendHead
  BY <1>2, <1>5, FileList, SendHeadList DEF ListInv
<1>6. CASE NotModified \/ FopenFails
  BY <1>2, <1>6, ReplyList DEF NotModified, FopenFails, ListInv
<1>7. CASE Directory
  BY <1>1, <1>2, <1>7, PropfindList, OpenDirList, ReadDirList, PrintDirectoryList DEF Directory, ListInv
<1> QED
  BY <1>3, <1>4, <1>5, <1>6, <1>7 DEF Next, Browser, Work, Serve

\* If no name in the assets misleads, a listing and the properties of a
\* directory show what was there, with links that lead to it.
THEOREM ListingIsWholeTheorem ==
    ASSUME PlainNames
    PROVE  Spec => []ListingIsWhole
<1>1. ReadInv /\ WholeInv /\ CopyInv /\ ListInv => ListingIsWhole
  <2> DEFINE l == answer.shown
             u == conn.uri
             N == NamesIn(tree, conn.path)
             shown == {l[i].name : i \in DOMAIN l} \ {<<>>}
  <2> SUFFICES ASSUME CopyInv, ListInv, pc = "done", answer.status \in {200, 207},
                      conn.there # {}, ~conn.failed
               PROVE  /\ {n \in conn.there : ~MustHide(n)} \subseteq shown
                      /\ shown \subseteq Names(conn.path)
                      /\ \A i \in DOMAIN l : Stat(Rewritten(UrlDecode(l[i].href))) = Stat(InDir(conn.path, l[i].name))
                      /\ answer.status = 200 =>
                           \A i, j \in DOMAIN l : i < j /\ l[j].file.dir => l[i].file.dir
    BY DEF ListingIsWhole
  <2>1. Listed(tree, conn, l) /\ conn.unread = {} /\ (answer.status = 200 => Ordered(l))
    BY DEF ListInv, Shown, Printed
  <2>2. l \in Seq(Entries(tree, u, N)) /\ IsListable(conn)
    BY <2>1 DEF Listed
  <2>3. FromAssets /\ AsMade
    BY DEF ListInv, CopyInv, Tree
  <2> HIDE DEF l, u, N
  <2>4. \A i \in DOMAIN l : l[i].name \in N \cup {<<>>} /\ Leads(tree, u, l[i])
    BY <2>2, EntryIs
  <2>5. ASSUME NEW n \in conn.there, ~MustHide(n) PROVE n \in shown
    <3>1. Shows(l, conn.there \ conn.unread) /\ n \in conn.there \ conn.unread
      BY <2>1 DEF Listed
    <3>2. PICK i \in DOMAIN l : l[i].name = n
      BY <2>5, <3>1 DEF Shows
    <3>3. n # <<>>
      <4>1. n \in Names(Stripped(u)) /\ IsBase(u)
        BY <2>1, <2>2, NamesAre DEF Listed, IsListable, u
      <4> QED
        BY <2>3, <4>1, NameLeads
    <3> QED
      BY <3>2, <3>3
  <2>6. shown \subseteq Names(conn.path)
    BY <2>4, NamesAre DEF N
  <2>7. ASSUME NEW i \in DOMAIN l
        PROVE  Stat(Rewritten(UrlDecode(l[i].href))) = Stat(InDir(conn.path, l[i].name))
    <3> DEFINE e == l[i]
    <3>1. Leads(tree, u, e) /\ conn.path = Stripped(u) /\ IsBase(u)
      BY <2>2, <2>4 DEF IsListable, u
    <3> HIDE DEF e
    <3>2. StatOf(tree, Clean(e.href)) = StatOf(tree, InDir(conn.path, e.name))
      BY <2>3, <3>1, LeadsThere
    <3>3. \A p : Stat(p) = StatOf(tree, p)
      BY DEF Stat, StatOf
    <3> QED
      BY <3>2, <3>3 DEF Clean, e
  <2>8. answer.status = 200 => \A i, j \in DOMAIN l : i < j /\ l[j].file.dir => l[i].file.dir
    BY <2>1 DEF Ordered
  <2> QED
    BY <2>5, <2>6, <2>7, <2>8
<1>2. Spec => [](ReadInv /\ WholeInv /\ CopyInv /\ ListInv)
  <2>1. ReadInv /\ WholeInv /\ CopyInv /\ ListInv /\ [Next]_vars => (ReadInv /\ WholeInv /\ CopyInv /\ ListInv)'
    BY ReadNext, WholeNext, CopyNext, ListNext
  <2>2. Init => ReadInv /\ WholeInv /\ CopyInv /\ ListInv
    BY ReadInit, WholeInit, CopyInit, ListInit
  <2> QED
    BY <2>1, <2>2, PTL DEF Spec
<1> QED
  BY <1>1, <1>2, PTL
=============================================================================
