------------------------ MODULE AppActivationProofs ------------------------
(***************************************************************************)
(* Proofs about AppActivation, for any apps, packages and bounds: the      *)
(* names on disk are those the user has chosen, the service runs while     *)
(* there are any, and a tracked app finds its own list.  The inductive     *)
(* invariant says which sets of the heap hold names and which packages,    *)
(* that none is both, and that each name that a press could still write    *)
(* is of an app whose list is right or about to be.  A second one, on top  *)
(* of it, follows what the user has chosen through the views.              *)
(***************************************************************************)
EXTENDS AppActivation, FiniteSetTheorems, TLAPS

----------------------------------------------------------------------------
(* The inductive invariant.                                                 *)

Contents == SUBSET (Apps \union Packages)
Texts    == {"track", "untrack", "save"}

ViewRecords == [app : Apps, actives : Objects, packages : Objects, all : Objects,
                items : SUBSET Packages, rows : SUBSET Packages, text : Texts]

\* The objects that hold names of apps, and those that hold packages.
NameObjects(p, vs) == {p[Active]} \union {vs[i].actives : i \in DOMAIN vs}
PackObjects(p, vs) == {p[a] : a \in Apps} \union {vs[i].packages : i \in DOMAIN vs}
                                          \union {vs[i].all : i \in DOMAIN vs}

\* The preferences and the views of a process.
Minds(p, vs) ==
    /\ p \in [Keys -> Objects \union {0}]
    /\ vs \in Seq(ViewRecords)
    /\ Len(vs) <= MaxViews
    /\ \A o \in Objects : ~(o \in NameObjects(p, vs) /\ o \in PackObjects(p, vs))

\* What the objects hold: names in s, packages, and nothing when not in use.
Fits(h, p, vs, s) ==
    /\ h \in [Objects -> Contents]
    /\ \A o \in Objects : o \in NameObjects(p, vs) => h[o] \subseteq s
    /\ \A o \in Objects : o \in PackObjects(p, vs) => h[o] \subseteq Packages

Holds(h, p, vs, s) ==
    /\ Fits(h, p, vs, s)
    /\ \A o \in Objects : o \notin Used(p, vs) => h[o] = {}

\* Apps that have a list of their own, or will, or whose copy went wrong.
Sound == {a \in Apps : a \in torn \/ click.app = a \/ Hooks(a)}

MindInv == Minds(prefs, views) /\ Holds(heap, prefs, views, Sound)

DiskInv ==
    /\ disk \in [Keys -> Contents \union {None}]
    /\ \A a \in Apps : disk[a] = None \/ disk[a] \subseteq Packages
    /\ Stored(Active) = Atom(Active)

Places == {"idle", "service", "put", "save", "write", "cp", "delete"}

ClickInv ==
    /\ click \in [pc : Places, app : Apps \union {None},
                  kind : {None, "track", "untrack", "save"}, actives : SUBSET Apps]
    /\ click.pc = "idle" => click.app = None
    /\ click.pc # "idle" => click.app \in Apps /\ views # << >>
    /\ click.actives \subseteq Sound

NamesInv ==
    /\ unsure \in BOOLEAN
    /\ torn \subseteq Apps
    /\ tracked \subseteq Sound
    /\ IF Lost
       THEN /\ prefs[Active] = 0
            /\ unsure \/ click.actives = IF click.kind = "untrack" THEN tracked \ {click.app}
                                         ELSE tracked \union {click.app}
       ELSE Stored(Active) = tracked

\* The names that the service goes by.
Known == IF click.pc = "put" THEN click.actives ELSE tracked

ServiceInv ==
    /\ service \in BOOLEAN /\ booted \in BOOLEAN
    /\ ~unsure /\ service => Known # {}
    /\ ~unsure /\ booted /\ Known # {} => service

\* A list that is right, or about to be replaced by one that is.
CopyInv ==
    /\ copies \in [Copiers -> [app : Apps \union {None}, list : Lists \union {None}]]
    /\ tmp \in Lists \union {None}
    /\ file \in [Apps -> Lists \union {None, Partial}]
    /\ copies["orphan"].app # None => copies["orphan"].app \in torn
    /\ copies["view"].app # None => click.pc = "cp"
    /\ click.pc = "cp" => copies["view"].app = click.app /\ tmp \in Lists /\ tmp.app = click.app
    /\ copies["view"].list # None => /\ copies["view"].list \in Lists
                                     /\ copies["view"].list.app = copies["view"].app
    /\ click.pc = "delete" => click.app \in torn \/ Hooks(click.app)

IndInv == MindInv /\ DiskInv /\ ClickInv /\ NamesInv /\ ServiceInv /\ CopyInv

\* While nothing is forgotten, the names in hand, and those of each view that
\* is not overtaken, are the chosen ones.
ChoiceInv ==
    /\ chosen \subseteq Apps
    /\ overtaken \subseteq DOMAIN views
    /\ forgot \in BOOLEAN
    /\ ~forgot => /\ IF Lost THEN click.actives = chosen ELSE tracked = chosen
                  /\ \A i \in DOMAIN views \ overtaken : heap[views[i].actives] = chosen

\* A step that leaves the views' names as they are.
KeepsNames ==
    \A i \in DOMAIN views' : i \in DOMAIN views /\ heap'[views'[i].actives] = heap[views[i].actives]

----------------------------------------------------------------------------
(* There is room: the sets in use are fewer than the objects.               *)

\* The image of a finite set has at most as many elements: the values of a
\* function, as the objects that the keys or the views refer to.
LEMMA ImageIsSmall ==
    ASSUME NEW S, IsFiniteSet(S), NEW f, f \in [S -> {f[x] : x \in S}]
    PROVE  /\ IsFiniteSet({f[x] : x \in S})
           /\ Cardinality({f[x] : x \in S}) \in Nat
           /\ Cardinality({f[x] : x \in S}) <= Cardinality(S)
<1> DEFINE T == {f[x] : x \in S}
<1>1. f \in Surjection(S, T)
  BY DEF Surjection
<1>2. IsFiniteSet(T) /\ Cardinality(T) <= Cardinality(S)
  BY <1>1, FS_Surjection
<1>3. Cardinality(T) \in Nat
  BY <1>2, FS_CardinalityType
<1> QED
  BY <1>2, <1>3

\* Two finite sets together have at most as many elements as both.
LEMMA UnionIsSmall ==
    ASSUME NEW S, NEW T, IsFiniteSet(S), IsFiniteSet(T)
    PROVE  /\ IsFiniteSet(S \union T)
           /\ Cardinality(S \union T) \in Nat
           /\ Cardinality(S \union T) <= Cardinality(S) + Cardinality(T)
<1>1. /\ IsFiniteSet(S \union T)
      /\ Cardinality(S \union T) = Cardinality(S) + Cardinality(T) - Cardinality(S \cap T)
  BY FS_Union
<1>2. IsFiniteSet(S \cap T)
  BY FS_Intersection
<1>3. Cardinality(S) \in Nat /\ Cardinality(T) \in Nat /\ Cardinality(S \cap T) \in Nat
      /\ Cardinality(S \union T) \in Nat
  BY <1>1, <1>2, FS_CardinalityType
<1> QED
  BY <1>1, <1>3

\* The keys and the views refer to few objects.
LEMMA UsedIsSmall ==
    ASSUME NEW p, NEW vs, Minds(p, vs)
    PROVE  /\ IsFiniteSet(Used(p, vs))
           /\ Cardinality(Used(p, vs)) \in Nat
           /\ Cardinality(Used(p, vs)) <= Cardinality(Apps) + 1 + 3 * Len(vs)
<1> DEFINE I  == 1..Len(vs)
           f1 == [i \in I |-> vs[i].actives]
           f2 == [i \in I |-> vs[i].packages]
           f3 == [i \in I |-> vs[i].all]
           U0 == {p[k] : k \in Keys}
           U1 == {f1[i] : i \in I}
           U2 == {f2[i] : i \in I}
           U3 == {f3[i] : i \in I}
<1>1. Len(vs) \in Nat /\ DOMAIN vs = I
  BY DEF Minds
<1>2. IsFiniteSet(I) /\ Cardinality(I) = Len(vs)
  <2>1. IsFiniteSet(1..Len(vs))
        /\ Cardinality(1..Len(vs)) = IF 1 > Len(vs) THEN 0 ELSE Len(vs) - 1 + 1
    BY <1>1, FS_Interval
  <2> QED
    BY <1>1, <2>1
<1>3. IsFiniteSet(Keys) /\ Cardinality(Keys) <= Cardinality(Apps) + 1 /\ Cardinality(Keys) \in Nat
      /\ Cardinality(Apps) \in Nat
  <2>1. IsFiniteSet(Apps)
    BY RoomAssumption
  <2>2. Cardinality(Apps) \in Nat
    BY <2>1, FS_CardinalityType
  <2>3. /\ IsFiniteSet(Keys)
        /\ Cardinality(Keys) = IF Active \in Apps THEN Cardinality(Apps) ELSE Cardinality(Apps) + 1
    BY <2>1, FS_AddElement DEF Keys
  <2> QED
    BY <2>2, <2>3
<1>4. IsFiniteSet(U0) /\ Cardinality(U0) \in Nat /\ Cardinality(U0) <= Cardinality(Keys)
  <2>1. p \in [Keys -> U0]
    BY DEF Minds
  <2> QED
    BY <1>3, <2>1, ImageIsSmall
<1>5. IsFiniteSet(U1) /\ Cardinality(U1) \in Nat /\ Cardinality(U1) <= Len(vs)
  <2>1. f1 \in [I -> U1]
    OBVIOUS
  <2> HIDE DEF f1, I
  <2>2. IsFiniteSet(U1) /\ Cardinality(U1) \in Nat /\ Cardinality(U1) <= Cardinality(I)
    BY <1>2, <2>1, ImageIsSmall
  <2> QED
    BY <1>2, <2>2
<1>6. IsFiniteSet(U2) /\ Cardinality(U2) \in Nat /\ Cardinality(U2) <= Len(vs)
  <2>1. f2 \in [I -> U2]
    OBVIOUS
  <2> HIDE DEF f2, I
  <2>2. IsFiniteSet(U2) /\ Cardinality(U2) \in Nat /\ Cardinality(U2) <= Cardinality(I)
    BY <1>2, <2>1, ImageIsSmall
  <2> QED
    BY <1>2, <2>2
<1>7. IsFiniteSet(U3) /\ Cardinality(U3) \in Nat /\ Cardinality(U3) <= Len(vs)
  <2>1. f3 \in [I -> U3]
    OBVIOUS
  <2> HIDE DEF f3, I
  <2>2. IsFiniteSet(U3) /\ Cardinality(U3) \in Nat /\ Cardinality(U3) <= Cardinality(I)
    BY <1>2, <2>1, ImageIsSmall
  <2> QED
    BY <1>2, <2>2
<1>8. Used(p, vs) = ((U0 \union U1) \union U2) \union U3
  BY <1>1 DEF Used
<1> HIDE DEF U0, U1, U2, U3
<1>9. IsFiniteSet(U0 \union U1) /\ Cardinality(U0 \union U1) \in Nat
      /\ Cardinality(U0 \union U1) <= Cardinality(U0) + Cardinality(U1)
  BY <1>4, <1>5, UnionIsSmall
<1>10. IsFiniteSet((U0 \union U1) \union U2) /\ Cardinality((U0 \union U1) \union U2) \in Nat
       /\ Cardinality((U0 \union U1) \union U2) <= Cardinality(U0 \union U1) + Cardinality(U2)
  BY <1>6, <1>9, UnionIsSmall
<1>11. IsFiniteSet(Used(p, vs)) /\ Cardinality(Used(p, vs)) \in Nat
       /\ Cardinality(Used(p, vs)) <= Cardinality((U0 \union U1) \union U2) + Cardinality(U3)
  BY <1>7, <1>8, <1>10, UnionIsSmall
<1> QED
  BY <1>1, <1>3, <1>4, <1>5, <1>6, <1>7, <1>9, <1>10, <1>11

\* Where fewer are in use than there are, one is new.
LEMMA FreshIsNew ==
    ASSUME NEW S, IsFiniteSet(S), Cardinality(S) < MaxObjects
    PROVE  Fresh(S) \in Objects /\ Fresh(S) \notin S
<1>1. IsFiniteSet(Objects) /\ Cardinality(Objects) = MaxObjects
  BY FS_Interval, RoomAssumption DEF Objects
<1>2. \E o \in Objects : o \notin S
  <2>1. SUFFICES ASSUME Objects \subseteq S PROVE FALSE
    OBVIOUS
  <2>2. Cardinality(Objects) <= Cardinality(S)
    BY <2>1, FS_Subset
  <2>3. Cardinality(S) \in Nat
    BY FS_CardinalityType
  <2> QED
    BY <1>1, <2>2, <2>3, RoomAssumption
<1> QED
  BY <1>2 DEF Fresh

\* A commit finds a new object for its set.
LEMMA FreshForCommit ==
    ASSUME NEW p, NEW vs, Minds(p, vs)
    PROVE  Fresh(Used(p, vs)) \in Objects /\ Fresh(Used(p, vs)) \notin Used(p, vs)
<1> DEFINE U == Used(p, vs)
<1>1. IsFiniteSet(U) /\ Cardinality(U) \in Nat /\ Cardinality(U) <= Cardinality(Apps) + 1 + 3 * Len(vs)
  BY UsedIsSmall
<1>2. Len(vs) \in Nat /\ Len(vs) <= MaxViews
  BY DEF Minds
<1>3. Cardinality(Apps) \in Nat
  BY RoomAssumption, FS_CardinalityType
<1> HIDE DEF U
<1>4. Cardinality(U) < MaxObjects
  BY <1>1, <1>2, <1>3, RoomAssumption
<1>5. Fresh(U) \in Objects /\ Fresh(U) \notin U
  BY <1>1, <1>4, FreshIsNew
<1> QED
  BY <1>5 DEF U

\* A view that is opened finds up to three.
LEMMA FreshForView ==
    ASSUME NEW p, NEW vs, Minds(p, vs), Len(vs) < MaxViews, NEW x, NEW y
    PROVE  /\ Fresh(Used(p, vs) \union {x}) \in Objects
           /\ Fresh(Used(p, vs) \union {x}) \notin Used(p, vs) \union {x}
           /\ Fresh(Used(p, vs) \union {x, y}) \in Objects
           /\ Fresh(Used(p, vs) \union {x, y}) \notin Used(p, vs) \union {x, y}
<1> DEFINE U == Used(p, vs)
<1>1. IsFiniteSet(U) /\ Cardinality(U) \in Nat /\ Cardinality(U) <= Cardinality(Apps) + 1 + 3 * Len(vs)
  BY UsedIsSmall
<1>2. Len(vs) \in Nat
  BY DEF Minds
<1>3. Cardinality(Apps) \in Nat
  BY RoomAssumption, FS_CardinalityType
<1> HIDE DEF U
<1>4. IsFiniteSet({x}) /\ Cardinality({x}) = 1 /\ IsFiniteSet({y}) /\ Cardinality({y}) = 1
  BY FS_Singleton
<1>5. IsFiniteSet(U \union {x}) /\ Cardinality(U \union {x}) \in Nat
      /\ Cardinality(U \union {x}) <= Cardinality(U) + 1
  BY <1>1, <1>4, UnionIsSmall
<1>6. IsFiniteSet((U \union {x}) \union {y}) /\ Cardinality((U \union {x}) \union {y}) \in Nat
      /\ Cardinality((U \union {x}) \union {y}) <= Cardinality(U \union {x}) + 1
  BY <1>4, <1>5, UnionIsSmall
<1>7. (U \union {x}) \union {y} = U \union {x, y}
  OBVIOUS
<1>8. Cardinality(U \union {x}) < MaxObjects /\ Cardinality((U \union {x}) \union {y}) < MaxObjects
  <2>1. Cardinality(U) < MaxObjects - 2
    BY <1>1, <1>2, <1>3, RoomAssumption
  <2> QED
    BY <2>1, <1>1, <1>5, <1>6, RoomAssumption
<1>9. Fresh(U \union {x}) \in Objects /\ Fresh(U \union {x}) \notin U \union {x}
  BY <1>5, <1>8, FreshIsNew
<1>10. Fresh(U \union {x, y}) \in Objects /\ Fresh(U \union {x, y}) \notin U \union {x, y}
  BY <1>6, <1>7, <1>8, FreshIsNew
<1> QED
  BY <1>9, <1>10 DEF U

----------------------------------------------------------------------------
(* The memory of a process.                                                 *)

\* What is in use holds names or packages.
LEMMA Roles ==
    ASSUME NEW p, NEW vs
    PROVE  Used(p, vs) = NameObjects(p, vs) \union PackObjects(p, vs)
BY DEF Used, NameObjects, PackObjects, Keys

\* Each view has an object for the names.
LEMMA NamesOfView ==
    ASSUME NEW p, NEW vs, Minds(p, vs), NEW i \in DOMAIN vs
    PROVE  vs[i].actives \in Objects /\ vs[i].actives \in NameObjects(p, vs)
<1>1. vs \in Seq(ViewRecords) /\ DOMAIN vs = 1..Len(vs)
  BY DEF Minds
<1>2. vs[i] \in ViewRecords
  BY <1>1
<1> QED
  BY <1>2 DEF ViewRecords, NameObjects

\* Preferences that forget keys, and put one to a new object, keep the roles
\* apart.
LEMMA NewMind ==
    ASSUME NEW p, NEW vs, Minds(p, vs), NEW q \in [Keys -> Objects \union {0}],
           NEW o \in Objects, o \notin Used(p, vs), NEW k,
           \A x \in Keys : q[x] = 0 \/ q[x] = p[x] \/ (x = k /\ q[x] = o)
    PROVE  /\ Minds(q, vs)
           /\ \A x \in Objects : x \in NameObjects(q, vs) =>
                x \in NameObjects(p, vs) \/ (x = o /\ k = Active)
           /\ \A x \in Objects : x \in PackObjects(q, vs) =>
                x \in PackObjects(p, vs) \/ (x = o /\ k \in Apps)
<1>0. 0 \notin Objects
  BY DEF Objects
<1>1. \A x \in Objects : x \in NameObjects(q, vs) =>
        x \in NameObjects(p, vs) \/ (x = o /\ k = Active)
  BY <1>0 DEF NameObjects, Keys
<1>2. \A x \in Objects : x \in PackObjects(q, vs) =>
        x \in PackObjects(p, vs) \/ (x = o /\ k \in Apps)
  <2>1. \A a \in Apps : q[a] = 0 \/ q[a] = p[a] \/ (a = k /\ q[a] = o)
    BY DEF Keys
  <2> QED
    BY <1>0, <2>1 DEF PackObjects
<1>3. o \notin NameObjects(p, vs) /\ o \notin PackObjects(p, vs)
  BY Roles
<1>4. \A x \in Objects : ~(x \in NameObjects(q, vs) /\ x \in PackObjects(q, vs))
  BY <1>1, <1>2, <1>3, KeyAssumption DEF Minds
<1> QED
  BY <1>1, <1>2, <1>4 DEF Minds

\* What is collected are objects that nothing refers to.
LEMMA Collected ==
    ASSUME NEW h, NEW p, NEW vs, NEW s, Fits(h, p, vs, s)
    PROVE  Holds(Collect(h, p, vs), p, vs, s)
<1>1. \A o \in Objects : Collect(h, p, vs)[o] = IF o \in Used(p, vs) THEN h[o] ELSE {}
  BY DEF Collect
<1>2. \A o \in Objects : h[o] \in Contents /\ {} \in Contents
  BY DEF Fits, Contents
<1>3. Collect(h, p, vs) \in [Objects -> Contents]
  BY <1>2 DEF Collect
<1> QED
  BY <1>1, <1>3 DEF Fits, Holds

\* The new object holds what is put, the others what they held.
LEMMA NewFits ==
    ASSUME NEW h, NEW p, NEW vs, Minds(p, vs), NEW q \in [Keys -> Objects \union {0}],
           NEW o \in Objects, o \notin Used(p, vs), NEW k,
           \A x \in Keys : q[x] = 0 \/ q[x] = p[x] \/ (x = k /\ q[x] = o),
           NEW s, NEW S, Fits(h, p, vs, S), s \in Contents,
           k = Active => s \subseteq S, k \in Apps => s \subseteq Packages
    PROVE  Fits([h EXCEPT ![o] = s], q, vs, S)
<1> DEFINE g == [h EXCEPT ![o] = s]
<1>1. g \in [Objects -> Contents] /\ g[o] = s /\ \A x \in Objects : x # o => g[x] = h[x]
  BY DEF Fits
<1>2. o \notin NameObjects(p, vs) /\ o \notin PackObjects(p, vs)
  BY Roles
<1>3. /\ \A x \in Objects : x \in NameObjects(q, vs) =>
           x \in NameObjects(p, vs) \/ (x = o /\ k = Active)
      /\ \A x \in Objects : x \in PackObjects(q, vs) =>
           x \in PackObjects(p, vs) \/ (x = o /\ k \in Apps)
  BY NewMind
<1> HIDE DEF g
<1>4. \A x \in Objects : x \in NameObjects(q, vs) => g[x] \subseteq S
  BY <1>1, <1>2, <1>3 DEF Fits
<1>5. \A x \in Objects : x \in PackObjects(q, vs) => g[x] \subseteq Packages
  BY <1>1, <1>2, <1>3 DEF Fits
<1>6. Fits(g, q, vs, S)
  BY <1>1, <1>4, <1>5 DEF Fits
<1> QED
  BY <1>6 DEF g

\* The set s may be put to key k, or nothing is put.
MayPut(k, s, S) ==
    /\ k \in Keys \union {None}
    /\ s \in Contents
    /\ k = Active => s \subseteq S
    /\ k \in Apps => s \subseteq Packages

\* A commit leaves roles and contents right, writes the names and packages
\* that are put, and the file agrees with the preferences when it is written.
LEMMA CommitWorks ==
    ASSUME Minds(prefs, views), NEW vs, Minds(prefs, vs),
           Used(prefs, vs) \subseteq Used(prefs, views),
           NEW h, NEW S, Fits(h, prefs, vs, S), NEW r, NEW k, NEW s, MayPut(k, s, S),
           Commit(h, vs, r, k, s)
    PROVE  /\ views' = vs
           /\ Minds(prefs', vs)
           /\ Holds(heap', prefs', vs, S)
           /\ \A x \in Keys : x # k => prefs'[x] = IF x \in r THEN 0 ELSE prefs[x]
           /\ \A x \in Keys : x # k /\ prefs'[x] # 0 => heap'[prefs'[x]] = h[prefs[x]]
           /\ k \in Keys => prefs'[k] # 0 /\ heap'[prefs'[k]] = s
           /\ \A i \in DOMAIN vs : heap'[vs[i].actives] = h[vs[i].actives]
           /\ disk' = IF prefs' = prefs THEN disk
                      ELSE [x \in Keys |-> IF prefs'[x] = 0 THEN None ELSE heap'[prefs'[x]]]
<1> DEFINE kept == [x \in Keys |-> IF x \in r THEN 0 ELSE prefs[x]]
           same == k = None \/ (kept[k] # 0 /\ h[kept[k]] = s)
           new  == Fresh(Used(prefs, views))
           p    == IF same THEN kept ELSE [kept EXCEPT ![k] = new]
           g    == IF same THEN h ELSE [h EXCEPT ![new] = s]
<1>0. /\ k \in Keys \union {None} /\ s \in Contents
      /\ k = Active => s \subseteq S
      /\ k \in Apps => s \subseteq Packages
  BY DEF MayPut
<1>1. /\ prefs' = p
      /\ views' = vs
      /\ heap' = Collect(g, p, vs)
      /\ disk' = IF p = prefs THEN disk
                 ELSE [x \in Keys |-> IF p[x] = 0 THEN None ELSE g[p[x]]]
  BY DEF Commit
<1>2. new \in Objects /\ new \notin Used(prefs, vs)
  BY FreshForCommit
<1>3. prefs \in [Keys -> Objects \union {0}]
  BY DEF Minds
<1>4. kept \in [Keys -> Objects \union {0}] /\ \A x \in Keys : kept[x] = IF x \in r THEN 0 ELSE prefs[x]
  BY <1>3
<1>5. ~same => k \in Keys
  BY <1>0
<1>6. 0 \notin Objects /\ None \notin Keys
  BY KeyAssumption DEF Objects, Keys
<1> HIDE DEF kept, new
<1>7. p \in [Keys -> Objects \union {0}]
      /\ \A x \in Keys : p[x] = IF x = k /\ ~same THEN new ELSE kept[x]
  BY <1>2, <1>4, <1>5
<1>8. g \in [Objects -> Contents]
      /\ \A x \in Objects : g[x] = IF x = new /\ ~same THEN s ELSE h[x]
  BY <1>0, <1>2 DEF Fits
<1> HIDE DEF p
<1>9. \A x \in Keys : p[x] = 0 \/ p[x] = prefs[x] \/ (x = k /\ p[x] = new)
  BY <1>4, <1>7
<1>10. Minds(p, vs)
  BY <1>2, <1>7, <1>9, NewMind
<1>11. Fits(g, p, vs, S)
  <2>1. CASE ~same
    <3>1. Fits([h EXCEPT ![new] = s], p, vs, S)
      BY <1>0, <1>2, <1>7, <1>9, NewFits
    <3> QED
      BY <2>1, <3>1
  <2>2. CASE same
    <3>1. \A x \in Keys : p[x] = 0 \/ p[x] = prefs[x] \/ (x = None /\ p[x] = new)
      BY <2>2, <1>4, <1>7
    <3>2. /\ \A x \in Objects : x \in NameObjects(p, vs) =>
                x \in NameObjects(prefs, vs) \/ (x = new /\ None = Active)
          /\ \A x \in Objects : x \in PackObjects(p, vs) =>
                x \in PackObjects(prefs, vs) \/ (x = new /\ None \in Apps)
      BY <1>2, <1>7, <3>1, NewMind
    <3>3. None # Active /\ None \notin Apps
      BY KeyAssumption
    <3>4. g = h
      BY <2>2
    <3> QED
      BY <3>2, <3>3, <3>4 DEF Fits
  <2> QED
    BY <2>1, <2>2
<1>12. \A x \in Keys : p[x] # 0 => p[x] \in Objects /\ p[x] \in Used(p, vs)
  BY <1>7 DEF Used
<1>13. \A x \in Keys : prefs[x] \in Used(prefs, vs)
  BY DEF Used
<1>14. \A o \in Objects : o \in Used(p, vs) => Collect(g, p, vs)[o] = g[o]
  BY DEF Collect
<1>15. \A x \in Keys : x # k /\ p[x] # 0 => p[x] = prefs[x] /\ g[p[x]] = h[prefs[x]]
  BY <1>2, <1>4, <1>7, <1>8, <1>12, <1>13
<1>16. k \in Keys => p[k] # 0 /\ g[p[k]] = s
  <2>1. CASE same
    BY <2>1, <1>6, <1>7
  <2>2. CASE ~same
    BY <2>2, <1>2, <1>6, <1>7, <1>8
  <2> QED
    BY <2>1, <2>2
<1>17. \A x \in Keys : x # k => p[x] = IF x \in r THEN 0 ELSE prefs[x]
  BY <1>4, <1>7
<1>18. Holds(Collect(g, p, vs), p, vs, S)
  BY <1>11, Collected
<1>21. \A i \in DOMAIN vs : Collect(g, p, vs)[vs[i].actives] = h[vs[i].actives]
  <2>1. SUFFICES ASSUME NEW i \in DOMAIN vs
                 PROVE  Collect(g, p, vs)[vs[i].actives] = h[vs[i].actives]
    OBVIOUS
  <2>2. vs[i].actives \in Objects
    BY <2>1, NamesOfView
  <2>3. vs[i].actives \in Used(p, vs) /\ vs[i].actives \in Used(prefs, vs)
    BY <2>1 DEF Used
  <2> QED
    BY <1>2, <1>8, <1>14, <2>2, <2>3
<1> HIDE DEF g
<1>19. [x \in Keys |-> IF p[x] = 0 THEN None ELSE g[p[x]]]
          = [x \in Keys |-> IF p[x] = 0 THEN None ELSE Collect(g, p, vs)[p[x]]]
  BY <1>12, <1>14
<1>20. \A x \in Keys : p[x] # 0 => Collect(g, p, vs)[p[x]] = g[p[x]]
  BY <1>12, <1>14
<1> QED
  BY <1>1, <1>10, <1>15, <1>16, <1>17, <1>18, <1>19, <1>20, <1>21

\* The view in front, and the objects it refers to.
LEMMA ViewInFront ==
    ASSUME Minds(prefs, views), views # << >>
    PROVE  /\ Len(views) \in Nat /\ Len(views) \in DOMAIN views /\ View \in ViewRecords
           /\ View.actives \in Objects /\ View.actives \in NameObjects(prefs, views)
           /\ View.packages \in Objects /\ View.packages \in PackObjects(prefs, views)
           /\ View.all \in Objects /\ View.all \in PackObjects(prefs, views)
<1>1. views \in Seq(ViewRecords)
  BY DEF Minds
<1>2. Len(views) \in Nat /\ Len(views) # 0 /\ DOMAIN views = 1..Len(views)
  BY <1>1
<1>3. Len(views) \in DOMAIN views /\ View \in ViewRecords
  BY <1>1, <1>2 DEF View
<1> QED
  BY <1>2, <1>3 DEF View, ViewRecords, NameObjects, PackObjects

\* Another view in front, with the same objects or all packages as its own.
LEMMA MovedView ==
    ASSUME NEW p, NEW vs, Minds(p, vs), vs # << >>, NEW v \in ViewRecords,
           v.actives = vs[Len(vs)].actives, v.all = vs[Len(vs)].all,
           v.packages = vs[Len(vs)].packages \/ v.packages = vs[Len(vs)].all
    PROVE  /\ Minds(p, [vs EXCEPT ![Len(vs)] = v])
           /\ NameObjects(p, [vs EXCEPT ![Len(vs)] = v]) = NameObjects(p, vs)
           /\ PackObjects(p, [vs EXCEPT ![Len(vs)] = v]) \subseteq PackObjects(p, vs)
           /\ v.packages = vs[Len(vs)].packages
                => PackObjects(p, [vs EXCEPT ![Len(vs)] = v]) = PackObjects(p, vs)
           /\ DOMAIN [vs EXCEPT ![Len(vs)] = v] = DOMAIN vs
           /\ \A i \in DOMAIN vs : [vs EXCEPT ![Len(vs)] = v][i].actives = vs[i].actives
<1> DEFINE ws == [vs EXCEPT ![Len(vs)] = v]
           n  == Len(vs)
<1>1. vs \in Seq(ViewRecords) /\ n \in Nat /\ DOMAIN vs = 1..n /\ n <= MaxViews /\ n # 0
  BY DEF Minds
<1>2. n \in DOMAIN vs
  BY <1>1
<1>3. ws \in Seq(ViewRecords) /\ Len(ws) = n /\ DOMAIN ws = DOMAIN vs /\ ws[n] = v
      /\ \A i \in DOMAIN vs : i # n => ws[i] = vs[i]
  BY <1>1, <1>2
<1> HIDE DEF ws, n
<1>4. \A i \in DOMAIN vs : ws[i].actives = vs[i].actives /\ ws[i].all = vs[i].all
  BY <1>3 DEF n
<1>5. \A i \in DOMAIN vs : ws[i].packages = vs[i].packages \/ ws[i].packages = vs[i].all
  BY <1>3 DEF n
<1>6. NameObjects(p, ws) = NameObjects(p, vs)
  BY <1>3, <1>4 DEF NameObjects
<1>7. PackObjects(p, ws) \subseteq PackObjects(p, vs)
  BY <1>3, <1>4, <1>5 DEF PackObjects
<1>8. ASSUME v.packages = vs[Len(vs)].packages
      PROVE  PackObjects(p, ws) = PackObjects(p, vs)
  <2>1. \A i \in DOMAIN vs : ws[i].packages = vs[i].packages
    BY <1>3, <1>8 DEF n
  <2> QED
    BY <1>3, <1>4, <2>1 DEF PackObjects
<1>9. Minds(p, ws)
  BY <1>1, <1>3, <1>6, <1>7 DEF Minds
<1> QED
  BY <1>3, <1>4, <1>6, <1>7, <1>8, <1>9 DEF ws, n

\* One view more refers to three objects more.
LEMMA OneViewMore ==
    ASSUME NEW p, NEW vs, Minds(p, vs), NEW v \in ViewRecords
    PROVE  /\ Append(vs, v) \in Seq(ViewRecords) /\ Len(Append(vs, v)) = Len(vs) + 1
           /\ NameObjects(p, Append(vs, v)) = NameObjects(p, vs) \union {v.actives}
           /\ PackObjects(p, Append(vs, v)) = PackObjects(p, vs) \union {v.packages, v.all}
           /\ DOMAIN Append(vs, v) = DOMAIN vs \union {Len(vs) + 1}
           /\ Append(vs, v)[Len(vs) + 1] = v
           /\ \A i \in DOMAIN vs : Append(vs, v)[i] = vs[i]
<1> DEFINE ws == Append(vs, v)
           n  == Len(vs)
<1>1. vs \in Seq(ViewRecords) /\ n \in Nat /\ DOMAIN vs = 1..n
  BY DEF Minds
<1>2. ws \in Seq(ViewRecords) /\ Len(ws) = n + 1 /\ DOMAIN ws = 1..(n + 1) /\ ws[n + 1] = v
      /\ \A i \in 1..n : ws[i] = vs[i]
  BY <1>1
<1>3. 1..(n + 1) = (1..n) \union {n + 1}
  BY <1>1
<1> HIDE DEF ws, n
<1>4. DOMAIN ws = DOMAIN vs \union {n + 1} /\ \A i \in DOMAIN vs : ws[i] = vs[i]
  BY <1>1, <1>2, <1>3
<1>5. {ws[i].actives : i \in DOMAIN ws} = {vs[i].actives : i \in DOMAIN vs} \union {v.actives}
  <2>1. \A i \in DOMAIN vs : ws[i].actives = vs[i].actives
    BY <1>4
  <2>2. ws[n + 1].actives = v.actives
    BY <1>2
  <2>3. DOMAIN ws = DOMAIN vs \union {n + 1}
    BY <1>4
  <2> QED
    BY <2>1, <2>2, <2>3
<1>6. {ws[i].packages : i \in DOMAIN ws} = {vs[i].packages : i \in DOMAIN vs} \union {v.packages}
  <2>1. \A i \in DOMAIN vs : ws[i].packages = vs[i].packages
    BY <1>4
  <2>2. ws[n + 1].packages = v.packages
    BY <1>2
  <2>3. DOMAIN ws = DOMAIN vs \union {n + 1}
    BY <1>4
  <2> QED
    BY <2>1, <2>2, <2>3
<1>7. {ws[i].all : i \in DOMAIN ws} = {vs[i].all : i \in DOMAIN vs} \union {v.all}
  <2>1. \A i \in DOMAIN vs : ws[i].all = vs[i].all
    BY <1>4
  <2>2. ws[n + 1].all = v.all
    BY <1>2
  <2>3. DOMAIN ws = DOMAIN vs \union {n + 1}
    BY <1>4
  <2> QED
    BY <2>1, <2>2, <2>3
<1>8. NameObjects(p, ws) = NameObjects(p, vs) \union {v.actives}
  BY <1>5 DEF NameObjects
<1>9. PackObjects(p, ws) = PackObjects(p, vs) \union {v.packages, v.all}
  BY <1>6, <1>7 DEF PackObjects
<1> QED
  BY <1>2, <1>4, <1>8, <1>9 DEF ws, n

\* One view less refers to no other objects.
LEMMA OneViewLess ==
    ASSUME NEW p, NEW vs, Minds(p, vs), vs # << >>
    PROVE  /\ Minds(p, SubSeq(vs, 1, Len(vs) - 1))
           /\ NameObjects(p, SubSeq(vs, 1, Len(vs) - 1)) \subseteq NameObjects(p, vs)
           /\ PackObjects(p, SubSeq(vs, 1, Len(vs) - 1)) \subseteq PackObjects(p, vs)
           /\ DOMAIN SubSeq(vs, 1, Len(vs) - 1) = DOMAIN vs \ {Len(vs)}
           /\ \A i \in DOMAIN vs \ {Len(vs)} : SubSeq(vs, 1, Len(vs) - 1)[i] = vs[i]
<1> DEFINE ws == SubSeq(vs, 1, Len(vs) - 1)
           n  == Len(vs)
<1>1. vs \in Seq(ViewRecords) /\ n \in Nat /\ DOMAIN vs = 1..n /\ n <= MaxViews /\ n # 0
  BY DEF Minds
<1>2. ws \in Seq(ViewRecords) /\ Len(ws) = n - 1 /\ DOMAIN ws = 1..(n - 1)
      /\ \A i \in 1..(n - 1) : ws[i] = vs[i]
  BY <1>1
<1> HIDE DEF ws, n
<1>3. Len(ws) <= MaxViews /\ \A i \in 1..(n - 1) : i \in 1..n
  BY <1>1, <1>2, RoomAssumption
<1>4. \A i \in DOMAIN ws : i \in DOMAIN vs /\ ws[i] = vs[i]
  BY <1>1, <1>2, <1>3
<1>5. NameObjects(p, ws) \subseteq NameObjects(p, vs)
  BY <1>4 DEF NameObjects
<1>6. PackObjects(p, ws) \subseteq PackObjects(p, vs)
  BY <1>4 DEF PackObjects
<1>7. Minds(p, ws)
  BY <1>2, <1>3, <1>5, <1>6 DEF Minds
<1>8. DOMAIN ws = DOMAIN vs \ {n}
  BY <1>1, <1>2
<1>9. \A i \in DOMAIN vs \ {n} : ws[i] = vs[i]
  BY <1>4, <1>8
<1> QED
  BY <1>5, <1>6, <1>7, <1>8, <1>9 DEF ws, n

----------------------------------------------------------------------------
(* Views: steps that change sets and views, and nothing else.               *)

\* Such a step keeps the rest of the invariant, if the names that the
\* preferences hold stay.
LEMMA ViewStep ==
    ASSUME IndInv, click.pc = "idle", Minds(prefs, views)', Holds(heap', prefs, views', Sound),
           prefs[Active] # 0 => heap'[prefs[Active]] = heap[prefs[Active]],
           UNCHANGED <<prefs, click, store, service, booted, tracked, torn, unsure>>
    PROVE  IndInv'
<1>1. UNCHANGED <<prefs, click, disk, tmp, file, copies, service, booted, tracked, torn, unsure>>
  BY DEF store
<1>2. Sound' = Sound
  BY <1>1 DEF Sound, Hooks
<1>3. Holds(heap, prefs, views, Sound)'
  BY <1>1, <1>2
<1>4. Stored(Active)' = Stored(Active) /\ Atom(Active)' = Atom(Active)
  BY <1>1 DEF Stored, Atom
<1>5. MindInv' /\ DiskInv'
  BY <1>1, <1>3, <1>4 DEF IndInv, MindInv, DiskInv
<1>6. ClickInv'
  BY <1>1, <1>2 DEF IndInv, ClickInv
<1>7. NamesInv'
  BY <1>1, <1>2, <1>4 DEF IndInv, NamesInv, Lost
<1>8. ServiceInv'
  BY <1>1 DEF IndInv, ServiceInv, Known
<1>9. CopyInv'
  BY <1>1 DEF IndInv, CopyInv, Hooks
<1> QED
  BY <1>5, <1>6, <1>7, <1>8, <1>9 DEF IndInv

\* A view that is opened shares the sets of the preferences, or has new ones.
LEMMA OpenStep ==
    ASSUME IndInv, NEW a \in Apps, Open(a)
    PROVE  /\ IndInv'
           /\ DOMAIN views' = DOMAIN views \union {Len(views) + 1}
           /\ heap'[views'[Len(views) + 1].actives] = Atom(Active)
           /\ \A i \in DOMAIN views : heap'[views'[i].actives] = heap[views[i].actives]
<1> DEFINE used     == Used(prefs, views)
           actives  == IF prefs[Active] # 0 THEN prefs[Active] ELSE Fresh(used)
           packages == IF prefs[a] # 0 THEN prefs[a] ELSE Fresh(used \union {actives})
           all      == Fresh(used \union {actives, packages})
           v        == [app |-> a, actives |-> actives, packages |-> packages, all |-> all,
                        items |-> heap[packages], rows |-> heap[packages],
                        text |-> IF a \in heap[actives] THEN "untrack" ELSE "track"]
<1>1. /\ click.pc = "idle"
      /\ Len(views) < MaxViews
      /\ heap' = [heap EXCEPT ![all] = Packages]
      /\ views' = Append(views, v)
      /\ UNCHANGED <<prefs, click, store, service, booted, past>>
  BY DEF Open
<1>2. Minds(prefs, views) /\ Fits(heap, prefs, views, Sound)
      /\ \A o \in Objects : o \notin used => heap[o] = {}
  BY DEF IndInv, MindInv, Holds
<1>3. prefs[Active] \in Objects \union {0} /\ prefs[a] \in Objects \union {0}
      /\ prefs[Active] \in NameObjects(prefs, views) /\ prefs[a] \in PackObjects(prefs, views)
  BY <1>2 DEF Minds, NameObjects, PackObjects, Keys
<1>4. used = NameObjects(prefs, views) \union PackObjects(prefs, views)
  BY Roles
<1>5. Fresh(used) \in Objects /\ Fresh(used) \notin used
  BY <1>2, FreshForCommit
<1>6. Fresh(used \union {actives}) \in Objects /\ Fresh(used \union {actives}) \notin used \union {actives}
  BY <1>1, <1>2, FreshForView
<1>7. all \in Objects /\ all \notin used \union {actives, packages}
  BY <1>1, <1>2, FreshForView
<1> HIDE DEF used
<1>8. actives \in Objects /\ (actives \in NameObjects(prefs, views) \/ actives \notin used)
  BY <1>3, <1>5
<1>9. packages \in Objects /\ packages # actives
      /\ (packages \in PackObjects(prefs, views) \/ packages \notin used)
  BY <1>2, <1>3, <1>4, <1>6, <1>8 DEF Minds
<1> HIDE DEF actives, packages, all
<1>10. heap[actives] \subseteq Sound /\ heap[packages] \subseteq Packages
  BY <1>2, <1>8, <1>9 DEF Fits
<1>11. v \in ViewRecords
  BY <1>7, <1>8, <1>9, <1>10 DEF ViewRecords, Texts
<1>12. /\ v.actives = actives /\ v.packages = packages /\ v.all = all
  OBVIOUS
<1> HIDE DEF v
<1>13. /\ views' \in Seq(ViewRecords) /\ Len(views') = Len(views) + 1
       /\ NameObjects(prefs, views') = NameObjects(prefs, views) \union {actives}
       /\ PackObjects(prefs, views') = PackObjects(prefs, views) \union {packages, all}
       /\ DOMAIN views' = DOMAIN views \union {Len(views) + 1}
       /\ views'[Len(views) + 1] = v
       /\ \A i \in DOMAIN views : views'[i] = views[i]
  BY <1>1, <1>2, <1>11, <1>12, OneViewMore
<1>14. Len(views') <= MaxViews
  <2>1. Len(views) \in Nat
    BY <1>2 DEF Minds
  <2> QED
    BY <1>1, <1>13, <2>1, RoomAssumption
<1>15. \A o \in Objects : ~(o \in NameObjects(prefs, views') /\ o \in PackObjects(prefs, views'))
  BY <1>2, <1>4, <1>7, <1>8, <1>9, <1>13 DEF Minds
<1>16. Minds(prefs, views)'
  BY <1>1, <1>2, <1>13, <1>14, <1>15 DEF Minds
<1>17. heap' \in [Objects -> Contents] /\ heap'[all] = Packages
       /\ \A o \in Objects : o # all => heap'[o] = heap[o]
  BY <1>1, <1>2, <1>7 DEF Fits, Contents
<1>18. \A o \in Objects : o \in NameObjects(prefs, views') => heap'[o] \subseteq Sound
  BY <1>2, <1>4, <1>7, <1>10, <1>13, <1>17 DEF Fits
<1>19. \A o \in Objects : o \in PackObjects(prefs, views') => heap'[o] \subseteq Packages
  BY <1>2, <1>10, <1>13, <1>17 DEF Fits
<1>20. Used(prefs, views') = used \union {actives, packages, all}
  BY <1>4, <1>13, Roles
<1>21. Holds(heap', prefs, views', Sound)
  BY <1>2, <1>17, <1>18, <1>19, <1>20 DEF Fits, Holds
<1>22. prefs[Active] # 0 => heap'[prefs[Active]] = heap[prefs[Active]]
  BY <1>3, <1>4, <1>7, <1>17
<1>23. UNCHANGED <<prefs, click, store, service, booted, tracked, torn, unsure>>
  BY <1>1 DEF past
<1>24. heap'[actives] = Atom(Active)
  <2>1. actives # all
    BY <1>7
  <2>2. heap'[actives] = heap[actives]
    BY <1>8, <1>17, <2>1
  <2>3. prefs[Active] = 0 => heap[actives] = {}
    BY <1>2, <1>5 DEF actives
  <2>4. prefs[Active] # 0 => actives = prefs[Active]
    BY DEF actives
  <2> QED
    BY <2>2, <2>3, <2>4 DEF Atom
<1>25. \A i \in DOMAIN views : heap'[views'[i].actives] = heap[views[i].actives]
  <2>1. SUFFICES ASSUME NEW i \in DOMAIN views
                 PROVE  heap'[views[i].actives] = heap[views[i].actives]
    BY <1>13
  <2>2. views[i].actives \in Objects /\ views[i].actives \in NameObjects(prefs, views)
    BY <1>2, <2>1, NamesOfView
  <2> QED
    BY <1>4, <1>7, <1>17, <2>2
<1>26. IndInv'
  BY <1>1, <1>16, <1>21, <1>22, <1>23, ViewStep
<1> QED
  BY <1>12, <1>13, <1>24, <1>25, <1>26

\* What only the view that is closed referred to is collected.
LEMMA CloseStep ==
    ASSUME IndInv, Close
    PROVE  IndInv' /\ KeepsNames /\ DOMAIN views' = DOMAIN views \ {Len(views)}
<1>1. /\ click.pc = "idle"
      /\ views # << >>
      /\ views' = SubSeq(views, 1, Len(views) - 1)
      /\ heap' = Collect(heap, prefs, views')
      /\ UNCHANGED <<prefs, click, store, service, booted, tracked, torn, unsure>>
  BY DEF Close
<1>2. Minds(prefs, views) /\ Fits(heap, prefs, views, Sound)
  BY DEF IndInv, MindInv, Holds
<1>3. /\ Minds(prefs, views')
      /\ NameObjects(prefs, views') \subseteq NameObjects(prefs, views)
      /\ PackObjects(prefs, views') \subseteq PackObjects(prefs, views)
      /\ DOMAIN views' = DOMAIN views \ {Len(views)}
      /\ \A i \in DOMAIN views' : i \in DOMAIN views /\ views'[i] = views[i]
  BY <1>1, <1>2, OneViewLess
<1>4. Fits(heap, prefs, views', Sound)
  BY <1>2, <1>3 DEF Fits
<1>5. Holds(heap', prefs, views', Sound)
  BY <1>1, <1>4, Collected
<1>6. Minds(prefs, views)'
  BY <1>1, <1>3 DEF Minds
<1>7. prefs[Active] \in Objects \union {0} /\ prefs[Active] \in Used(prefs, views')
  BY <1>2 DEF Minds, Used, Keys
<1>8. prefs[Active] # 0 => heap'[prefs[Active]] = heap[prefs[Active]]
  BY <1>1, <1>7 DEF Collect
<1>9. KeepsNames
  <2>1. SUFFICES ASSUME NEW i \in DOMAIN views'
                 PROVE  heap'[views'[i].actives] = heap[views'[i].actives]
    BY <1>3 DEF KeepsNames
  <2>2. views'[i].actives \in Objects
    BY <1>3, <2>1, NamesOfView
  <2>3. views'[i].actives \in Used(prefs, views')
    BY <2>1 DEF Used
  <2> QED
    BY <1>1, <2>2, <2>3 DEF Collect
<1>10. IndInv'
  BY <1>1, <1>5, <1>6, <1>8, ViewStep
<1> QED
  BY <1>3, <1>9, <1>10

\* Packages go in or out of the set of the view in front, which holds none
\* of the names.
LEMMA BoxStep ==
    ASSUME IndInv, click.pc = "idle", views # << >>, NEW s \in SUBSET Packages,
           NEW rows \in SUBSET Packages, NEW items \in SUBSET Packages,
           heap' = [heap EXCEPT ![View.packages] = s],
           views' = [views EXCEPT ![Len(views)] =
                       [View EXCEPT !.rows = rows, !.items = items, !.text = "save"]],
           UNCHANGED <<prefs, click, store, service, booted, past>>
    PROVE  IndInv' /\ KeepsNames /\ DOMAIN views' = DOMAIN views
<1> DEFINE v == [View EXCEPT !.rows = rows, !.items = items, !.text = "save"]
<1>1. Minds(prefs, views) /\ Fits(heap, prefs, views, Sound)
      /\ \A o \in Objects : o \notin Used(prefs, views) => heap[o] = {}
  BY DEF IndInv, MindInv, Holds
<1>2. /\ View \in ViewRecords /\ Len(views) \in DOMAIN views
      /\ View.packages \in Objects /\ View.packages \in PackObjects(prefs, views)
  BY <1>1, ViewInFront
<1>3. v \in ViewRecords /\ v.actives = View.actives /\ v.packages = View.packages /\ v.all = View.all
  BY <1>2 DEF ViewRecords, Texts
<1> HIDE DEF v
<1>4. /\ Minds(prefs, views')
      /\ NameObjects(prefs, views') = NameObjects(prefs, views)
      /\ PackObjects(prefs, views') = PackObjects(prefs, views)
      /\ DOMAIN views' = DOMAIN views
      /\ \A i \in DOMAIN views : views'[i].actives = views[i].actives
  <2>1. views' = [views EXCEPT ![Len(views)] = v]
    BY DEF v
  <2>2. v.actives = views[Len(views)].actives /\ v.all = views[Len(views)].all
        /\ v.packages = views[Len(views)].packages
    BY <1>3 DEF View
  <2>3. /\ Minds(prefs, [views EXCEPT ![Len(views)] = v])
        /\ NameObjects(prefs, [views EXCEPT ![Len(views)] = v]) = NameObjects(prefs, views)
        /\ PackObjects(prefs, [views EXCEPT ![Len(views)] = v]) = PackObjects(prefs, views)
        /\ DOMAIN [views EXCEPT ![Len(views)] = v] = DOMAIN views
        /\ \A i \in DOMAIN views : [views EXCEPT ![Len(views)] = v][i].actives = views[i].actives
    BY <1>1, <1>3, <2>2, MovedView
  <2> QED
    BY <2>1, <2>3
<1>5. View.packages \notin NameObjects(prefs, views)
  BY <1>1, <1>2 DEF Minds
<1>6. heap' \in [Objects -> Contents] /\ heap'[View.packages] = s
      /\ \A o \in Objects : o # View.packages => heap'[o] = heap[o]
  BY <1>1, <1>2 DEF Fits, Contents
<1>7. Used(prefs, views') = Used(prefs, views) /\ View.packages \in Used(prefs, views)
  BY <1>2, <1>4, Roles
<1>8. Holds(heap', prefs, views', Sound)
  BY <1>1, <1>4, <1>5, <1>6, <1>7 DEF Fits, Holds
<1>9. prefs[Active] \in Objects \union {0} /\ prefs[Active] \in NameObjects(prefs, views)
  BY <1>1 DEF Minds, NameObjects, Keys
<1>10. prefs[Active] # 0 => heap'[prefs[Active]] = heap[prefs[Active]]
  BY <1>5, <1>6, <1>9
<1>11. Minds(prefs, views)'
  BY <1>4 DEF Minds
<1>12. UNCHANGED <<prefs, click, store, service, booted, tracked, torn, unsure>>
  BY DEF past
<1>13. KeepsNames
  <2>1. SUFFICES ASSUME NEW i \in DOMAIN views
                 PROVE  heap'[views[i].actives] = heap[views[i].actives]
    BY <1>4 DEF KeepsNames
  <2>2. views[i].actives \in Objects /\ views[i].actives \in NameObjects(prefs, views)
    BY <1>1, <2>1, NamesOfView
  <2> QED
    BY <1>5, <1>6, <2>2
<1>14. IndInv'
  BY <1>8, <1>10, <1>11, <1>12, ViewStep
<1> QED
  BY <1>4, <1>13, <1>14

\* The box that the user taps.
LEMMA TickStep ==
    ASSUME IndInv, NEW p \in Packages, Tick(p)
    PROVE  IndInv' /\ KeepsNames /\ DOMAIN views' = DOMAIN views
<1> DEFINE on      == p \notin View.rows
           Flip(s) == IF on THEN s \union {p} ELSE s \ {p}
<1>1. /\ click.pc = "idle"
      /\ views # << >>
      /\ heap' = [heap EXCEPT ![View.packages] = Flip(@)]
      /\ views' = [views EXCEPT ![Len(views)].rows = Flip(@),
                                ![Len(views)].items = Flip(@),
                                ![Len(views)].text = "save"]
      /\ UNCHANGED <<prefs, click, store, service, booted, past>>
  BY DEF Tick
<1>2. Minds(prefs, views) /\ Fits(heap, prefs, views, Sound)
  BY DEF IndInv, MindInv, Holds
<1>3. /\ View \in ViewRecords /\ Len(views) \in DOMAIN views
      /\ View.packages \in Objects /\ View.packages \in PackObjects(prefs, views)
  BY <1>1, <1>2, ViewInFront
<1>4. /\ Flip(heap[View.packages]) \in SUBSET Packages
      /\ Flip(View.rows) \in SUBSET Packages
      /\ Flip(View.items) \in SUBSET Packages
  BY <1>2, <1>3 DEF Fits, ViewRecords
<1>5. views' = [views EXCEPT ![Len(views)] =
                  [View EXCEPT !.rows = Flip(View.rows), !.items = Flip(View.items), !.text = "save"]]
  BY <1>1, <1>3 DEF View, ViewRecords
<1>6. heap' = [heap EXCEPT ![View.packages] = Flip(heap[View.packages])]
  BY <1>1
<1> HIDE DEF Flip
<1> QED
  BY <1>1, <1>4, <1>5, <1>6, BoxStep

\* The boxes that a layout sets.
LEMMA LayoutStep ==
    ASSUME IndInv, Layout
    PROVE  IndInv' /\ KeepsNames /\ DOMAIN views' = DOMAIN views
<1> DEFINE s == (heap[View.packages] \union (View.items \ View.rows)) \ (View.rows \ View.items)
<1>1. /\ click.pc = "idle"
      /\ views # << >>
      /\ heap' = [heap EXCEPT ![View.packages] = s]
      /\ views' = [views EXCEPT ![Len(views)].rows = View.items,
                                ![Len(views)].text = "save"]
      /\ UNCHANGED <<prefs, click, store, service, booted, past>>
  BY DEF Layout
<1>2. Minds(prefs, views) /\ Fits(heap, prefs, views, Sound)
  BY DEF IndInv, MindInv, Holds
<1>3. /\ View \in ViewRecords /\ Len(views) \in DOMAIN views
      /\ View.packages \in Objects /\ View.packages \in PackObjects(prefs, views)
  BY <1>1, <1>2, ViewInFront
<1>4. s \in SUBSET Packages /\ View.items \in SUBSET Packages
  BY <1>2, <1>3 DEF Fits, ViewRecords
<1>5. views' = [views EXCEPT ![Len(views)] =
                  [View EXCEPT !.rows = View.items, !.items = View.items, !.text = "save"]]
  BY <1>1, <1>3 DEF View, ViewRecords
<1> HIDE DEF s
<1> QED
  BY <1>1, <1>4, <1>5, BoxStep

----------------------------------------------------------------------------
(* Steps that leave the sets, the preferences and the views alone.          *)

\* They keep the roles and contents, if no app falls out of Sound.
LEMMA SameMind ==
    ASSUME IndInv, Sound \subseteq Sound', UNCHANGED <<heap, prefs, views, disk>>
    PROVE  MindInv' /\ DiskInv' /\ Stored(Active)' = Stored(Active)
<1>1. Holds(heap, prefs, views, Sound')
  BY DEF IndInv, MindInv, Holds, Fits
<1>2. MindInv'
  BY <1>1 DEF IndInv, MindInv
<1>3. Stored(Active)' = Stored(Active) /\ Atom(Active)' = Atom(Active)
  BY DEF Stored, Atom
<1> QED
  BY <1>2, <1>3 DEF IndInv, DiskInv

\* The notifier finds the names of the tracked apps and starts the service.
LEMMA OnReceiveStep ==
    ASSUME IndInv, OnReceive
    PROVE  IndInv'
<1>1. /\ click.pc = "idle"
      /\ service' = (service \/ Atom(Active) # {})
      /\ booted' = TRUE
      /\ UNCHANGED <<heap, prefs, views, click, disk, tmp, file, copies, tracked, torn, unsure>>
  BY DEF OnReceive, mind, store, past
<1>2. Sound' = Sound
  BY <1>1 DEF Sound, Hooks
<1>3. MindInv' /\ DiskInv' /\ Stored(Active)' = Stored(Active)
  BY <1>1, <1>2, SameMind
<1>4. ClickInv'
  BY <1>1, <1>2 DEF IndInv, ClickInv
<1>5. NamesInv'
  BY <1>1, <1>2, <1>3 DEF IndInv, NamesInv, Lost
<1>6. ServiceInv'
  <2>1. Atom(Active) = tracked /\ Known = tracked /\ Known' = tracked
    BY <1>1 DEF IndInv, NamesInv, DiskInv, Lost, Known
  <2> QED
    BY <1>1, <2>1 DEF IndInv, ServiceInv
<1>7. CopyInv'
  BY <1>1 DEF IndInv, CopyInv, Hooks
<1> QED
  BY <1>3, <1>4, <1>5, <1>6, <1>7 DEF IndInv

\* The service is started with the first app and stopped with the last.
LEMMA ServiceStep ==
    ASSUME IndInv, StartOrStopService
    PROVE  IndInv'
<1>1. /\ click.pc = "service"
      /\ service' = IF click.kind = "untrack" THEN service /\ click.actives # {}
                    ELSE service \/ Cardinality(click.actives) = 1
      /\ click' = [click EXCEPT !.pc = "put"]
      /\ UNCHANGED <<heap, prefs, views, disk, tmp, file, copies, booted, tracked, torn, unsure>>
  BY DEF StartOrStopService, store, past
<1>2. /\ click'.pc = "put" /\ click'.app = click.app /\ click'.kind = click.kind
      /\ click'.actives = click.actives
  BY <1>1 DEF IndInv, ClickInv
<1>3. Sound' = Sound
  BY <1>1, <1>2 DEF Sound, Hooks
<1>4. MindInv' /\ DiskInv' /\ Stored(Active)' = Stored(Active)
  BY <1>1, <1>3, SameMind
<1>5. ClickInv'
  BY <1>1, <1>2, <1>3 DEF IndInv, ClickInv, Places
<1>6. NamesInv'
  BY <1>1, <1>2, <1>3 DEF IndInv, NamesInv, Lost
<1>7. ServiceInv'
  <2>1. Known = tracked /\ Known' = click.actives
    BY <1>1, <1>2 DEF Known
  <2>2. unsure \/ click.actives = IF click.kind = "untrack" THEN tracked \ {click.app}
                                  ELSE tracked \union {click.app}
    BY <1>1 DEF IndInv, NamesInv, Lost
  <2>3. service' \in BOOLEAN /\ booted' \in BOOLEAN
    BY <1>1 DEF IndInv, ServiceInv
  <2>4. CASE click.kind = "untrack"
    <3>1. ~unsure /\ booted /\ click.actives # {} => service
      BY <2>1, <2>2, <2>4 DEF IndInv, ServiceInv
    <3> QED
      BY <1>1, <2>1, <2>3, <2>4, <3>1 DEF ServiceInv
  <2>5. CASE click.kind # "untrack"
    <3>1. Cardinality({click.app}) = 1
      BY FS_Singleton
    <3>2. ~unsure => click.actives # {}
      BY <2>2, <2>5
    <3>3. ~unsure /\ booted => service'
      <4>1. CASE tracked = {}
        <5>1. ~unsure => click.actives = {click.app}
          BY <2>2, <2>5, <4>1
        <5> QED
          BY <1>1, <2>5, <3>1, <5>1
      <4>2. CASE tracked # {}
        BY <1>1, <2>1, <2>5, <4>2 DEF IndInv, ServiceInv
      <4> QED
        BY <4>1, <4>2
    <3> QED
      BY <1>1, <2>1, <2>3, <3>2, <3>3 DEF ServiceInv
  <2> QED
    BY <2>4, <2>5
<1>8. CopyInv'
  <2>1. copies["view"].app = None
    BY <1>1 DEF IndInv, CopyInv
  <2> QED
    BY <1>1, <1>2, <2>1 DEF IndInv, CopyInv
<1> QED
  BY <1>4, <1>5, <1>6, <1>7, <1>8 DEF IndInv

\* The list for the app is in the temporary file; a copy that was left behind
\* is for an app whose list is torn already.
LEMMA WriteStep ==
    ASSUME IndInv, WriteList
    PROVE  IndInv'
<1> DEFINE l == [app |-> click.app, packages |-> heap[View.packages]]
<1>1. /\ click.pc = "write"
      /\ tmp' = l
      /\ copies' = [c \in Copiers |->
                      CASE c = "view"            -> [app |-> click.app, list |-> None]
                        [] copies[c].list # None -> [copies[c] EXCEPT !.list = tmp']
                        [] OTHER                 -> copies[c]]
      /\ click' = [click EXCEPT !.pc = "cp"]
      /\ UNCHANGED <<heap, prefs, views, disk, file, service, booted, tracked, torn, unsure>>
  BY DEF WriteList, past
<1>2. /\ click'.pc = "cp" /\ click'.app = click.app /\ click'.kind = click.kind
      /\ click'.actives = click.actives
  BY <1>1 DEF IndInv, ClickInv
<1>3. Sound' = Sound
  BY <1>1, <1>2 DEF Sound, Hooks
<1>4. MindInv' /\ DiskInv' /\ Stored(Active)' = Stored(Active)
  BY <1>1, <1>3, SameMind
<1>5. ClickInv'
  BY <1>1, <1>2, <1>3 DEF IndInv, ClickInv, Places
<1>6. NamesInv'
  BY <1>1, <1>2, <1>3, <1>4 DEF IndInv, NamesInv, Lost
<1>7. ServiceInv'
  BY <1>1, <1>2 DEF IndInv, ServiceInv, Known
<1>8. l \in Lists /\ l.app = click.app
  <2>1. Minds(prefs, views) /\ Fits(heap, prefs, views, Sound) /\ views # << >> /\ click.app \in Apps
    BY <1>1 DEF IndInv, MindInv, Holds, ClickInv
  <2>2. heap[View.packages] \subseteq Packages
    BY <2>1, ViewInFront DEF Fits
  <2> QED
    BY <2>1, <2>2 DEF Lists
<1> HIDE DEF l
<1>9. CopyInv'
  <2>1. /\ copies["orphan"] \in [app : Apps \union {None}, list : Lists \union {None}]
        /\ click.app \in Apps
    BY <1>1 DEF IndInv, CopyInv, ClickInv, Copiers
  <2>2. copies'["view"] = [app |-> click.app, list |-> None]
    <3>1. copies["view"].app = None
      BY <1>1 DEF IndInv, CopyInv
    <3>2. copies["view"].list = None
      BY <3>1, KeyAssumption DEF IndInv, CopyInv, Lists
    <3> QED
      BY <1>1, <3>2 DEF Copiers
  <2>3. copies'["orphan"] = IF copies["orphan"].list # None THEN [copies["orphan"] EXCEPT !.list = l]
                            ELSE copies["orphan"]
    BY <1>1 DEF Copiers
  <2>4. copies'["orphan"].app = copies["orphan"].app
        /\ copies'["orphan"] \in [app : Apps \union {None}, list : Lists \union {None}]
    BY <1>8, <2>1, <2>3
  <2>5. copies' \in [Copiers -> [app : Apps \union {None}, list : Lists \union {None}]]
    <3>1. \A c \in Copiers : copies'[c] \in [app : Apps \union {None}, list : Lists \union {None}]
      BY <2>1, <2>2, <2>4 DEF Copiers
    <3>2. copies' = [c \in Copiers |-> copies'[c]]
      BY <1>1
    <3> QED
      BY <3>1, <3>2
  <2>6. copies'["view"].app = click.app /\ copies'["view"].list = None
    BY <2>2
  <2> QED
    BY <1>1, <1>2, <1>8, <2>4, <2>5, <2>6 DEF IndInv, CopyInv
<1> QED
  BY <1>4, <1>5, <1>6, <1>7, <1>9 DEF IndInv

\* The temporary file goes when the list is right or given up.
LEMMA DeleteStep ==
    ASSUME IndInv, DeleteTmp
    PROVE  IndInv'
<1>1. /\ click.pc = "delete"
      /\ tmp' = None
      /\ click' = Idle
      /\ UNCHANGED <<heap, prefs, views, disk, file, copies, service, booted, tracked, torn, unsure>>
  BY DEF DeleteTmp, past
<1>2. click'.pc = "idle" /\ click'.app = None /\ click'.kind = None /\ click'.actives = {}
  BY <1>1 DEF Idle
<1>3. Sound \subseteq Sound'
  <2>1. \A a \in Apps : Hooks(a)' <=> Hooks(a)
    BY <1>1 DEF Hooks
  <2>2. click.app \in Apps /\ (click.app \in torn \/ Hooks(click.app))
    BY <1>1 DEF IndInv, CopyInv, ClickInv
  <2> QED
    BY <1>1, <2>1, <2>2 DEF Sound
<1>4. MindInv' /\ DiskInv' /\ Stored(Active)' = Stored(Active)
  BY <1>1, <1>3, SameMind
<1>5. ClickInv'
  BY <1>1, <1>2 DEF ClickInv, Idle, Places
<1>6. NamesInv'
  BY <1>1, <1>2, <1>3, <1>4 DEF IndInv, NamesInv, Lost
<1>7. ServiceInv'
  BY <1>1, <1>2 DEF IndInv, ServiceInv, Known
<1>8. CopyInv'
  <2>1. copies["view"].app = None
    BY <1>1 DEF IndInv, CopyInv
  <2> QED
    BY <1>1, <1>2, <2>1 DEF IndInv, CopyInv
<1> QED
  BY <1>4, <1>5, <1>6, <1>7, <1>8 DEF IndInv

----------------------------------------------------------------------------
(* The copy by su: the one the view waits for, and the one left behind.      *)

CopyRecords == [app : Apps \union {None}, list : Lists \union {None}]

\* A step changes one of the two copies; the other is as it was.
LEMMA CopyChanges ==
    ASSUME copies \in [Copiers -> CopyRecords], NEW c \in Copiers, NEW r \in CopyRecords,
           copies' = [copies EXCEPT ![c] = r]
    PROVE  /\ copies' \in [Copiers -> CopyRecords]
           /\ copies'[c] = r
           /\ \A d \in Copiers : d # c => copies'[d] = copies[d]
OBVIOUS

\* A file has a list of app a's own.
Right(f, a) == f[a] \in Lists /\ f[a].app = a

\* One file is written: the others are as they were.
LEMMA FileChanges ==
    ASSUME CopyInv, NEW x, NEW l \in Lists \union {None, Partial}, file' = [file EXCEPT ![x] = l]
    PROVE  /\ file' \in [Apps -> Lists \union {None, Partial}]
           /\ x \in Apps => file'[x] = l
           /\ \A a \in Apps : a # x => (Right(file', a) <=> Right(file, a))
BY DEF CopyInv, Right

\* The view's copy has the list of the view's app, the other an app whose
\* list is torn.
LEMMA CopyOfView ==
    ASSUME IndInv
    PROVE  /\ copies["view"].app # None =>
                click.pc = "cp" /\ copies["view"].app = click.app /\ click.app \in Apps
           /\ copies["orphan"].app # None => copies["orphan"].app \in torn
           /\ copies["view"].app = None => copies["view"].list = None
           /\ copies \in [Copiers -> CopyRecords]
<1>1. copies["view"].app = None => copies["view"].list = None
  BY KeyAssumption DEF IndInv, CopyInv, Lists
<1>2. copies["view"].app # None =>
        click.pc = "cp" /\ copies["view"].app = click.app /\ click.app \in Apps
  BY DEF IndInv, CopyInv, ClickInv
<1> QED
  BY <1>1, <1>2 DEF IndInv, CopyInv, CopyRecords

\* cp opens both files: the list of its app is cut, and will be what it reads.
LEMMA BeginStep ==
    ASSUME IndInv, NEW c \in Copiers, CpBegins(c)
    PROVE  IndInv'
<1> DEFINE x == copies[c].app
<1>1. /\ x # None /\ copies[c].list = None /\ tmp # None
      /\ copies' = [copies EXCEPT ![c].list = tmp]
      /\ file' = [file EXCEPT ![x] = Partial]
      /\ UNCHANGED <<heap, prefs, views, click, disk, tmp, service, booted, tracked, torn, unsure>>
  BY DEF CpBegins, mind, past
<1>2. /\ copies["view"].app # None =>
           click.pc = "cp" /\ copies["view"].app = click.app /\ click.app \in Apps
      /\ copies["orphan"].app # None => copies["orphan"].app \in torn
      /\ copies \in [Copiers -> CopyRecords]
  BY CopyOfView
<1>3. x = click.app \/ x \in torn
  BY <1>1, <1>2 DEF Copiers
<1>4. /\ file' \in [Apps -> Lists \union {None, Partial}]
      /\ \A a \in Apps : a # x => (Right(file', a) <=> Right(file, a))
  BY <1>1, FileChanges DEF IndInv
<1>5. Sound \subseteq Sound'
  BY <1>1, <1>3, <1>4 DEF Sound, Hooks, Right
<1>6. MindInv' /\ DiskInv' /\ Stored(Active)' = Stored(Active)
  BY <1>1, <1>5, SameMind
<1>7. ClickInv'
  BY <1>1, <1>5 DEF IndInv, ClickInv
<1>8. NamesInv'
  BY <1>1, <1>5, <1>6 DEF IndInv, NamesInv, Lost
<1>9. ServiceInv'
  BY <1>1 DEF IndInv, ServiceInv, Known
<1>10. CopyInv'
  <2> DEFINE r == [copies[c] EXCEPT !.list = tmp]
  <2>1. tmp \in Lists
    BY <1>1 DEF IndInv, CopyInv
  <2>2. r \in CopyRecords /\ r.app = x /\ r.list = tmp
    BY <1>2, <2>1 DEF CopyRecords
  <2>3. copies' = [copies EXCEPT ![c] = r]
    BY <1>1
  <2> HIDE DEF r
  <2>4. /\ copies' \in [Copiers -> CopyRecords]
        /\ copies'[c] = r
        /\ \A d \in Copiers : d # c => copies'[d] = copies[d]
    BY <1>2, <2>2, <2>3, CopyChanges
  <2>5. \A d \in Copiers : copies'[d].app = copies[d].app
    BY <2>2, <2>4
  <2>6. copies'["view"].list # None => /\ copies'["view"].list \in Lists
                                       /\ copies'["view"].list.app = copies'["view"].app
    <3>1. CASE c = "view"
      <4>1. click.pc = "cp" /\ x = click.app /\ tmp.app = click.app
        BY <1>1, <1>2, <3>1 DEF IndInv, CopyInv
      <4> QED
        BY <2>1, <2>2, <2>4, <3>1, <4>1
    <3>2. CASE c # "view"
      <4>1. copies'["view"] = copies["view"]
        BY <2>4, <3>2 DEF Copiers
      <4> QED
        BY <4>1 DEF IndInv, CopyInv
    <3> QED
      BY <3>1, <3>2
  <2>7. click.pc = "delete" => click.app \in torn \/ Right(file', click.app)
    <3>1. SUFFICES ASSUME click.pc = "delete", click.app \notin torn PROVE Right(file', click.app)
      OBVIOUS
    <3>2. x # click.app /\ click.app \in Apps
      BY <1>1, <1>2, <3>1 DEF Copiers, IndInv, ClickInv
    <3> QED
      BY <1>4, <3>1, <3>2 DEF IndInv, CopyInv, Hooks, Right
  <2>9. copies'["view"].app = copies["view"].app /\ copies'["orphan"].app = copies["orphan"].app
    BY <2>5 DEF Copiers
  <2>10. copies' \in [Copiers -> [app : Apps \union {None}, list : Lists \union {None}]]
    BY <2>4 DEF CopyRecords
  <2>8. tmp' = tmp /\ torn' = torn /\ click' = click
    BY <1>1
  <2>11. /\ copies'["orphan"].app # None => copies'["orphan"].app \in torn'
         /\ copies'["view"].app # None => click'.pc = "cp"
         /\ click'.pc = "cp" => copies'["view"].app = click'.app /\ tmp' \in Lists /\ tmp'.app = click'.app
         /\ tmp' \in Lists \union {None}
    BY <1>1, <2>9 DEF IndInv, CopyInv
  <2>12. click'.pc = "delete" => click'.app \in torn' \/ Right(file', click'.app)
    BY <2>7, <2>8
  <2> QED
    BY <1>4, <2>6, <2>10, <2>11, <2>12 DEF CopyInv, Hooks, Right
<1> QED
  BY <1>6, <1>7, <1>8, <1>9, <1>10 DEF IndInv

\* A copy that is over: what the steps of its end have in common.
LEMMA EndStep ==
    ASSUME IndInv, NEW c \in Copiers, copies[c].app # None \/ copies[c].list # None,
           Sound \subseteq Sound', torn' \subseteq Apps, CpReturns(c),
           file' \in [Apps -> Lists \union {None, Partial}],
           c # "orphan" /\ copies["orphan"].app # None => copies["orphan"].app \in torn',
           c = "view" => click.app \in torn' \/ Right(file', click.app),
           c = "orphan" /\ click.pc = "delete" => click.app \in torn' \/ Right(file', click.app),
           UNCHANGED <<heap, prefs, views, disk, tmp, service, booted, tracked, unsure>>
    PROVE  IndInv'
<1>1. /\ copies' = [copies EXCEPT ![c] = NoCopy]
      /\ click' = IF c = "view" THEN [click EXCEPT !.pc = "delete"] ELSE click
  BY DEF CpReturns
<1>2. /\ copies["view"].app # None => click.pc = "cp"
      /\ copies["view"].app = None => copies["view"].list = None
      /\ copies \in [Copiers -> CopyRecords]
  BY CopyOfView
<1>3. c = "view" => click.pc = "cp"
  BY <1>2
<1>4. /\ click'.app = click.app /\ click'.kind = click.kind /\ click'.actives = click.actives
      /\ click'.pc = IF c = "view" THEN "delete" ELSE click.pc
  BY <1>1 DEF IndInv, ClickInv
<1>5. NoCopy \in CopyRecords /\ NoCopy.app = None /\ NoCopy.list = None
  BY DEF NoCopy, CopyRecords
<1>6. /\ copies' \in [Copiers -> CopyRecords]
      /\ copies'[c].app = None /\ copies'[c].list = None
      /\ \A d \in Copiers : d # c => copies'[d] = copies[d]
  BY <1>1, <1>2, <1>5, CopyChanges
<1>7. MindInv' /\ DiskInv' /\ Stored(Active)' = Stored(Active)
  BY SameMind
<1>8. ClickInv'
  BY <1>1, <1>3, <1>4 DEF IndInv, ClickInv, Places
<1>9. NamesInv'
  BY <1>3, <1>4, <1>7 DEF IndInv, NamesInv, Lost
<1>10. ServiceInv'
  BY <1>3, <1>4 DEF IndInv, ServiceInv, Known
<1>11. CASE c = "view"
  <2>1. copies'["orphan"] = copies["orphan"] /\ copies'["view"].app = None /\ copies'["view"].list = None
    BY <1>6, <1>11 DEF Copiers
  <2>2. click'.pc = "delete"
    BY <1>4, <1>11
  <2>3. CopyInv'
    BY <1>4, <1>6, <1>11, <2>1, <2>2 DEF IndInv, CopyInv, CopyRecords, Hooks, Right
  <2> QED
    BY <1>7, <1>8, <1>9, <1>10, <2>3 DEF IndInv
<1>12. CASE c = "orphan"
  <2>1. copies'["view"] = copies["view"] /\ copies'["orphan"].app = None
    BY <1>6, <1>12 DEF Copiers
  <2>2. click'.pc = click.pc
    BY <1>4, <1>12
  <2>3. CopyInv'
    BY <1>4, <1>6, <1>12, <2>1, <2>2 DEF IndInv, CopyInv, CopyRecords, Hooks, Right
  <2> QED
    BY <1>7, <1>8, <1>9, <1>10, <2>3 DEF IndInv
<1> QED
  BY <1>11, <1>12 DEF Copiers

\* cp has written the list: the view's is right, the other's app stays torn.
LEMMA EndsStep ==
    ASSUME IndInv, NEW c \in Copiers, CpEnds(c)
    PROVE  IndInv'
<1> DEFINE x == copies[c].app
           l == copies[c].list
<1>1. /\ l # None
      /\ file' = [file EXCEPT ![x] = l]
      /\ torn' = IF c = "view" /\ copies["orphan"].app # x THEN torn \ {x} ELSE torn
      /\ CpReturns(c)
      /\ UNCHANGED <<heap, prefs, views, disk, tmp, service, booted, tracked, unsure>>
  BY DEF CpEnds
<1>2. /\ copies["view"].app # None =>
           click.pc = "cp" /\ copies["view"].app = click.app /\ click.app \in Apps
      /\ copies["orphan"].app # None => copies["orphan"].app \in torn
      /\ copies["view"].app = None => copies["view"].list = None
      /\ copies \in [Copiers -> CopyRecords]
  BY CopyOfView
<1>3. l \in Lists \union {None, Partial}
  BY <1>2 DEF CopyRecords
<1>4. /\ file' \in [Apps -> Lists \union {None, Partial}]
      /\ x \in Apps => file'[x] = l
      /\ \A a \in Apps : a # x => (Right(file', a) <=> Right(file, a))
  BY <1>1, <1>3, FileChanges DEF IndInv
<1>5. torn' \subseteq Apps
  BY <1>1 DEF IndInv, NamesInv
<1>6. click'.app = click.app
  BY <1>1 DEF IndInv, ClickInv, CpReturns
<1>7. CASE c = "view"
  <2>1. x = click.app /\ x \in Apps
    BY <1>1, <1>2, <1>7
  <2>2. l \in Lists /\ l.app = x
    BY <1>1, <1>7 DEF IndInv, CopyInv
  <2>3. Right(file', x)
    BY <1>4, <2>1, <2>2 DEF Right
  <2>4. Sound \subseteq Sound'
    BY <1>1, <1>4, <1>6, <2>3 DEF Sound, Hooks, Right
  <2>5. copies["orphan"].app # None => copies["orphan"].app \in torn'
    BY <1>1, <1>2
  <2>6. Right(file', click.app)
    BY <2>1, <2>3
  <2> QED
    BY <1>1, <1>4, <1>5, <1>7, <2>4, <2>5, <2>6, EndStep
<1>8. CASE c = "orphan"
  <2>1. torn' = torn
    BY <1>1, <1>8
  <2>2. \A a \in Apps : a \notin torn => (Right(file', a) <=> Right(file, a))
    BY <1>2, <1>4, <1>8, KeyAssumption
  <2>3. Sound \subseteq Sound'
    BY <1>6, <2>1, <2>2 DEF Sound, Hooks, Right
  <2>4. click.pc = "delete" => click.app \in torn' \/ Right(file', click.app)
    BY <2>1, <2>2 DEF IndInv, ClickInv, CopyInv, Hooks, Right
  <2> QED
    BY <1>1, <1>4, <1>5, <1>8, <2>3, <2>4, EndStep
<1> QED
  BY <1>7, <1>8 DEF Copiers

\* su refused: the list of the app is torn.
LEMMA FailsStep ==
    ASSUME IndInv, NEW c \in Copiers, CpFails(c)
    PROVE  IndInv'
<1> DEFINE x == copies[c].app
<1>1. /\ x # None /\ copies[c].list = None
      /\ torn' = torn \union {x}
      /\ CpReturns(c)
      /\ UNCHANGED <<heap, prefs, views, disk, tmp, file, service, booted, tracked, unsure>>
  BY DEF CpFails
<1>2. /\ copies["view"].app # None =>
           click.pc = "cp" /\ copies["view"].app = click.app /\ click.app \in Apps
      /\ copies["orphan"].app # None => copies["orphan"].app \in torn
      /\ copies \in [Copiers -> CopyRecords]
  BY CopyOfView
<1>3. click'.app = click.app
  BY <1>1 DEF IndInv, ClickInv, CpReturns
<1>4. \A a : Right(file', a) <=> Right(file, a)
  BY <1>1
<1>5. Sound \subseteq Sound'
  BY <1>1, <1>3, <1>4 DEF Sound, Hooks, Right
<1>6. torn' \subseteq Apps
  BY <1>1, <1>2 DEF IndInv, NamesInv, CopyRecords
<1>7. file' \in [Apps -> Lists \union {None, Partial}]
  BY <1>1 DEF IndInv, CopyInv
<1>8. copies["orphan"].app # None => copies["orphan"].app \in torn'
  BY <1>1, <1>2
<1>9. c = "view" => click.app \in torn'
  BY <1>1, <1>2
<1>10. click.pc = "delete" => click.app \in torn' \/ Right(file', click.app)
  BY <1>1, <1>4 DEF IndInv, CopyInv, Hooks, Right
<1> QED
  BY <1>1, <1>5, <1>6, <1>7, <1>8, <1>9, <1>10, EndStep

----------------------------------------------------------------------------
(* The commits of onClick.                                                  *)

\* After a commit that was written the file is what the preferences hold.
LEMMA CommitDisk ==
    ASSUME DiskInv, NEW S, S \subseteq Apps, Minds(prefs', views'), Holds(heap', prefs', views', S),
           prefs' = prefs /\ prefs[Active] # 0 => heap'[prefs[Active]] = heap[prefs[Active]],
           disk' = IF prefs' = prefs THEN disk
                   ELSE [x \in Keys |-> IF prefs'[x] = 0 THEN None ELSE heap'[prefs'[x]]]
    PROVE  DiskInv'
<1>1. CASE prefs' = prefs
  <2>1. disk' = disk /\ Stored(Active)' = Stored(Active)
    BY <1>1 DEF Stored
  <2>2. Atom(Active)' = Atom(Active)
    BY <1>1 DEF Atom
  <2> QED
    BY <2>1, <2>2 DEF DiskInv
<1>2. CASE prefs' # prefs
  <2>1. disk' = [x \in Keys |-> IF prefs'[x] = 0 THEN None ELSE heap'[prefs'[x]]]
    BY <1>2
  <2>2. /\ prefs' \in [Keys -> Objects \union {0}]
        /\ heap' \in [Objects -> Contents]
    BY DEF Minds, Holds, Fits
  <2>3. disk' \in [Keys -> Contents \union {None}]
    BY <2>1, <2>2
  <2>4. \A a \in Apps : disk'[a] = None \/ disk'[a] \subseteq Packages
    <3>1. SUFFICES ASSUME NEW a \in Apps, prefs'[a] # 0 PROVE disk'[a] \subseteq Packages
      BY <2>1 DEF Keys
    <3>2. prefs'[a] \in Objects /\ prefs'[a] \in PackObjects(prefs', views')
      BY <2>2, <3>1 DEF PackObjects, Keys
    <3>3. heap'[prefs'[a]] \subseteq Packages
      BY <3>2 DEF Holds, Fits
    <3> QED
      BY <2>1, <3>1, <3>3 DEF Keys
  <2>5. Active \in Keys
    BY DEF Keys
  <2>6. Stored(Active)' = Atom(Active)'
    <3>1. CASE prefs'[Active] = 0
      <4>1. disk'[Active] = None
        BY <2>1, <2>5, <3>1
      <4> QED
        BY <3>1, <4>1 DEF Stored, Atom
    <3>2. CASE prefs'[Active] # 0
      <4>1. prefs'[Active] \in Objects /\ heap'[prefs'[Active]] \in Contents
        BY <2>2, <2>5, <3>2
      <4>2. heap'[prefs'[Active]] # None
        BY <4>1, KeyAssumption DEF Contents
      <4>3. disk'[Active] = heap'[prefs'[Active]]
        BY <2>1, <2>5, <3>2
      <4> QED
        BY <3>2, <4>2, <4>3 DEF Stored, Atom
    <3> QED
      BY <3>1, <3>2
  <2> QED
    BY <2>3, <2>4, <2>6 DEF DiskInv
<1> QED
  BY <1>1, <1>2

\* The names go in or out of the view's set, and off the preferences.
LEMMA PressStep ==
    ASSUME IndInv, Press
    PROVE  /\ IndInv'
           /\ views # << >> /\ views' = views
           /\ click'.pc = "service" /\ click'.actives = Toggled
           /\ View.app \in Apps /\ View.actives \in Objects
           /\ \A i \in DOMAIN views : views[i].actives = View.actives
                                     => heap'[views[i].actives] = Toggled
<1> DEFINE h == [heap EXCEPT ![View.actives] = Toggled]
<1>1. /\ click.pc = "idle"
      /\ views # << >>
      /\ click' = [pc |-> "service", app |-> View.app, kind |-> Kind, actives |-> Toggled]
      /\ Commit(h, views, {Active}, None, {})
      /\ unsure' = (unsure \/ heap[View.actives] # tracked)
      /\ UNCHANGED <<tmp, file, copies, service, booted, tracked, torn>>
  BY DEF Press
<1>2. Minds(prefs, views) /\ Fits(heap, prefs, views, Sound) /\ DiskInv
      /\ click.app = None
  BY <1>1 DEF IndInv, MindInv, Holds, ClickInv
<1>3. /\ View \in ViewRecords
      /\ View.actives \in Objects /\ View.actives \in NameObjects(prefs, views)
  BY <1>1, <1>2, ViewInFront
<1>4. View.app \in Apps /\ Kind \in {"track", "untrack", "save"}
  BY <1>3 DEF ViewRecords, Kind
<1>5. click'.pc = "service" /\ click'.app = View.app /\ click'.kind = Kind /\ click'.actives = Toggled
  BY <1>1
<1>6. Sound \subseteq Sound' /\ View.app \in Sound'
  BY <1>1, <1>2, <1>4, <1>5, KeyAssumption DEF Sound, Hooks
<1>7. heap[View.actives] \subseteq Sound
  BY <1>2, <1>3 DEF Fits
<1>8. Toggled \subseteq Sound' /\ Sound' \subseteq Apps /\ Toggled \in Contents
  BY <1>4, <1>6, <1>7 DEF Toggled, Sound, Contents
<1>9. View.actives \notin PackObjects(prefs, views)
  BY <1>2, <1>3 DEF Minds
<1>10. Fits(h, prefs, views, Sound')
  <2>1. h \in [Objects -> Contents] /\ h[View.actives] = Toggled
        /\ \A o \in Objects : o # View.actives => h[o] = heap[o]
    BY <1>2, <1>3, <1>8 DEF Fits
  <2> HIDE DEF h
  <2> QED
    BY <1>2, <1>6, <1>8, <1>9, <2>1 DEF Fits
<1>11. MayPut(None, {}, Sound') /\ None # Active
  BY KeyAssumption DEF MayPut, Contents
<1> HIDE DEF h
<1>12. /\ views' = views
       /\ Minds(prefs', views)
       /\ Holds(heap', prefs', views, Sound')
       /\ \A x \in Keys : x # None => prefs'[x] = IF x \in {Active} THEN 0 ELSE prefs[x]
       /\ \A i \in DOMAIN views : heap'[views[i].actives] = h[views[i].actives]
       /\ disk' = IF prefs' = prefs THEN disk
                  ELSE [x \in Keys |-> IF prefs'[x] = 0 THEN None ELSE heap'[prefs'[x]]]
  BY <1>1, <1>2, <1>10, <1>11, CommitWorks
<1>13. prefs'[Active] = 0
  BY <1>11, <1>12 DEF Keys
<1>14. MindInv'
  BY <1>12 DEF MindInv
<1>15. DiskInv'
  BY <1>2, <1>8, <1>12, <1>13, CommitDisk
<1>16. ClickInv'
  BY <1>1, <1>4, <1>5, <1>8, <1>12 DEF ClickInv, Places
<1>17. NamesInv'
  <2>1. unsure' \in BOOLEAN /\ torn' \subseteq Apps /\ tracked' \subseteq Sound'
    BY <1>1, <1>6 DEF IndInv, NamesInv
  <2>2. unsure' \/ click'.actives = IF click'.kind = "untrack" THEN tracked' \ {click'.app}
                                    ELSE tracked' \union {click'.app}
    BY <1>1, <1>5 DEF Toggled
  <2> QED
    BY <1>5, <1>13, <2>1, <2>2 DEF NamesInv, Lost
<1>18. ServiceInv'
  <2>1. Known' = Known
    BY <1>1, <1>5 DEF Known
  <2>2. ~unsure' => ~unsure
    BY <1>1 DEF IndInv, NamesInv
  <2> QED
    BY <1>1, <2>1, <2>2 DEF IndInv, ServiceInv
<1>19. CopyInv'
  BY <1>1, <1>5 DEF IndInv, CopyInv
<1>20. h[View.actives] = Toggled
  BY <1>2, <1>3 DEF h, Fits
<1> QED
  BY <1>1, <1>3, <1>4, <1>5, <1>12, <1>14, <1>15, <1>16, <1>17, <1>18, <1>19, <1>20 DEF IndInv

\* They are put back, in a set of the preferences' own.
LEMMA PutStep ==
    ASSUME IndInv, Put
    PROVE  /\ IndInv' /\ KeepsNames /\ DOMAIN views' = DOMAIN views
           /\ tracked' = click.actives /\ click'.pc \in {"save", "write"}
<1> DEFINE front == [View EXCEPT
             !.text     = IF click.kind = "untrack" THEN "track"
                          ELSE IF click.kind = "track" THEN "untrack" ELSE @,
             !.packages = IF click.kind = "track" THEN View.all ELSE @,
             !.items    = CASE click.kind = "track"   -> Packages
                            [] click.kind = "untrack" -> {}
                            [] OTHER                  -> @]
           vs == [views EXCEPT ![Len(views)] = front]
           r  == IF click.kind = "save" THEN {click.app} ELSE {}
<1>1. /\ click.pc = "put"
      /\ Commit(heap, vs, r, Active, click.actives)
      /\ click' = [click EXCEPT !.pc = IF click.kind = "save" THEN "save" ELSE "write"]
      /\ tracked' = IF unsure THEN click.actives
                    ELSE IF click.kind = "untrack" THEN tracked \ {click.app}
                    ELSE tracked \union {click.app}
      /\ UNCHANGED <<tmp, file, copies, service, booted, torn, unsure>>
  BY DEF Put
<1>2. /\ Minds(prefs, views) /\ Fits(heap, prefs, views, Sound) /\ DiskInv
      /\ views # << >> /\ click.app \in Apps
      /\ click.actives \subseteq Sound /\ click.actives \in Contents
      /\ prefs[Active] = 0
      /\ unsure \/ click.actives = IF click.kind = "untrack" THEN tracked \ {click.app}
                                   ELSE tracked \union {click.app}
  BY <1>1 DEF IndInv, MindInv, Holds, ClickInv, NamesInv, Lost, Contents
<1>3. View \in ViewRecords /\ Len(views) \in DOMAIN views
  BY <1>2, ViewInFront
<1>4. /\ front \in ViewRecords /\ front.actives = View.actives /\ front.all = View.all
      /\ front.packages = View.packages \/ front.packages = View.all
  BY <1>3 DEF ViewRecords, Texts
<1> HIDE DEF front
<1>5. /\ Minds(prefs, vs)
      /\ NameObjects(prefs, vs) = NameObjects(prefs, views)
      /\ PackObjects(prefs, vs) \subseteq PackObjects(prefs, views)
      /\ DOMAIN vs = DOMAIN views
      /\ \A i \in DOMAIN views : vs[i].actives = views[i].actives
  BY <1>2, <1>4, MovedView DEF View
<1>6. vs # << >>
  BY <1>3
<1> HIDE DEF vs, r
<1>7. Used(prefs, vs) \subseteq Used(prefs, views)
  BY <1>5, Roles
<1>8. Fits(heap, prefs, vs, Sound)
  BY <1>2, <1>5 DEF Fits
<1>9. MayPut(Active, click.actives, Sound) /\ Active \in Keys
  BY <1>2, KeyAssumption DEF MayPut, Keys
<1>10. /\ views' = vs
       /\ Minds(prefs', vs)
       /\ Holds(heap', prefs', vs, Sound)
       /\ prefs'[Active] # 0 /\ heap'[prefs'[Active]] = click.actives
       /\ \A i \in DOMAIN vs : heap'[vs[i].actives] = heap[vs[i].actives]
       /\ disk' = IF prefs' = prefs THEN disk
                  ELSE [x \in Keys |-> IF prefs'[x] = 0 THEN None ELSE heap'[prefs'[x]]]
  BY <1>1, <1>2, <1>5, <1>7, <1>8, <1>9, CommitWorks
<1>11. /\ click'.pc \in {"save", "write"} /\ click'.app = click.app /\ click'.kind = click.kind
       /\ click'.actives = click.actives
  BY <1>1 DEF IndInv, ClickInv
<1>12. Sound' = Sound /\ Sound \subseteq Apps
  BY <1>1, <1>11 DEF Sound, Hooks
<1>13. MindInv'
  BY <1>10, <1>12 DEF MindInv
<1>14. DiskInv'
  BY <1>2, <1>10, <1>12, CommitDisk
<1>15. Stored(Active)' = click.actives /\ tracked' = click.actives
  BY <1>1, <1>2, <1>10, <1>14 DEF DiskInv, Atom
<1>16. ClickInv'
  BY <1>1, <1>2, <1>6, <1>10, <1>11, <1>12 DEF IndInv, ClickInv, Places
<1>17. NamesInv'
  BY <1>1, <1>2, <1>11, <1>12, <1>15 DEF IndInv, NamesInv, Lost
<1>18. ServiceInv'
  <2>1. Known' = Known
    BY <1>1, <1>11, <1>15 DEF Known
  <2> QED
    BY <1>1, <2>1 DEF IndInv, ServiceInv
<1>19. CopyInv'
  BY <1>1, <1>11 DEF IndInv, CopyInv
<1>20. KeepsNames
  BY <1>5, <1>10 DEF KeepsNames
<1> QED
  BY <1>5, <1>10, <1>11, <1>13, <1>14, <1>15, <1>16, <1>17, <1>18, <1>19, <1>20 DEF IndInv

\* The packages of the view are put, in a set of their own.
LEMMA SaveStep ==
    ASSUME IndInv, SavePackages
    PROVE  /\ IndInv' /\ KeepsNames /\ DOMAIN views' = DOMAIN views
           /\ click'.pc = "write" /\ click'.actives = click.actives
<1> DEFINE front == [View EXCEPT !.text = "untrack"]
           vs    == [views EXCEPT ![Len(views)].text = "untrack"]
           s     == heap[View.packages]
<1>1. /\ click.pc = "save"
      /\ Commit(heap, vs, {}, click.app, s)
      /\ click' = [click EXCEPT !.pc = "write"]
      /\ UNCHANGED <<tmp, file, copies, service, booted, tracked, torn, unsure>>
  BY DEF SavePackages, past
<1>2. /\ Minds(prefs, views) /\ Fits(heap, prefs, views, Sound) /\ DiskInv
      /\ views # << >> /\ click.app \in Apps
  BY <1>1 DEF IndInv, MindInv, Holds, ClickInv
<1>3. View \in ViewRecords /\ Len(views) \in DOMAIN views
      /\ View.packages \in Objects /\ View.packages \in PackObjects(prefs, views)
  BY <1>2, ViewInFront
<1>4. /\ front \in ViewRecords /\ front.actives = View.actives /\ front.all = View.all
      /\ front.packages = View.packages
  BY <1>3 DEF ViewRecords, Texts
<1>5. vs = [views EXCEPT ![Len(views)] = front]
  BY <1>3 DEF View, ViewRecords
<1> HIDE DEF front, vs
<1>6. /\ Minds(prefs, vs)
      /\ NameObjects(prefs, vs) = NameObjects(prefs, views)
      /\ PackObjects(prefs, vs) \subseteq PackObjects(prefs, views)
      /\ DOMAIN vs = DOMAIN views
      /\ \A i \in DOMAIN views : vs[i].actives = views[i].actives
  BY <1>2, <1>4, <1>5, MovedView DEF View
<1>7. vs # << >>
  BY <1>3, <1>5
<1>8. Used(prefs, vs) \subseteq Used(prefs, views)
  BY <1>6, Roles
<1>9. Fits(heap, prefs, vs, Sound)
  BY <1>2, <1>6 DEF Fits
<1>10. s \in Contents /\ s \subseteq Packages
  BY <1>2, <1>3 DEF Fits
<1>11. MayPut(click.app, s, Sound) /\ Active \in Keys /\ click.app # Active
  BY <1>2, <1>10, KeyAssumption DEF MayPut, Keys
<1> HIDE DEF s
<1>12. /\ views' = vs
       /\ Minds(prefs', vs)
       /\ Holds(heap', prefs', vs, Sound)
       /\ \A x \in Keys : x # click.app => prefs'[x] = IF x \in {} THEN 0 ELSE prefs[x]
       /\ \A x \in Keys : x # click.app /\ prefs'[x] # 0 => heap'[prefs'[x]] = heap[prefs[x]]
       /\ \A i \in DOMAIN vs : heap'[vs[i].actives] = heap[vs[i].actives]
       /\ disk' = IF prefs' = prefs THEN disk
                  ELSE [x \in Keys |-> IF prefs'[x] = 0 THEN None ELSE heap'[prefs'[x]]]
  BY <1>1, <1>2, <1>6, <1>8, <1>9, <1>10, <1>11, CommitWorks
<1>13. prefs'[Active] = prefs[Active]
       /\ (prefs[Active] # 0 => heap'[prefs[Active]] = heap[prefs[Active]])
  BY <1>11, <1>12
<1>14. /\ click'.pc = "write" /\ click'.app = click.app /\ click'.kind = click.kind
       /\ click'.actives = click.actives
  BY <1>1 DEF IndInv, ClickInv
<1>15. Sound' = Sound /\ Sound \subseteq Apps
  BY <1>1, <1>14 DEF Sound, Hooks
<1>16. MindInv'
  BY <1>12, <1>15 DEF MindInv
<1>17. DiskInv'
  BY <1>2, <1>12, <1>13, <1>15, CommitDisk
<1>18. Stored(Active)' = Stored(Active)
  BY <1>2, <1>13, <1>17 DEF DiskInv, Atom
<1>19. ClickInv'
  BY <1>1, <1>2, <1>7, <1>12, <1>14, <1>15 DEF IndInv, ClickInv, Places
<1>20. NamesInv'
  BY <1>1, <1>14, <1>15, <1>18 DEF IndInv, NamesInv, Lost
<1>21. ServiceInv'
  BY <1>1, <1>14 DEF IndInv, ServiceInv, Known
<1>22. CopyInv'
  BY <1>1, <1>14 DEF IndInv, CopyInv
<1>23. KeepsNames
  BY <1>6, <1>12 DEF KeepsNames
<1> QED
  BY <1>6, <1>12, <1>14, <1>16, <1>17, <1>19, <1>20, <1>21, <1>22, <1>23 DEF IndInv

----------------------------------------------------------------------------
(* The process ends, and another one reads the file.                        *)

\* An object is found for each key that the file has, and no two keys share
\* one.
LEMMA LoadWorks ==
    /\ Load(disk) \in [Keys -> Objects \union {0}]
    /\ \A k \in Keys : Load(disk)[k] = 0 <=> disk[k] = None
    /\ \A k, l \in Keys : Load(disk)[k] # 0 /\ Load(disk)[k] = Load(disk)[l] => k = l
<1> DEFINE has == {k \in Keys : disk[k] # None}
           n   == Cardinality(has)
           Good(p) == /\ \A k \in Keys : p[k] = 0 <=> k \notin has
                      /\ \A k, l \in has : p[k] = p[l] => k = l
<1>1. IsFiniteSet(Keys) /\ Cardinality(Keys) \in Nat /\ Cardinality(Keys) <= MaxObjects
  <2>1. IsFiniteSet(Apps) /\ Cardinality(Apps) \in Nat
    BY RoomAssumption, FS_CardinalityType
  <2>2. /\ IsFiniteSet(Keys)
        /\ Cardinality(Keys) = IF Active \in Apps THEN Cardinality(Apps) ELSE Cardinality(Apps) + 1
    BY <2>1, FS_AddElement DEF Keys
  <2> QED
    BY <2>1, <2>2, RoomAssumption
<1>2. IsFiniteSet(has) /\ n <= Cardinality(Keys)
  <2>1. has \in SUBSET Keys
    OBVIOUS
  <2> HIDE DEF has
  <2> QED
    BY <1>1, <2>1, FS_Subset
<1> HIDE DEF has
<1>3. n \in Nat /\ ExistsBijection(1..n, has)
  BY <1>2, FS_CardinalityType
<1>4. PICK f \in Bijection(1..n, has) : TRUE
  BY <1>3 DEF ExistsBijection
<1> HIDE DEF n
<1>5. f \in [1..n -> has] /\ \A k \in has : \E i \in 1..n : f[i] = k
  BY <1>4 DEF Bijection, Injection, Surjection
<1>6. \E p \in [Keys -> 0..n] : Good(p)
  <2> DEFINE q == [k \in Keys |-> IF k \in has THEN CHOOSE i \in 1..n : f[i] = k ELSE 0]
  <2>1. \A k \in has : k \in Keys /\ q[k] \in 1..n /\ f[q[k]] = k
    <3>1. SUFFICES ASSUME NEW k \in has PROVE k \in Keys /\ q[k] \in 1..n /\ f[q[k]] = k
      OBVIOUS
    <3>2. k \in Keys
      BY DEF has
    <3>3. q[k] = CHOOSE i \in 1..n : f[i] = k
      BY <3>2
    <3>4. \E i \in 1..n : f[i] = k
      BY <1>5
    <3> HIDE DEF q
    <3> QED
      BY <3>2, <3>3, <3>4
  <2>2. \A k \in Keys : k \notin has => q[k] = 0
    OBVIOUS
  <2>3. q = [k \in Keys |-> q[k]]
    OBVIOUS
  <2> HIDE DEF q
  <2>4. q \in [Keys -> 0..n]
    <3>1. \A k \in Keys : q[k] \in 0..n
      BY <1>3, <2>1, <2>2
    <3> QED
      BY <2>3, <3>1
  <2>5. Good(q)
    BY <1>3, <2>1, <2>2
  <2> QED
    BY <2>4, <2>5
<1>7. Load(disk) \in [Keys -> 0..n] /\ Good(Load(disk))
  <2>1. Load(disk) = CHOOSE p \in [Keys -> 0..n] : Good(p)
    BY DEF Load, has, n
  <2> HIDE DEF Good
  <2> QED
    BY <1>6, <2>1
<1>8. n <= MaxObjects
  BY <1>1, <1>2, <1>3, RoomAssumption DEF n
<1>9. 0..n \subseteq Objects \union {0}
  BY <1>3, <1>8, RoomAssumption DEF Objects
<1>10. Load(disk) \in [Keys -> Objects \union {0}]
  BY <1>7, <1>9
<1> QED
  BY <1>7, <1>10 DEF has

\* The new process has the names and packages that the file has.
LEMMA ReloadWorks ==
    ASSUME IndInv, Reload, Stored(Active) \subseteq Sound', disk' = disk
    PROVE  MindInv' /\ DiskInv' /\ Stored(Active)' = Stored(Active)
<1>1. /\ prefs' = Load(disk)
      /\ heap' = [o \in Objects |-> IF \E k \in Keys : prefs'[k] = o
                                    THEN disk[CHOOSE k \in Keys : prefs'[k] = o]
                                    ELSE {}]
      /\ views' = << >>
  BY DEF Reload
<1>2. /\ prefs' \in [Keys -> Objects \union {0}]
      /\ \A k \in Keys : prefs'[k] = 0 <=> disk[k] = None
      /\ \A k, l \in Keys : prefs'[k] # 0 /\ prefs'[k] = prefs'[l] => k = l
  BY <1>1, LoadWorks
<1>3. /\ disk \in [Keys -> Contents \union {None}]
      /\ \A a \in Apps : disk[a] = None \/ disk[a] \subseteq Packages
      /\ {} \in Contents /\ 0 \notin Objects
  BY DEF IndInv, DiskInv, Contents, Objects
<1>4. \A k \in Keys : prefs'[k] # 0 => prefs'[k] \in Objects /\ heap'[prefs'[k]] = disk[k]
  <2>1. SUFFICES ASSUME NEW k \in Keys, prefs'[k] # 0
                 PROVE  prefs'[k] \in Objects /\ heap'[prefs'[k]] = disk[k]
    OBVIOUS
  <2>2. prefs'[k] \in Objects
    BY <1>2, <2>1
  <2>3. (CHOOSE l \in Keys : prefs'[l] = prefs'[k]) = k
    BY <1>2, <2>1
  <2> QED
    BY <1>1, <2>2, <2>3
<1>5. \A o \in Objects : (\A k \in Keys : prefs'[k] # o) => heap'[o] = {}
  BY <1>1
<1>6. heap' \in [Objects -> Contents]
  <2>1. \A o \in Objects : heap'[o] \in Contents
    <3>1. SUFFICES ASSUME NEW o \in Objects PROVE heap'[o] \in Contents
      OBVIOUS
    <3>2. CASE \E k \in Keys : prefs'[k] = o
      <4>1. PICK k \in Keys : prefs'[k] = o
        BY <3>2
      <4>2. prefs'[k] # 0 /\ disk[k] # None
        BY <1>2, <1>3, <4>1
      <4> QED
        BY <1>3, <1>4, <4>1, <4>2
    <3>3. CASE \A k \in Keys : prefs'[k] # o
      BY <1>3, <1>5, <3>3
    <3> QED
      BY <3>2, <3>3
  <2>2. heap' = [o \in Objects |-> heap'[o]]
    BY <1>1
  <2> QED
    BY <2>1, <2>2
<1>7. NameObjects(prefs', views') = {prefs'[Active]}
      /\ PackObjects(prefs', views') = {prefs'[a] : a \in Apps}
      /\ Used(prefs', views') = {prefs'[k] : k \in Keys}
  BY <1>1 DEF NameObjects, PackObjects, Used
<1>8. Active \in Keys /\ Active \notin Apps /\ Apps \subseteq Keys
  BY KeyAssumption DEF Keys
<1>9. Minds(prefs', views')
  <2>1. \A o \in Objects : ~(o \in NameObjects(prefs', views') /\ o \in PackObjects(prefs', views'))
    BY <1>2, <1>3, <1>7, <1>8
  <2>2. views' \in Seq(ViewRecords) /\ Len(views') <= MaxViews
    BY <1>1, RoomAssumption
  <2> QED
    BY <1>2, <2>1, <2>2 DEF Minds
<1>10. Stored(Active)' = Stored(Active)
  BY DEF Stored
<1>11. Atom(Active)' = Stored(Active)
  BY <1>2, <1>4, <1>8 DEF Atom, Stored
<1>12. \A o \in Objects : o \in NameObjects(prefs', views') => heap'[o] \subseteq Sound'
  <2>1. prefs'[Active] # 0 => heap'[prefs'[Active]] = Stored(Active)
    BY <1>11 DEF Atom
  <2> QED
    BY <1>3, <1>7, <2>1
<1>13. \A o \in Objects : o \in PackObjects(prefs', views') => heap'[o] \subseteq Packages
  <2>1. SUFFICES ASSUME NEW a \in Apps, prefs'[a] \in Objects PROVE heap'[prefs'[a]] \subseteq Packages
    BY <1>7
  <2>2. prefs'[a] # 0 /\ a \in Keys
    BY <1>3, <1>8, <2>1
  <2> QED
    BY <1>2, <1>3, <1>4, <2>2
<1>14. Holds(heap', prefs', views', Sound')
  BY <1>5, <1>6, <1>7, <1>12, <1>13 DEF Holds, Fits
<1>15. MindInv'
  BY <1>9, <1>14 DEF MindInv
<1>16. DiskInv'
  BY <1>3, <1>10, <1>11 DEF DiskInv
<1> QED
  BY <1>10, <1>15, <1>16

\* The end of a process in the middle of a press loses the names, or leaves a
\* list that counts as torn; the invariant of what it leaves behind.
LEMMA DiesStep ==
    ASSUME IndInv, Dies, disk' = disk, file' = file, torn \subseteq torn', torn' \subseteq Apps,
           Died => click.app \in torn'
    PROVE  /\ MindInv' /\ DiskInv' /\ ClickInv'
           /\ unsure' \in BOOLEAN => NamesInv'
           /\ click' = Idle
           /\ tracked' = IF Lost THEN {} ELSE tracked
<1>1. /\ Reload
      /\ click' = Idle
      /\ tracked' = IF Lost THEN {} ELSE tracked
  BY DEF Dies, Reload
<1>2. click'.pc = "idle" /\ click'.app = None /\ click'.kind = None /\ click'.actives = {}
  BY <1>1 DEF Idle
<1>3. \A a \in Apps : Hooks(a)' <=> Hooks(a)
  BY DEF Hooks
<1>4. click.pc = "delete" => click.app \in torn \/ Hooks(click.app)
  BY DEF IndInv, CopyInv
<1>5. click.pc # "service" => Sound \subseteq Sound'
  <2>1. SUFFICES ASSUME click.pc # "service", NEW a \in Sound PROVE a \in Sound'
    OBVIOUS
  <2>2. a \in Apps /\ (a \in torn \/ click.app = a \/ Hooks(a))
    BY <2>1 DEF Sound
  <2>3. CASE a \in torn \/ Hooks(a)
    BY <1>3, <2>2, <2>3 DEF Sound
  <2>4. CASE click.app = a
    <3>1. click.pc # "idle" /\ click.pc \in Places
      BY <2>2, <2>4, KeyAssumption DEF IndInv, ClickInv
    <3>2. CASE click.pc = "delete"
      <4>1. a \in torn \/ Hooks(a)
        BY <1>4, <2>4, <3>2
      <4> QED
        BY <1>3, <2>2, <4>1 DEF Sound
    <3>3. CASE Died
      BY <2>2, <2>4, <3>3 DEF Sound
    <3> QED
      BY <2>1, <3>1, <3>2, <3>3 DEF Places, Died
  <2> QED
    BY <2>2, <2>3, <2>4
<1>6. Lost => Stored(Active) = {}
  BY DEF IndInv, NamesInv, DiskInv, Atom
<1>7. ~Lost => Stored(Active) = tracked /\ tracked \subseteq Sound
  BY DEF IndInv, NamesInv
<1>8. Stored(Active) \subseteq Sound' /\ Stored(Active) = tracked'
  BY <1>1, <1>5, <1>6, <1>7 DEF Lost
<1>9. MindInv' /\ DiskInv' /\ Stored(Active)' = Stored(Active)
  BY <1>1, <1>8, ReloadWorks
<1>10. ClickInv'
  BY <1>1, <1>2 DEF ClickInv, Idle, Places
<1>11. ASSUME unsure' \in BOOLEAN PROVE NamesInv'
  BY <1>2, <1>8, <1>9, <1>11 DEF NamesInv, Lost
<1> QED
  BY <1>1, <1>9, <1>10, <1>11

\* Without a press in the names, the service goes on as it did.
LEMMA KillStep ==
    ASSUME IndInv, Kill
    PROVE  IndInv'
<1>1. /\ Dies
      /\ copies' = IF copies["view"].app = None THEN copies
                   ELSE [view |-> NoCopy, orphan |-> copies["view"]]
      /\ torn' = IF Died THEN torn \union {click.app} ELSE torn
      /\ unsure' = (unsure \/ Lost)
      /\ UNCHANGED <<disk, tmp, file, service, booted>>
  BY DEF Kill
<1>2. torn \subseteq torn' /\ torn' \subseteq Apps /\ (Died => click.app \in torn')
  BY <1>1 DEF IndInv, NamesInv, ClickInv, Died
<1>3. unsure' \in BOOLEAN
  BY <1>1 DEF IndInv, NamesInv, Lost
<1>4. /\ MindInv' /\ DiskInv' /\ ClickInv' /\ NamesInv'
      /\ click' = Idle
      /\ tracked' = IF Lost THEN {} ELSE tracked
  BY <1>1, <1>2, <1>3, DiesStep
<1>5. click'.pc = "idle"
  BY <1>4 DEF Idle
<1>6. ServiceInv'
  <2>1. ~unsure' => ~unsure /\ ~Lost
    BY <1>1 DEF IndInv, NamesInv
  <2>2. ~unsure' => Known' = Known
    BY <1>4, <1>5, <2>1 DEF Known, Lost
  <2> QED
    BY <1>1, <2>1, <2>2 DEF IndInv, ServiceInv
<1>7. CopyInv'
  <2>1. /\ copies["view"].app # None => click.pc = "cp" /\ copies["view"].app = click.app
        /\ copies["orphan"].app # None => copies["orphan"].app \in torn
        /\ copies["view"].app = None => copies["view"].list = None
        /\ copies \in [Copiers -> CopyRecords]
    BY CopyOfView
  <2>2. NoCopy \in CopyRecords /\ NoCopy.app = None /\ NoCopy.list = None
    BY DEF NoCopy, CopyRecords
  <2>3. CASE copies["view"].app = None
    <3>1. copies' = copies
      BY <1>1, <2>3
    <3> QED
      BY <1>1, <1>2, <1>5, <2>1, <2>3, <3>1 DEF IndInv, CopyInv
  <2>4. CASE copies["view"].app # None
    <3>1. copies'["view"] = NoCopy /\ copies'["orphan"] = copies["view"]
          /\ copies' = [view |-> NoCopy, orphan |-> copies["view"]]
      BY <1>1, <2>4
    <3>2. copies' \in [Copiers -> CopyRecords]
      BY <2>1, <2>2, <3>1 DEF Copiers
    <3>3. copies'["orphan"].app \in torn'
      BY <1>2, <2>1, <2>4, <3>1 DEF Died
    <3> QED
      BY <1>1, <1>5, <2>2, <3>1, <3>2, <3>3 DEF IndInv, CopyInv, CopyRecords
  <2> QED
    BY <2>3, <2>4
<1> QED
  BY <1>4, <1>6, <1>7 DEF IndInv

\* A device that starts has no service and no copies.
LEMMA RebootStep ==
    ASSUME IndInv, Reboot
    PROVE  IndInv'
<1>1. /\ Dies
      /\ copies' = [c \in Copiers |-> NoCopy]
      /\ service' = FALSE
      /\ booted' = FALSE
      /\ torn' = torn \union (IF Died THEN {click.app} ELSE {})
                      \union {copies[c].app : c \in {x \in Copiers : copies[x].app # None}}
      /\ unsure' = FALSE
      /\ UNCHANGED <<disk, tmp, file>>
  BY DEF Reboot
<1>2. torn \subseteq torn' /\ (Died => click.app \in torn')
  BY <1>1
<1>3. torn' \subseteq Apps
  <2>1. torn \subseteq Apps /\ (Died => click.app \in Apps)
    BY DEF IndInv, NamesInv, ClickInv, Died
  <2>2. \A c \in Copiers : copies[c].app # None => copies[c].app \in Apps
    BY DEF IndInv, CopyInv
  <2> QED
    BY <1>1, <2>1, <2>2
<1>4. MindInv' /\ DiskInv' /\ ClickInv' /\ NamesInv' /\ click' = Idle
  BY <1>1, <1>2, <1>3, DiesStep
<1>5. click'.pc = "idle"
  BY <1>4 DEF Idle
<1>6. ServiceInv'
  BY <1>1 DEF ServiceInv
<1>7. CopyInv'
  <2>1. NoCopy \in CopyRecords /\ NoCopy.app = None /\ NoCopy.list = None
    BY DEF NoCopy, CopyRecords
  <2>2. copies'["view"] = NoCopy /\ copies'["orphan"] = NoCopy /\ copies' \in [Copiers -> CopyRecords]
    BY <1>1, <2>1 DEF Copiers
  <2> QED
    BY <1>1, <1>5, <2>1, <2>2 DEF IndInv, CopyInv, CopyRecords
<1> QED
  BY <1>4, <1>6, <1>7 DEF IndInv

----------------------------------------------------------------------------
(* What the user has chosen.                                                *)

\* A step that is no press and no end of the process keeps the chosen names
\* in hand; a view that is opened has those of the preferences.
LEMMA ChoiceStays ==
    ASSUME ChoiceInv, UNCHANGED <<chosen, forgot>>, Lost' => click'.actives = click.actives,
           Lost' => Lost, ~Lost' => tracked' = IF Lost THEN click.actives ELSE tracked,
           overtaken' \subseteq DOMAIN views',
           \A i \in DOMAIN views' \ overtaken' :
             \/ i \in DOMAIN views \ overtaken /\ heap'[views'[i].actives] = heap[views[i].actives]
             \/ ~Lost /\ heap'[views'[i].actives] = tracked
    PROVE  ChoiceInv'
<1>1. chosen' \subseteq Apps /\ forgot' \in BOOLEAN
  BY DEF ChoiceInv
<1>2. ASSUME ~forgot'
      PROVE  IF Lost' THEN click'.actives = chosen' ELSE tracked' = chosen'
  BY <1>2 DEF ChoiceInv
<1>3. ASSUME ~forgot', NEW i \in DOMAIN views' \ overtaken'
      PROVE  heap'[views'[i].actives] = chosen'
  BY <1>3 DEF ChoiceInv
<1> QED
  BY <1>1, <1>2, <1>3 DEF ChoiceInv

\* It is so for the steps that leave the sets and the views alone ...
LEMMA QuietChoice ==
    ASSUME ChoiceInv, UNCHANGED <<heap, views, tracked, chosen, overtaken, forgot>>,
           click'.actives = click.actives \/ ~Lost', Lost' <=> Lost
    PROVE  ChoiceInv'
<1>1. overtaken' \subseteq DOMAIN views'
  BY DEF ChoiceInv
<1>2. \A i \in DOMAIN views' \ overtaken' :
        i \in DOMAIN views \ overtaken /\ heap'[views'[i].actives] = heap[views[i].actives]
  OBVIOUS
<1>3. ~Lost' => tracked' = IF Lost THEN click.actives ELSE tracked
  OBVIOUS
<1> QED
  BY <1>1, <1>2, <1>3, ChoiceStays

\* ... for those that leave the names of the views as they are ...
LEMMA ViewChoice ==
    ASSUME ChoiceInv, KeepsNames, DOMAIN views' = DOMAIN views,
           UNCHANGED <<click, tracked, chosen, overtaken, forgot>>
    PROVE  ChoiceInv'
<1>1. Lost' <=> Lost
  BY DEF Lost
<1>2. overtaken' \subseteq DOMAIN views'
  BY DEF ChoiceInv
<1>3. \A i \in DOMAIN views' \ overtaken' :
        i \in DOMAIN views \ overtaken /\ heap'[views'[i].actives] = heap[views[i].actives]
  BY DEF KeepsNames
<1> QED
  BY <1>1, <1>2, <1>3, ChoiceStays

\* ... and for views that come and go.
LEMMA OpenChoice ==
    ASSUME IndInv, ChoiceInv, NEW a \in Apps, Open(a)
    PROVE  ChoiceInv'
<1>1. /\ DOMAIN views' = DOMAIN views \union {Len(views) + 1}
      /\ heap'[views'[Len(views) + 1].actives] = Atom(Active)
      /\ \A i \in DOMAIN views : heap'[views'[i].actives] = heap[views[i].actives]
  BY OpenStep
<1>2. click.pc = "idle" /\ UNCHANGED <<click, tracked, chosen, overtaken, forgot>>
  BY DEF Open, past, choice
<1>3. ~Lost /\ ~Lost'
  BY <1>2 DEF Lost
<1>4. Atom(Active) = tracked
  BY <1>3 DEF IndInv, DiskInv, NamesInv
<1>5. overtaken' \subseteq DOMAIN views'
  BY <1>1, <1>2 DEF ChoiceInv
<1> QED
  BY <1>1, <1>2, <1>3, <1>4, <1>5, ChoiceStays

LEMMA CloseChoice ==
    ASSUME IndInv, ChoiceInv, Close
    PROVE  ChoiceInv'
<1>1. KeepsNames /\ DOMAIN views' = DOMAIN views \ {Len(views)}
  BY CloseStep
<1>2. /\ overtaken' = overtaken \ {Len(views)}
      /\ UNCHANGED <<click, tracked, chosen, forgot>>
  BY DEF Close
<1>3. Lost' <=> Lost
  BY <1>2 DEF Lost
<1>4. overtaken' \subseteq DOMAIN views'
  BY <1>1, <1>2 DEF ChoiceInv
<1>5. \A i \in DOMAIN views' \ overtaken' :
        i \in DOMAIN views \ overtaken /\ heap'[views'[i].actives] = heap[views[i].actives]
  BY <1>1, <1>2 DEF KeepsNames
<1> QED
  BY <1>2, <1>3, <1>4, <1>5, ChoiceStays

\* A press takes the chosen names over to the app of the view, and into every
\* view that shares the set.
LEMMA PressChoice ==
    ASSUME IndInv, ChoiceInv, Press
    PROVE  ChoiceInv'
<1>1. /\ views # << >> /\ views' = views
      /\ click'.pc = "service" /\ click'.actives = Toggled
      /\ View.app \in Apps
      /\ \A i \in DOMAIN views : views[i].actives = View.actives
                                => heap'[views[i].actives] = Toggled
  BY PressStep
<1>2. /\ chosen' = IF Kind = "untrack" THEN chosen \ {View.app} ELSE chosen \union {View.app}
      /\ overtaken' = {i \in DOMAIN views : views[i].actives # View.actives}
      /\ forgot' = (forgot \/ Len(views) \in overtaken)
      /\ click.pc = "idle"
  BY DEF Press, Choose
<1>3. Len(views) \in DOMAIN views
  BY <1>1, ViewInFront DEF IndInv, MindInv
<1>4. ~forgot' => heap[View.actives] = chosen
  BY <1>2, <1>3 DEF ChoiceInv, View
<1>5. ~forgot' => Toggled = chosen'
  BY <1>2, <1>4 DEF Toggled
<1>6. Lost'
  BY <1>1 DEF Lost
<1>7. chosen' \subseteq Apps /\ overtaken' \subseteq DOMAIN views' /\ forgot' \in BOOLEAN
  BY <1>1, <1>2 DEF ChoiceInv
<1>8. \A i \in DOMAIN views' \ overtaken' : heap'[views'[i].actives] = Toggled
  BY <1>1, <1>2
<1> QED
  BY <1>1, <1>5, <1>6, <1>7, <1>8 DEF ChoiceInv

LEMMA PutChoice ==
    ASSUME IndInv, ChoiceInv, Put
    PROVE  ChoiceInv'
<1>1. /\ KeepsNames /\ DOMAIN views' = DOMAIN views
      /\ tracked' = click.actives /\ click'.pc \in {"save", "write"}
  BY PutStep
<1>2. click.pc = "put" /\ UNCHANGED <<chosen, overtaken, forgot>>
  BY DEF Put, choice
<1>3. Lost /\ ~Lost'
  BY <1>1, <1>2 DEF Lost
<1>4. overtaken' \subseteq DOMAIN views'
  BY <1>1, <1>2 DEF ChoiceInv
<1>5. \A i \in DOMAIN views' \ overtaken' :
        i \in DOMAIN views \ overtaken /\ heap'[views'[i].actives] = heap[views[i].actives]
  BY <1>1, <1>2 DEF KeepsNames
<1> QED
  BY <1>1, <1>2, <1>3, <1>4, <1>5, ChoiceStays

LEMMA SaveChoice ==
    ASSUME IndInv, ChoiceInv, SavePackages
    PROVE  ChoiceInv'
<1>1. KeepsNames /\ DOMAIN views' = DOMAIN views /\ click'.pc = "write"
  BY SaveStep
<1>2. click.pc = "save" /\ UNCHANGED <<tracked, chosen, overtaken, forgot>>
  BY DEF SavePackages, past, choice
<1>3. ~Lost /\ ~Lost'
  BY <1>1, <1>2 DEF Lost
<1>4. overtaken' \subseteq DOMAIN views'
  BY <1>1, <1>2 DEF ChoiceInv
<1>5. \A i \in DOMAIN views' \ overtaken' :
        i \in DOMAIN views \ overtaken /\ heap'[views'[i].actives] = heap[views[i].actives]
  BY <1>1, <1>2 DEF KeepsNames
<1> QED
  BY <1>2, <1>3, <1>4, <1>5, ChoiceStays

\* The rest of onClick does not touch the names.
LEMMA RestOfClickChoice ==
    ASSUME IndInv, ChoiceInv,
           \/ StartOrStopService \/ WriteList \/ DeleteTmp
           \/ \E c \in Copiers : CpBegins(c) \/ CpEnds(c) \/ CpFails(c)
    PROVE  ChoiceInv'
<1>0. DOMAIN click = {"pc", "app", "kind", "actives"}
  BY DEF IndInv, ClickInv
<1>1. CASE StartOrStopService
  <2>1. /\ click.pc = "service" /\ click'.pc = "put" /\ click'.actives = click.actives
        /\ UNCHANGED <<heap, views, tracked, chosen, overtaken, forgot>>
    BY <1>0, <1>1 DEF StartOrStopService, past, choice, IndInv, ClickInv
  <2>2. Lost' <=> Lost
    BY <2>1 DEF Lost
  <2> QED
    BY <2>1, <2>2, QuietChoice
<1>2. CASE WriteList
  <2>1. /\ click.pc = "write" /\ click'.pc = "cp"
        /\ UNCHANGED <<heap, views, tracked, chosen, overtaken, forgot>>
    BY <1>0, <1>2 DEF WriteList, past, choice, IndInv, ClickInv
  <2>2. ~Lost' /\ ~Lost
    BY <2>1 DEF Lost
  <2> QED
    BY <2>1, <2>2, QuietChoice
<1>3. CASE DeleteTmp
  <2>1. /\ click.pc = "delete" /\ click'.pc = "idle"
        /\ UNCHANGED <<heap, views, tracked, chosen, overtaken, forgot>>
    BY <1>3 DEF DeleteTmp, Idle, past, choice
  <2>2. ~Lost' /\ ~Lost
    BY <2>1 DEF Lost
  <2> QED
    BY <2>1, <2>2, QuietChoice
<1>4. ASSUME NEW c \in Copiers, CpBegins(c) \/ CpEnds(c) \/ CpFails(c)
      PROVE  ChoiceInv'
  <2>1. UNCHANGED <<heap, views, tracked, chosen, overtaken, forgot>>
    BY <1>4 DEF CpBegins, CpEnds, CpFails, mind, past, choice
  <2>2. click' = click \/ (c = "view" /\ copies[c].app # None /\ click'.pc = "delete")
    <3>1. copies["view"].app = None => copies["view"].list = None
      BY CopyOfView
    <3>2. CpReturns(c) => click' = click \/ (c = "view" /\ click'.pc = "delete")
      BY <1>0 DEF CpReturns, IndInv, ClickInv
    <3> QED
      BY <1>4, <3>1, <3>2 DEF CpBegins, CpEnds, CpFails, mind
  <2>3. CASE click' = click
    <3>1. Lost' <=> Lost
      BY <2>3 DEF Lost
    <3> QED
      BY <2>1, <2>3, <3>1, QuietChoice
  <2>4. CASE c = "view" /\ copies[c].app # None /\ click'.pc = "delete"
    <3>1. click.pc = "cp"
      BY <2>4 DEF IndInv, CopyInv
    <3>2. ~Lost' /\ ~Lost
      BY <2>4, <3>1 DEF Lost
    <3> QED
      BY <2>1, <3>2, QuietChoice
  <2> QED
    BY <2>2, <2>3, <2>4
<1> QED
  BY <1>1, <1>2, <1>3, <1>4

\* The new process has the names of the file, unless a press was on its way.
LEMMA DiesChoice ==
    ASSUME ChoiceInv, Dies
    PROVE  ChoiceInv'
<1>1. /\ views' = << >> /\ click' = Idle
      /\ tracked' = IF Lost THEN {} ELSE tracked
      /\ overtaken' = {} /\ forgot' = (forgot \/ Lost) /\ chosen' = chosen
  BY DEF Dies, Reload
<1>2. ~Lost'
  BY <1>1 DEF Lost, Idle
<1>3. DOMAIN views' = {}
  BY <1>1
<1> QED
  BY <1>1, <1>2, <1>3 DEF ChoiceInv, Lost

LEMMA NextChoice ==
    ASSUME IndInv, ChoiceInv, [Next]_vars
    PROVE  ChoiceInv'
<1>1. ASSUME NEW a \in Apps, Open(a) PROVE ChoiceInv'
  BY <1>1, OpenChoice
<1>2. CASE Close
  BY <1>2, CloseChoice
<1>3. ASSUME NEW p \in Packages, Tick(p) PROVE ChoiceInv'
  <2>1. UNCHANGED <<click, tracked, chosen, overtaken, forgot>>
    BY <1>3 DEF Tick, past, choice
  <2> QED
    BY <1>3, <2>1, TickStep, ViewChoice
<1>4. CASE Layout
  <2>1. UNCHANGED <<click, tracked, chosen, overtaken, forgot>>
    BY <1>4 DEF Layout, past, choice
  <2> QED
    BY <1>4, <2>1, LayoutStep, ViewChoice
<1>5. CASE OnClick
  BY <1>5, PressChoice, PutChoice, SaveChoice, RestOfClickChoice DEF OnClick
<1>6. CASE OnReceive \/ UNCHANGED vars
  <2>1. UNCHANGED <<heap, views, click, tracked, chosen, overtaken, forgot>>
    BY <1>6 DEF OnReceive, vars, mind, past, choice
  <2>2. Lost' <=> Lost
    BY <2>1 DEF Lost
  <2> QED
    BY <2>1, <2>2, QuietChoice
<1>7. CASE Kill \/ Reboot
  BY <1>7, DiesChoice DEF Kill, Reboot
<1> QED
  BY <1>1, <1>2, <1>3, <1>4, <1>5, <1>6, <1>7 DEF Next

----------------------------------------------------------------------------
(* The theorems.                                                            *)

\* The invariant holds when DAMN is installed.
LEMMA InitHolds ==
    ASSUME Init
    PROVE  IndInv
<1>1. click.pc = "idle" /\ click.app = None /\ click.kind = None /\ click.actives = {}
      /\ click = Idle
  BY DEF Init, Idle
<1>2. prefs = [k \in Keys |-> 0] /\ views = << >> /\ heap = [o \in Objects |-> {}]
      /\ 0 \notin Objects /\ {} \in Contents /\ Active \in Keys
  BY DEF Init, Objects, Contents, Keys
<1>3. Minds(prefs, views)
  <2>1. \A o \in Objects : o \notin PackObjects(prefs, views)
    BY <1>2 DEF PackObjects, Keys
  <2>2. views \in Seq(ViewRecords) /\ Len(views) <= MaxViews
    BY <1>2, RoomAssumption
  <2> QED
    BY <1>2, <2>1, <2>2 DEF Minds
<1>4. Holds(heap, prefs, views, Sound)
  BY <1>2 DEF Holds, Fits
<1>5. DiskInv
  BY <1>2 DEF Init, DiskInv, Stored, Atom, Keys
<1>6. ClickInv
  BY <1>1 DEF ClickInv, Idle, Places
<1>7. NamesInv
  <2>1. Stored(Active) = {}
    BY <1>2 DEF Init, Stored
  <2> QED
    BY <1>1, <2>1 DEF Init, NamesInv, Lost
<1>8. ServiceInv
  BY DEF Init, ServiceInv
<1>9. CopyInv
  <2>1. NoCopy \in CopyRecords /\ NoCopy.app = None /\ NoCopy.list = None
    BY DEF NoCopy, CopyRecords
  <2>2. copies["view"] = NoCopy /\ copies["orphan"] = NoCopy /\ copies \in [Copiers -> CopyRecords]
    BY <2>1 DEF Init, Copiers
  <2> QED
    BY <1>1, <2>1, <2>2 DEF Init, CopyInv, CopyRecords
<1> QED
  BY <1>3, <1>4, <1>5, <1>6, <1>7, <1>8, <1>9 DEF IndInv, MindInv

\* Every step keeps it.
LEMMA NextHolds ==
    ASSUME IndInv, [Next]_vars
    PROVE  IndInv'
<1>1. ASSUME NEW a \in Apps, Open(a) PROVE IndInv'
  BY <1>1, OpenStep
<1>2. ASSUME Close PROVE IndInv'
  BY <1>2, CloseStep
<1>3. ASSUME NEW p \in Packages, Tick(p) PROVE IndInv'
  BY <1>3, TickStep
<1>4. ASSUME Layout PROVE IndInv'
  BY <1>4, LayoutStep
<1>5. ASSUME OnClick PROVE IndInv'
  <2>1. ASSUME NEW c \in Copiers, CpBegins(c) \/ CpEnds(c) \/ CpFails(c) PROVE IndInv'
    BY <2>1, BeginStep, EndsStep, FailsStep
  <2> QED
    BY <1>5, <2>1, PressStep, ServiceStep, PutStep, SaveStep, WriteStep, DeleteStep DEF OnClick
<1>6. ASSUME OnReceive PROVE IndInv'
  BY <1>6, OnReceiveStep
<1>7. ASSUME Kill PROVE IndInv'
  BY <1>7, KillStep
<1>8. ASSUME Reboot PROVE IndInv'
  BY <1>8, RebootStep
<1>9. ASSUME UNCHANGED vars PROVE IndInv'
  <2>1. UNCHANGED <<heap, prefs, views, click, disk, tmp, file, copies, service, booted,
                    tracked, torn, unsure>>
    BY <1>9 DEF vars, mind, store, past
  <2>2. Sound' = Sound
    BY <2>1 DEF Sound, Hooks
  <2>3. MindInv' /\ DiskInv' /\ Stored(Active)' = Stored(Active)
    BY <2>1, <2>2, SameMind
  <2>4. ClickInv' /\ NamesInv'
    BY <2>1, <2>2, <2>3 DEF IndInv, ClickInv, NamesInv, Lost
  <2>5. ServiceInv' /\ CopyInv'
    BY <2>1 DEF IndInv, ServiceInv, Known, CopyInv, Hooks
  <2> QED
    BY <2>3, <2>4, <2>5 DEF IndInv
<1> QED
  BY <1>1, <1>2, <1>3, <1>4, <1>5, <1>6, <1>7, <1>8, <1>9 DEF Next

\* The roles of the sets in memory, the agreement of memory and disk, and the
\* lists of all apps that a press could still name hold in every state.
THEOREM Invariance == Spec => []IndInv
<1>1. Init => IndInv
  BY InitHolds
<1>2. IndInv /\ [Next]_vars => IndInv'
  BY NextHolds
<1> QED
  BY <1>1, <1>2, PTL DEF Spec

\* While nothing is forgotten, the chosen names are in hand in every state.
THEOREM ChoiceInvariance == Spec => []ChoiceInv
<1>1. Init => ChoiceInv
  <2>1. SUFFICES ASSUME Init PROVE ChoiceInv
    OBVIOUS
  <2>2. ~Lost /\ DOMAIN views = {}
    BY <2>1 DEF Init, Lost, Idle
  <2> QED
    BY <2>1, <2>2 DEF Init, ChoiceInv
<1>2. IndInv /\ ChoiceInv /\ [Next]_vars => ChoiceInv'
  BY NextChoice
<1> QED
  BY <1>1, <1>2, Invariance, PTL DEF Spec

\* Every variable has its type: in particular there is always an object for
\* the set that a step makes.
THEOREM TypeCorrect == Spec => []TypeOK
<1>1. IndInv /\ ChoiceInv => TypeOK
  <2>1. SUFFICES ASSUME IndInv, ChoiceInv PROVE TypeOK
    OBVIOUS
  <2>2. /\ heap \in [Objects -> SUBSET (Apps \union Packages)]
        /\ prefs \in [Keys -> Objects \union {0}]
        /\ Len(views) <= MaxViews
        /\ views \in Seq(ViewRecords)
    BY <2>1 DEF IndInv, MindInv, Minds, Holds, Fits, Contents
  <2>3. \A i \in DOMAIN views :
          views[i] \in [app : Apps, actives : Objects, packages : Objects, all : Objects,
                        items : SUBSET Packages, rows : SUBSET Packages,
                        text : {"track", "untrack", "save"}]
    <3>1. \A i \in DOMAIN views : views[i] \in ViewRecords
      BY <2>2
    <3> QED
      BY <3>1 DEF ViewRecords, Texts
  <2>4. \A k \in Keys : disk[k] = None \/ disk[k] \subseteq Apps \union Packages
    BY <2>1 DEF IndInv, DiskInv, Contents
  <2>5. click.pc \in {"idle", "service", "put", "save", "write", "cp", "delete"}
    BY <2>1 DEF IndInv, ClickInv, Places
  <2>6. /\ tmp = None \/ tmp \in Lists
        /\ \A a \in Apps : file[a] = None \/ file[a] = Partial \/ file[a] \in Lists
    BY <2>1 DEF IndInv, CopyInv
  <2>7. /\ service \in BOOLEAN /\ booted \in BOOLEAN /\ unsure \in BOOLEAN
        /\ tracked \subseteq Apps /\ torn \subseteq Apps
    BY <2>1 DEF IndInv, ServiceInv, NamesInv, Sound
  <2>8. chosen \subseteq Apps /\ overtaken \subseteq DOMAIN views /\ forgot \in BOOLEAN
    BY <2>1 DEF ChoiceInv
  <2> QED
    BY <2>2, <2>3, <2>4, <2>5, <2>6, <2>7, <2>8 DEF TypeOK
<1> QED
  BY <1>1, Invariance, ChoiceInvariance, PTL

\* The preferences on disk name the apps that the user has chosen, through
\* every press, view and end of the process, unless a press died with the
\* names removed or went out from a view that another press had overtaken
\* (AppDetailActivity.java:90, 163-167, 180-183, 211).
THEOREM ChosenIsKeptTheorem == Spec => []ChosenIsKept
<1>1. IndInv /\ ChoiceInv => ChosenIsKept
  BY DEF IndInv, NamesInv, ChoiceInv, Lost, ChosenIsKept
<1> QED
  BY <1>1, Invariance, ChoiceInvariance, PTL

\* Once the notifier ran, the service runs exactly while an app is tracked,
\* unless a press died with the names removed or came from an overtaken view
\* (AppDetailActivity.java:168-172, 184-188, BootCompleteNotifier.java:26).
THEOREM ServiceMatchesTheorem == Spec => []ServiceMatches
<1>1. IndInv => ServiceMatches
  BY DEF IndInv, ServiceInv, Known, ServiceMatches
<1> QED
  BY <1>1, Invariance, PTL

\* A tracked app has a list of its own that XModule can read, unless its own
\* last copy was refused, cut or left behind, or is being made
\* (AppDetailActivity.java:214-240, XModule.java:36-41).
THEOREM TrackedIsHookedTheorem == Spec => []TrackedIsHooked
<1>1. IndInv => TrackedIsHooked
  BY DEF IndInv, NamesInv, Sound, TrackedIsHooked
<1> QED
  BY <1>1, Invariance, PTL
=============================================================================
