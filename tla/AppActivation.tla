--------------------------- MODULE AppActivation ---------------------------
(***************************************************************************)
(* Which apps are hooked: the detail view of DAMN's own app (AppDetail-    *)
(* Activity) keeps the names of the tracked apps in the shared preferences *)
(* and writes the list of packages to hook into the directory of each app, *)
(* through a copy that runs as another user; BootCompleteNotifier starts   *)
(* XModuleService; XModule reads the list when Zygote loads an app.        *)
(*                                                                         *)
(* getStringSet hands out the set the preferences hold, not a copy, so the *)
(* sets of a view live in a heap and a view holds references to them.  A   *)
(* commit writes the whole map, when it changed.  The process of the user  *)
(* interface may be killed at any step (it waits for su on its main        *)
(* thread), and the copy it has asked for goes on without it.              *)
(***************************************************************************)
EXTENDS Naturals, Sequences, FiniteSets

CONSTANTS
    Apps,       \* the installed applications
    Packages,   \* the packages of each of them
    Active,     \* the key ACTIVE_APPS of the preferences
    MaxObjects, \* bound: sets alive at a time in the process of the UI
    MaxViews,   \* bound: detail views above each other
    MaxPresses, \* bound: presses of the button
    MaxTicks,   \* bound: taps on a box
    MaxDeaths,  \* bound: ends of the process and reboots
    Partial,    \* a list of which only a part is written
    None

ASSUME KeyAssumption == /\ Active \notin Apps
                        /\ None \notin Apps \union {Active, Partial}
                        /\ \A s \in SUBSET (Apps \union Packages) : s # None

\* There is always room for the set that a step makes.
ASSUME RoomAssumption == /\ IsFiniteSet(Apps)
                         /\ MaxViews \in Nat
                         /\ MaxObjects \in Nat
                         /\ MaxObjects > Cardinality(Apps) + 1 + 3 * MaxViews

VARIABLES
    heap,       \* object -> the set it holds
    prefs,      \* key -> the object the preferences hold in memory, or 0
    disk,       \* key -> the set in the preferences' file, or None
    views,      \* the detail views, the one in front last
    click,      \* where onClick stands
    tmp,        \* PACKAGE_FILE in the cache directory: a list, or None
    file,       \* app -> PACKAGE_FILE in its directory: a list, Partial or None
    copies,     \* the cp onClick waits for, and one its process left behind
    service,    \* XModuleService runs (in a process of its own)
    booted,     \* the notifier ran since the device started
    ticks,      \* taps on boxes so far
    presses,    \* presses of the button so far
    deaths,     \* ends of the process and reboots so far
    tracked,    \* the names that the last put has left in the preferences' file
    torn,       \* history: apps whose last copy was refused, cut or left behind
    unsure,     \* history: a press died with the names removed, or went out
                \* from a view whose names were not those of the file
    chosen,     \* history: the apps that the user has chosen, press by press
    overtaken,  \* history: the views with names from before a press in another one
    forgot      \* history: a press died with the names removed, or went out
                \* from a view that was overtaken

mind  == <<heap, prefs, views, click>>
store == <<disk, tmp, file, copies>>
choice == <<chosen, overtaken, forgot>>
past  == <<tracked, torn, unsure, choice>>
count == <<presses, deaths, ticks>>
vars  == <<mind, store, service, booted, past, count>>

Keys    == Apps \union {Active}
Objects == 1..MaxObjects
Lists   == [app : Apps, packages : SUBSET Packages]
Copiers == {"view", "orphan"}
NoCopy  == [app |-> None, list |-> None]
Idle    == [pc |-> "idle", app |-> None, kind |-> None, actives |-> {}]

\* The view in front, the objects in use, and a new one.
View     == views[Len(views)]
Used(p, vs) == {p[k] : k \in Keys} \union
               UNION {{vs[i].actives, vs[i].packages, vs[i].all} : i \in DOMAIN vs}
Fresh(used) == CHOOSE o \in Objects : o \notin used
Collect(h, p, vs) == [o \in Objects |-> IF o \in Used(p, vs) THEN h[o] ELSE {}]
Stored(k) == IF disk[k] = None THEN {} ELSE disk[k]
Atom(k)   == IF prefs[k] = 0 THEN {} ELSE heap[prefs[k]]

TypeOK ==
    /\ heap \in [Objects -> SUBSET (Apps \union Packages)]
    /\ prefs \in [Keys -> Objects \union {0}]
    /\ \A k \in Keys : disk[k] = None \/ disk[k] \subseteq Apps \union Packages
    /\ Len(views) <= MaxViews
    /\ \A i \in DOMAIN views :
         views[i] \in [app : Apps, actives : Objects, packages : Objects, all : Objects,
                       items : SUBSET Packages, rows : SUBSET Packages,
                       text : {"track", "untrack", "save"}]
    /\ click.pc \in {"idle", "service", "put", "save", "write", "cp", "delete"}
    /\ tmp = None \/ tmp \in Lists
    /\ \A a \in Apps : file[a] = None \/ file[a] = Partial \/ file[a] \in Lists
    /\ service \in BOOLEAN /\ booted \in BOOLEAN /\ unsure \in BOOLEAN
    /\ tracked \subseteq Apps /\ torn \subseteq Apps
    /\ chosen \subseteq Apps /\ overtaken \subseteq DOMAIN views /\ forgot \in BOOLEAN

\* The preferences as a process that starts reads them: an object to each key.
Load(d) == LET has == {k \in Keys : d[k] # None}
           IN  CHOOSE p \in [Keys -> 0..Cardinality(has)] :
                   /\ \A k \in Keys : p[k] = 0 <=> k \notin has
                   /\ \A k, l \in has : p[k] = p[l] => k = l

Reload == /\ prefs' = Load(disk)
          /\ heap' = [o \in Objects |-> IF \E k \in Keys : prefs'[k] = o
                                        THEN disk[CHOOSE k \in Keys : prefs'[k] = o]
                                        ELSE {}]
          /\ views' = << >>
          /\ click' = Idle

Init ==
    /\ heap = [o \in Objects |-> {}]
    /\ prefs = [k \in Keys |-> 0]
    /\ disk = [k \in Keys |-> None]
    /\ views = << >>
    /\ click = Idle
    /\ tmp = None
    /\ file = [a \in Apps |-> None]
    /\ copies = [c \in Copiers |-> NoCopy]
    /\ service = FALSE
    /\ booted = FALSE
    /\ presses = 0
    /\ ticks = 0
    /\ deaths = 0
    /\ tracked = {}
    /\ torn = {}
    /\ unsure = FALSE
    /\ chosen = {} /\ overtaken = {} /\ forgot = FALSE

----------------------------------------------------------------------------
(* SharedPreferences.Editor (external): the keys r removed and, unless k is  *)
(* None, key k put to the set s.  An equal set already there changes         *)
(* nothing, and a commit that changes nothing writes nothing.                *)
Commit(h, vs, r, k, s) ==
    LET kept == [x \in Keys |-> IF x \in r THEN 0 ELSE prefs[x]]
        same == k = None \/ (kept[k] # 0 /\ h[kept[k]] = s)
        new  == Fresh(Used(prefs, views))
        p    == IF same THEN kept ELSE [kept EXCEPT ![k] = new]
        g    == IF same THEN h ELSE [h EXCEPT ![new] = s]
    IN  /\ prefs' = p
        /\ views' = vs
        /\ heap' = Collect(g, p, vs)
        /\ disk' = IF p = prefs THEN disk
                   ELSE [x \in Keys |-> IF p[x] = 0 THEN None ELSE g[p[x]]]

(* AppDetailActivity.onCreate: from the list, or from the notification of    *)
(* the service above a view that is open.  A key that is not there yields a  *)
(* new set that the preferences do not hold.                                 *)
Open(a) ==
    LET used     == Used(prefs, views)
        actives  == IF prefs[Active] # 0 THEN prefs[Active] ELSE Fresh(used)
        packages == IF prefs[a] # 0 THEN prefs[a] ELSE Fresh(used \union {actives})
        all      == Fresh(used \union {actives, packages})
    IN  /\ click.pc = "idle"
        /\ Len(views) < MaxViews
        /\ views = << >> \/ service
        /\ heap' = [heap EXCEPT ![all] = Packages]
        /\ views' = Append(views,
             [app |-> a, actives |-> actives, packages |-> packages, all |-> all,
              items |-> heap[packages], rows |-> heap[packages],
              text |-> IF a \in heap[actives] THEN "untrack" ELSE "track"])
        /\ UNCHANGED <<prefs, click, store, service, booted, past, count>>

Close ==
    /\ click.pc = "idle"
    /\ views # << >>
    /\ views' = SubSeq(views, 1, Len(views) - 1)
    /\ heap' = Collect(heap, prefs, views')
    /\ overtaken' = overtaken \ {Len(views)}
    /\ UNCHANGED <<prefs, click, store, service, booted, tracked, torn, unsure, chosen, forgot,
                   count>>

(* onCheckedChanged, of the row the user taps ...                            *)
Tick(p) ==
    LET on    == p \notin View.rows
        Flip(s) == IF on THEN s \union {p} ELSE s \ {p}
    IN  /\ ticks < MaxTicks
        /\ ticks' = ticks + 1
        /\ click.pc = "idle"
        /\ views # << >>
        /\ heap' = [heap EXCEPT ![View.packages] = Flip(@)]
        /\ views' = [views EXCEPT ![Len(views)].rows = Flip(@),
                                  ![Len(views)].items = Flip(@),
                                  ![Len(views)].text = "save"]
        /\ UNCHANGED <<prefs, click, store, service, booted, past, presses, deaths>>

(* ... and of every row that getView sets to another state after             *)
(* notifyDataSetChanged: the row still has its listener, and no parent.      *)
Layout ==
    LET on  == View.items \ View.rows
        off == View.rows \ View.items
    IN  /\ click.pc = "idle"
        /\ views # << >>
        /\ View.rows # View.items
        /\ heap' = [heap EXCEPT ![View.packages] = (@ \union on) \ off]
        /\ views' = [views EXCEPT ![Len(views)].rows = View.items,
                                  ![Len(views)].text = "save"]
        /\ UNCHANGED <<prefs, click, store, service, booted, past, count>>

----------------------------------------------------------------------------
(* onClick.  The name of the app goes into or out of the view's set, and the *)
(* key is removed and committed.                                             *)
Kind == CASE View.text = "save"                    -> "save"
          [] View.app \in heap[View.actives]       -> "untrack"
          [] OTHER                                 -> "track"

Toggled == IF Kind = "untrack" THEN heap[View.actives] \ {View.app}
                               ELSE heap[View.actives] \union {View.app}

\* What the user has chosen now, and which views do not know it: those that
\* hold another set than the view in front.
Choose ==
    /\ chosen' = IF Kind = "untrack" THEN chosen \ {View.app} ELSE chosen \union {View.app}
    /\ overtaken' = {i \in DOMAIN views : views[i].actives # View.actives}
    /\ forgot' = (forgot \/ Len(views) \in overtaken)

\* Mutant: the key is not removed before it is put.
PressKeeps ==
    /\ click.pc = "idle"
    /\ views # << >>
    /\ presses < MaxPresses
    /\ presses' = presses + 1
    /\ click' = [pc |-> "service", app |-> View.app, kind |-> Kind, actives |-> Toggled]
    /\ Commit([heap EXCEPT ![View.actives] = Toggled], views, {}, None, {})
    /\ unsure' = (unsure \/ heap[View.actives] # tracked)
    /\ Choose
    /\ UNCHANGED <<tmp, file, copies, service, booted, tracked, torn, deaths, ticks>>

Press ==
    /\ click.pc = "idle"
    /\ views # << >>
    /\ presses < MaxPresses
    /\ presses' = presses + 1
    /\ click' = [pc |-> "service", app |-> View.app, kind |-> Kind, actives |-> Toggled]
    /\ Commit([heap EXCEPT ![View.actives] = Toggled], views, {Active}, None, {})
    /\ unsure' = (unsure \/ heap[View.actives] # tracked)
    /\ Choose
    /\ UNCHANGED <<tmp, file, copies, service, booted, tracked, torn, deaths, ticks>>

\* Mutant: the service is stopped with every app that goes.
StartOrStopAlways ==
    /\ click.pc = "service"
    /\ service' = (click.kind # "untrack")
    /\ click' = [click EXCEPT !.pc = "put"]
    /\ UNCHANGED <<heap, prefs, views, store, booted, past, count>>

StartOrStopService ==
    /\ click.pc = "service"
    /\ service' = IF click.kind = "untrack" THEN service /\ click.actives # {}
                  ELSE service \/ Cardinality(click.actives) = 1
    /\ click' = [click EXCEPT !.pc = "put"]
    /\ UNCHANGED <<heap, prefs, views, store, booted, past, count>>

(* The names are put back.  When packages are saved, the commit that removes *)
(* their key does it; else it is the last commit, and the boxes follow.      *)
Put ==
    LET front == [View EXCEPT
          !.text     = IF click.kind = "untrack" THEN "track"
                       ELSE IF click.kind = "track" THEN "untrack" ELSE @,
          !.packages = IF click.kind = "track" THEN View.all ELSE @,
          !.items    = CASE click.kind = "track"   -> Packages
                         [] click.kind = "untrack" -> {}
                         [] OTHER                  -> @]
    IN  /\ click.pc = "put"
        /\ Commit(heap, [views EXCEPT ![Len(views)] = front],
                  IF click.kind = "save" THEN {click.app} ELSE {}, Active, click.actives)
        /\ click' = [click EXCEPT !.pc = IF click.kind = "save" THEN "save" ELSE "write"]
        /\ tracked' = IF unsure THEN click.actives
                      ELSE IF click.kind = "untrack" THEN tracked \ {click.app}
                      ELSE tracked \union {click.app}
        /\ UNCHANGED <<tmp, file, copies, service, booted, torn, unsure, choice, count>>

SavePackages ==
    /\ click.pc = "save"
    /\ Commit(heap, [views EXCEPT ![Len(views)].text = "untrack"],
              {}, click.app, heap[View.packages])
    /\ click' = [click EXCEPT !.pc = "write"]
    /\ UNCHANGED <<tmp, file, copies, service, booted, past, count>>

\* Mutant: a temporary file that is there is not written again.
WriteOnce ==
    /\ click.pc = "write"
    /\ tmp' = IF tmp # None THEN tmp
              ELSE [app |-> click.app, packages |-> heap[View.packages]]
    /\ copies' = [copies EXCEPT !["view"] = [app |-> click.app, list |-> None]]
    /\ click' = [click EXCEPT !.pc = "cp"]
    /\ UNCHANGED <<heap, prefs, views, disk, file, service, booted, past, count>>

(* The list goes to the temporary file, which a cp left behind may have open. *)
WriteList ==
    /\ click.pc = "write"
    /\ tmp' = [app |-> click.app, packages |-> heap[View.packages]]
    /\ copies' = [c \in Copiers |->
                    CASE c = "view"             -> [app |-> click.app, list |-> None]
                      [] copies[c].list # None  -> [copies[c] EXCEPT !.list = tmp']
                      [] OTHER                  -> copies[c]]
    /\ click' = [click EXCEPT !.pc = "cp"]
    /\ UNCHANGED <<heap, prefs, views, disk, file, service, booted, past, count>>

(* su (external) lets cp begin once the user agrees, or refuses.             *)
CpBegins(c) ==
    /\ copies[c].app # None
    /\ copies[c].list = None
    /\ tmp # None
    /\ copies' = [copies EXCEPT ![c].list = tmp]
    /\ file' = [file EXCEPT ![copies[c].app] = Partial]
    /\ UNCHANGED <<mind, disk, tmp, service, booted, past, count>>

CpReturns(c) ==
    /\ copies' = [copies EXCEPT ![c] = NoCopy]
    /\ click' = IF c = "view" THEN [click EXCEPT !.pc = "delete"] ELSE click

CpEnds(c) ==
    /\ copies[c].list # None
    /\ file' = [file EXCEPT ![copies[c].app] = copies[c].list]
    /\ torn' = IF c = "view" /\ copies["orphan"].app # copies[c].app
               THEN torn \ {copies[c].app} ELSE torn
    /\ CpReturns(c)
    /\ UNCHANGED <<heap, prefs, views, disk, tmp, service, booted, tracked, unsure, choice, count>>

CpFails(c) ==
    /\ copies[c].app # None
    /\ copies[c].list = None
    /\ torn' = torn \union {copies[c].app}
    /\ CpReturns(c)
    /\ UNCHANGED <<heap, prefs, views, disk, tmp, file, service, booted, tracked, unsure,
                   choice, count>>

DeleteTmp ==
    /\ click.pc = "delete"
    /\ tmp' = None
    /\ click' = Idle
    /\ UNCHANGED <<heap, prefs, views, disk, file, copies, service, booted, past, count>>

OnClick == \/ Press \/ StartOrStopService \/ Put \/ SavePackages \/ WriteList \/ DeleteTmp
           \/ \E c \in Copiers : CpBegins(c) \/ CpEnds(c) \/ CpFails(c)

----------------------------------------------------------------------------
(* BootCompleteNotifier.onReceive: after boot, or when the list is opened.   *)
OnReceive ==
    /\ click.pc = "idle"
    /\ service' = (service \/ Atom(Active) # {})
    /\ booted' = TRUE
    /\ UNCHANGED <<mind, store, past, count>>

(* The process of the UI ends; a cp it waits for goes on (one is left behind  *)
(* at a time: bound).                                                         *)
Lost == click.pc \in {"service", "put"}
Died == click.pc \in {"put", "save", "write", "cp"}

Dies == /\ deaths < MaxDeaths
        /\ deaths' = deaths + 1
        /\ Reload
        /\ tracked' = IF Lost THEN {} ELSE tracked
        /\ overtaken' = {} /\ forgot' = (forgot \/ Lost)
        /\ UNCHANGED chosen

Kill ==
    /\ Dies
    /\ copies["view"].app = None \/ copies["orphan"].app = None
    /\ copies' = IF copies["view"].app = None THEN copies
                 ELSE [view |-> NoCopy, orphan |-> copies["view"]]
    /\ torn' = IF Died THEN torn \union {click.app} ELSE torn
    /\ unsure' = (unsure \/ Lost)
    /\ UNCHANGED <<disk, tmp, file, service, booted, presses, ticks>>

Reboot ==
    /\ Dies
    /\ copies' = [c \in Copiers |-> NoCopy]
    /\ service' = FALSE
    /\ booted' = FALSE
    /\ torn' = torn \union (IF Died THEN {click.app} ELSE {})
                    \union {copies[c].app : c \in {x \in Copiers : copies[x].app # None}}
    /\ unsure' = FALSE
    /\ UNCHANGED <<disk, tmp, file, presses, ticks>>

Next == \/ \E a \in Apps : Open(a)
        \/ Close
        \/ \E p \in Packages : Tick(p)
        \/ Layout
        \/ OnClick
        \/ OnReceive
        \/ Kill
        \/ Reboot

Spec == Init /\ [][Next]_vars

----------------------------------------------------------------------------
(* The file of the preferences names what the user has chosen, over any      *)
(* presses, views and ends of the process: a view changes the very set that  *)
(* the preferences hold, and a put of an equal set is not written.  It fails *)
(* to for two reasons only: the process has ended between the commit that    *)
(* removes the names and the one that puts them back, or a press went out    *)
(* from a view with the names from before a press in another one             *)
(* (AppDetailActivity.java:90, 163-167, 180-183, 211).                       *)
ChosenIsKept ==
    ~forgot /\ click.pc \notin {"service", "put"} => Stored(Active) = chosen

(* Once the notifier ran, the service runs exactly while an app is tracked,  *)
(* whatever was pressed, killed and opened again, unless a press died with   *)
(* the names removed or went out from a view with names of before            *)
(* (AppDetailActivity.java:168-172, 184-188, BootCompleteNotifier.java:26).  *)
ServiceMatches ==
    booted /\ ~unsure /\ click.pc \notin {"service", "put"}
        => (service <=> tracked # {})

(* A tracked app has a list of its own that XModule can read, unless its own *)
(* last copy was refused, cut or left behind: what a press for another app   *)
(* leaves in the cache directory, or copies late, does not get into its list *)
(* (AppDetailActivity.java:214-240, XModule.java:36-41).                     *)
Hooks(a) == file[a] \in Lists /\ file[a].app = a

TrackedIsHooked ==
    \A a \in tracked \ torn :
        \/ click.app = a
        \/ Hooks(a)
=============================================================================
