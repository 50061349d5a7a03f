------------------------------ MODULE AppList -------------------------------
(***************************************************************************)
(* The applications: apps.json, which the pages of the configuration       *)
(* server edit by position (confighttp.cpp), the list that the process     *)
(* keeps of it with an id for each (process.cpp: parse()), and the clients *)
(* that were given the ids and launch by them.                             *)
(*                                                                         *)
(* A name stands for what an id is made of, a name and an image, and is a  *)
(* sequence, since an id may be a name with a position at its end.         *)
(***************************************************************************)
EXTENDS Naturals, Sequences, FiniteSets, Functions

CONSTANTS Names,      \* the names of applications, in the order of std::string
          Page,       \* pages of the configuration server
          MaxApps,    \* bound: applications in the file
          MaxChange   \* bound: changes to the file

VARIABLES up,
          file,       \* apps.json: the applications, or Torn
          apps,       \* proc._apps: applications with their ids
          writing,    \* the list that is about to fill the emptied file, or Torn
          shown,      \* what each page shows: the file when it was loaded
          listed,     \* the list a client was given
          chosen,     \* the last change: the application that the user pointed at ...
          changed,    \* ... and the one that was changed
          asked,      \* the last launch: the name that the client showed ...
          launched,   \* ... and the one that was launched
          changes

appVars == <<up, file, apps, writing, shown, listed, chosen, changed, asked, launched, changes>>

Name == Range(Names)
Rank(n) == CHOOSE i \in 1..Len(Names) : Names[i] = n
Nobody == <<>>
Torn == << <<>> >>
Lists == UNION {[1..n -> Name] : n \in 0..MaxApps}

-----------------------------------------------------------------------------
(* parse() and refresh() *)

\* Faulty: the id is the position.
PositionsAsIds(list) == [i \in 1..Len(list) |-> <<i - 1>>]

\* The ids: the name, or the name and the position, counted from 0, where another
\* application before has that id.  Nobody looks whether that is an id, too.
Ids(list) ==
  LET ids[i \in 0..Len(list)] ==
        IF i = 0 THEN <<>>
        ELSE LET id == list[i]
             IN  Append(ids[i - 1], IF id \in Range(ids[i - 1]) THEN Append(id, i - 1) ELSE id)
  IN  ids[Len(list)]

Parsed(list) == LET ids == Ids(list) IN [i \in 1..Len(list) |-> [name |-> list[i], id |-> ids[i]]]

\* A file that cannot be parsed leaves the list as it was.
Refresh(list) == apps' = IF list = Torn THEN apps ELSE Parsed(list)

Init == /\ up = FALSE /\ file \in Lists /\ apps = <<>> /\ writing = Torn
        /\ shown = [p \in Page |-> <<>>] /\ listed = <<>>
        /\ chosen = Nobody /\ changed = Nobody /\ asked = Nobody /\ launched = Nobody
        /\ changes = 0

Idle == up /\ writing = Torn

Start == /\ ~up /\ up' = TRUE /\ Refresh(file)
         /\ UNCHANGED <<file, writing, shown, listed, chosen, changed, asked, launched, changes>>

Crash == /\ up /\ up' = FALSE /\ apps' = <<>> /\ writing # Torn /\ writing' = Torn
         /\ UNCHANGED <<file, shown, listed, chosen, changed, asked, launched, changes>>

\* The user edits the file; Sunshine does not look at it until it writes it or
\* starts again.
HandEdit == /\ writing = Torn /\ changes < MaxChange /\ changes' = changes + 1
            /\ file' \in Lists \ {file}
            /\ UNCHANGED <<up, apps, writing, shown, listed, chosen, changed, asked, launched>>

-----------------------------------------------------------------------------
(* The pages *)

\* getApps(): a page is loaded, as it is again after every change of its own.
Show(p) == /\ Idle /\ file # Torn
           /\ shown' = [shown EXCEPT ![p] = file]
           /\ UNCHANGED <<up, file, apps, writing, listed, chosen, changed, asked, launched, changes>>

\* Applications are sorted by name, those of the same name in any order.
Sorted(list) == {s \in [1..Len(list) -> Range(list)] :
                   /\ \A n \in Name : Cardinality({i \in DOMAIN s : s[i] = n})
                                        = Cardinality({i \in DOMAIN list : list[i] = n})
                   /\ \A i, j \in DOMAIN s : i < j => Rank(s[i]) <= Rank(s[j])}

\* The file is emptied, and filled in the next step.
Write(list) == file' = Torn /\ writing' = list /\ changes' = changes + 1

At(list, i) == IF i \in 1..Len(list) THEN list[i] ELSE Nobody

\* saveApp(): a new application, or one in the place of another; a position
\* that is not there changes nothing but the order.
SaveApp(p, i, name) ==
  /\ Idle /\ file # Torn /\ changes < MaxChange
  /\ i \in 0..Len(shown[p]) /\ (i = 0 => Len(file) < MaxApps)
  /\ LET list == IF i = 0 THEN Append(file, name)
                 ELSE [j \in 1..Len(file) |-> IF j = i THEN name ELSE file[j]]
     IN  \E s \in Sorted(list) : Write(s)
  /\ chosen' = At(shown[p], i) /\ changed' = At(file, i)
  /\ UNCHANGED <<up, apps, shown, listed, asked, launched>>

\* deleteApp(): the others stay as they are.
DeleteApp(p, i) ==
  /\ Idle /\ file # Torn /\ changes < MaxChange
  /\ i \in 1..Len(shown[p]) /\ i <= Len(file)
  /\ Write(SubSeq(file, 1, i - 1) \o SubSeq(file, i + 1, Len(file)))
  /\ chosen' = At(shown[p], i) /\ changed' = At(file, i)
  /\ UNCHANGED <<up, apps, shown, listed, asked, launched>>

\* The file is filled and read again; the page that asked is loaded anew.
Fill(p) == /\ up /\ writing # Torn
           /\ file' = writing /\ writing' = Torn /\ Refresh(writing)
           /\ shown' = [shown EXCEPT ![p] = writing]
           /\ UNCHANGED <<up, listed, chosen, changed, asked, launched, changes>>

-----------------------------------------------------------------------------
(* The client *)

\* applist()
List == /\ up /\ listed' = apps
        /\ UNCHANGED <<up, file, apps, writing, shown, chosen, changed, asked, launched, changes>>

\* execute(): the first application with the id, if there is one.
Launch(i) ==
  /\ up /\ i \in 1..Len(listed)
  /\ LET with == {j \in 1..Len(apps) : apps[j].id = listed[i].id}
         first == CHOOSE j \in with : \A k \in with : j <= k
     IN  launched' = IF with = {} THEN Nobody ELSE apps[first].name
  /\ asked' = listed[i].name
  /\ UNCHANGED <<up, file, apps, writing, shown, listed, chosen, changed, changes>>

Next == \/ Start \/ Crash \/ HandEdit \/ List
        \/ \E p \in Page : \/ Show(p) \/ Fill(p)
                           \/ \E i \in 0..MaxApps : DeleteApp(p, i) \/ \E n \in Name : SaveApp(p, i, n)
        \/ \E i \in 1..MaxApps : Launch(i)

-----------------------------------------------------------------------------
(* Properties *)

TypeOK ==
  /\ up \in BOOLEAN /\ file \in Lists \union {Torn} /\ writing \in Lists \union {Torn}
  /\ \A p \in Page : shown[p] \in Lists
  /\ \A list \in {apps, listed} : \A i \in 1..Len(list) : list[i].name \in Name
  /\ {chosen, changed, asked, launched} \subseteq Name \union {Nobody} /\ changes \in 0..MaxChange

\* One name is the other with a position behind it, like "Game" and "Game2".
Confusable(m, n) == \E k \in 0..MaxApps : m = Append(n, k) \/ n = Append(m, k)

\* A client that chose an application gets that one or none, however old its list is and
\* however the applications were edited, sorted and numbered since; except that an id with
\* a position may be the name of another application by then (process.cpp:726-734).
LaunchIsMeant == launched \in {asked, Nobody} \/ Confusable(asked, launched)

InOrder(list) == \A i, j \in 1..Len(list) : i < j => Rank(list[i].name) <= Rank(list[j].name)

\* Every application can be launched: no two have the same id, whatever their names, in a
\* list that saveApp() sorted; in another only a name and that name with a position may.
IdsAreUnique ==
  \A i, j \in 1..Len(apps) :
    (i # j /\ apps[i].id = apps[j].id) =>
       /\ Confusable(apps[i].name, apps[j].name)
       /\ ~InOrder(apps)

\* With one page and no hand in the file, the application that the user points
\* at is the one that is changed.
ChosenIsChanged == chosen = changed
=============================================================================
