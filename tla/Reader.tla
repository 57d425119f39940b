------------------------------- MODULE Reader -------------------------------
(***************************************************************************)
(* Reading and saving articles: the HTTP API (main.py,                     *)
(* api/articles_query.py) and the state of the page (state.service.ts,     *)
(* article.service.ts, app.ts).  The page loads the articles of a country  *)
(* page by page, shows them in the sidebar, and toggles their flags: at    *)
(* once in its own list and counters, and with a PATCH whose answer or     *)
(* failure is applied later.  Any number of requests is in flight, and the *)
(* server handles them in any order.                                       *)
(*                                                                         *)
(* The articles of a load are objects: the list of the state service and   *)
(* the sidebar hold references, so that an object changed through the list *)
(* changes in the sidebar, if it is the same object.  A list is therefore  *)
(* the number of the load that made it.                                    *)
(*                                                                         *)
(* The list of a country is that of the date selected in the toolbar, the  *)
(* vault of saved articles spans all dates.                                *)
(*                                                                         *)
(* Abstractions: the selected date stays, no other filter of the toolbar,  *)
(* one category; the generation token of app.ts is the load that carries   *)
(* it; banner, spinner and sidebar mode are left out; one page of the      *)
(* browser is open.                                                        *)
(***************************************************************************)
EXTENDS Naturals, FiniteSetsExt, SequencesExt

CONSTANTS
  Id,           \* ids the sequence of the table may give
  Country,
  CountryOf,    \* country of each article
  Today,        \* articles published on the selected date
  PageLimit,    \* articles of a page
  MaxLoads,     \* bound: times a country is opened
  MaxToggles,   \* bound: toggles
  MaxRequests,  \* bound: both together
  MaxDeletes,   \* bound: articles deleted
  New, Gone,    \* an article not inserted yet, or deleted
  Null

Flag   == {"read", "saved"}
Flags  == [read : BOOLEAN, saved : BOOLEAN]

\* The PATCH of a toggle: as it was sent, what the server has made of it, and
\* whether the page waits for its answer.
Request == [id : Id, flag : Flag, value : BOOLEAN, prev : Flags,
            server : {"sent", "select", "done", "lost"},
            answer : BOOLEAN \cup {Null}, waiting : BOOLEAN]

ASSUME ReaderAssumption ==
  /\ Id \subseteq Nat /\ IsFiniteSet(Id) /\ CountryOf \in [Id -> Country]
  /\ Today \subseteq Id
  /\ PageLimit \in Nat \ {0} /\ MaxLoads \in Nat /\ MaxToggles \in Nat
  /\ MaxRequests \in Nat /\ MaxDeletes \in Nat
  /\ Null \notin Nat \cup BOOLEAN \cup Flags \cup Request
  /\ New \notin Flags /\ Gone \notin Flags

Load   == 1..MaxLoads
Toggle == 1..MaxToggles
Unread == [read |-> FALSE, saved |-> FALSE]

VARIABLES
  row,          \* the table: flags of an article, or New, or Gone
  patch,        \* the PATCH of each toggle
  load,         \* the GETs of each opened country
  obj,          \* article objects of each load
  detail,       \* load whose articles are in the list, 0 when it is empty
  cluster,      \* load shown in the sidebar, 0 when it is closed
  current,      \* load with the current generation, 0 after a close
  counts,       \* read and saved counters of each country, and its articles
  clean         \* history: nothing happened that lets page and table differ

vars == <<row, patch, load, obj, detail, cluster, current, counts, clean>>

Stored(i) == row[i] \notin {New, Gone}

CountIn(c, ids, f) ==
  Cardinality({i \in ids : CountryOf[i] = c /\ Stored(i) /\ row[i][f]})

\* map-summary, of the selected date, and saved-summary, of all dates.
Total(c) == Cardinality({i \in Today : CountryOf[i] = c /\ Stored(i)})
Summary == [c \in Country |-> [total |-> Total(c), read |-> CountIn(c, Today, "read"),
                              saved |-> CountIn(c, Id, "saved")]]

Init ==
  /\ row \in [Id -> {New, Unread, [read |-> TRUE, saved |-> TRUE]}]
  /\ patch = [n \in Toggle |-> Null]
  /\ load = [n \in Load |-> [at |-> "none"]]
  /\ obj = [n \in Load |-> [i \in Id |-> Null]]
  /\ detail = 0 /\ cluster = 0 /\ current = 0
  /\ counts = Summary
  /\ clean = TRUE

-----------------------------------------------------------------------------
(* Requests in flight. *)

\* The server has yet to handle the request, or the page its answer.
Pending(n) == /\ patch[n] # Null
              /\ patch[n].waiting \/ patch[n].server \in {"sent", "select"}

Loading(n) == load[n].at \in {"page", "ready"}

Opened  == {n \in Load : load[n].at # "none"}
Toggled == {n \in Toggle : patch[n] # Null}

\* The n-th load or toggle is the next one.
IsNext(n, used) == /\ n \notin used /\ 1..(n - 1) \subseteq used
                   /\ Cardinality(Opened) + Cardinality(Toggled) < MaxRequests

-----------------------------------------------------------------------------
(* The list and its counters. *)

Listed(i) == detail # 0 /\ obj[detail][i] # Null

\* Mutant of Adjust: no upper bound.
AdjustFree(count, was, now, most) ==
  CASE ~was /\ now -> count + 1
    [] was /\ ~now -> Max({count, 1}) - 1
    [] OTHER       -> count

\* By one, within bounds.
Adjust(count, was, now, most) ==
  CASE ~was /\ now -> Min({count + 1, most})
    [] was /\ ~now -> Max({count, 1}) - 1
    [] OTHER       -> count

\* The object keeps its identity, so the sidebar sees the change too.  The read
\* counter is that of the selected date, and patchSummaryReadCount does not look
\* at the date of the article; patchSavedSummaryCount has no upper bound.
Show(i, to) ==
  IF ~Listed(i) THEN UNCHANGED <<obj, counts>>
  ELSE LET c == CountryOf[i]  from == obj[detail][i]
       IN  /\ obj' = [obj EXCEPT ![detail][i] = to]
           /\ counts' = [counts EXCEPT
                ![c].read  = Adjust(@, from.read, to.read, counts[c].total),
                ![c].saved = Adjust(@, from.saved, to.saved, @ + 1)]

CloseSidebar == detail' = 0 /\ cluster' = 0 /\ current' = 0

\* An object that neither list nor sidebar refers to is gone.
Keep(objects) ==
  obj' = [n \in Load |-> IF n \in {detail', cluster'} THEN objects[n]
                                                      ELSE [i \in Id |-> Null]]

\* Closing, or changing the filters.
Close ==
  /\ CloseSidebar
  /\ Keep(obj)
  /\ UNCHANGED <<row, patch, load, counts, clean>>

\* A marker of the list is clicked.
OnClusterClick ==
  /\ detail # 0
  /\ cluster' = detail
  /\ UNCHANGED <<row, patch, load, detail, current, counts, clean>>
  /\ Keep(obj)

-----------------------------------------------------------------------------
(* Loading a country: getAllArticlesForCountry, getAllSavedArticlesForCountry. *)

\* The selected date, or the saved articles of every date.
Matches(q, i, flags) ==
  /\ flags \notin {New, Gone} /\ CountryOf[i] = q.country
  /\ IF q.saved THEN flags.saved ELSE i \in Today

\* onCountryClick, onToolbarSavedCountrySelect
OpenCountry(n, c, saved) ==
  /\ IsNext(n, Opened)
  /\ LET q == [country |-> c, saved |-> saved, at |-> "page", cursor |-> Null,
               pages |-> <<>>, throughout |-> {}]
     IN  load' = [load EXCEPT ![n] =
           [q EXCEPT !.throughout = {i \in Id : Matches(q, i, row[i])}]]
  /\ current' = n
  /\ clean' = (clean /\ \A m \in Toggle : ~Pending(m))
  /\ UNCHANGED <<row, patch, obj, detail, cluster, counts>>

\* Rows beyond the cursor, and the youngest of them, which make a page.
Rows(q) == {i \in Id : Matches(q, i, row[i]) /\ (q.cursor = Null \/ i < q.cursor)}

Page(ids) == {i \in ids : Cardinality({j \in ids : j > i}) < PageLimit}

\* Mutant of NextCursor: the surplus row, which the next page then leaves out.
NextCursorSurplus(ids) == IF Page(ids) = ids THEN Null ELSE Max(ids \ Page(ids))

NextCursor(ids) == IF Page(ids) = ids THEN Null ELSE Min(Page(ids))

GetPage(n) ==
  /\ load[n].at = "page"
  /\ LET ids == Rows(load[n])
     IN  load' = [load EXCEPT
           ![n].pages  = Append(@, {[id |-> i, flags |-> row[i]] : i \in Page(ids)}),
           ![n].cursor = NextCursor(ids),
           ![n].at     = IF NextCursor(ids) = Null THEN "ready" ELSE "page"]
  /\ UNCHANGED <<row, patch, obj, detail, cluster, current, counts, clean>>

Done(n) == load' = [load EXCEPT ![n] = [at |-> "done"]]

Items(n) == UNION {load[n].pages[k] : k \in DOMAIN load[n].pages}

Objects(items) ==
  [i \in Id |-> IF \E x \in items : x.id = i
                THEN (CHOOSE x \in items : x.id = i).flags ELSE Null]

\* Mutant of LoadAnswer: the generation is not compared.
LoadAnswerAny(n) ==
  /\ load[n].at = "ready"
  /\ Done(n)
  /\ detail' = n /\ cluster' = n
  /\ Keep([obj EXCEPT ![n] = Objects(Items(n))])
  /\ UNCHANGED <<row, patch, current, counts, clean>>

\* The state service takes every answer, the sidebar that of the current load.
LoadAnswer(n) ==
  /\ load[n].at = "ready"
  /\ Done(n)
  /\ IF current # n THEN detail' = n /\ UNCHANGED <<cluster, current>>
     ELSE IF Items(n) = {} THEN CloseSidebar
     ELSE detail' = n /\ cluster' = n /\ UNCHANGED current
  /\ Keep([obj EXCEPT ![n] = Objects(Items(n))])
  /\ UNCHANGED <<row, patch, counts, clean>>

\* One of the pages fails: the list is emptied, the sidebar of the current
\* load closes.
LoadFails(n) ==
  /\ Loading(n)
  /\ Done(n)
  /\ IF current = n THEN CloseSidebar
                    ELSE detail' = 0 /\ UNCHANGED <<cluster, current>>
  /\ Keep(obj)
  /\ UNCHANGED <<row, patch, counts, clean>>

-----------------------------------------------------------------------------
(* toggleReadStatus, toggleSavedStatus: saving reads, unreading unsaves. *)

Optimistic(flags, flag, value) ==
  IF flag = "read" THEN [read |-> value, saved |-> flags.saved /\ value]
                   ELSE [read |-> flags.read \/ value, saved |-> value]

\* The counters of the page follow the change of an article rightly.
RightlyCounted(i, from, to) == i \in Today \/ to.read = from.read

\* The card offers the opposite of what it shows; a card that becomes active
\* is read at once when it is not (onActiveArticleChanged).
SendToggle(n, i, flag) ==
  /\ IsNext(n, Toggled)
  /\ cluster # 0 /\ obj[cluster][i] # Null
  /\ LET value == ~obj[cluster][i][flag]
         prev  == IF Listed(i) THEN obj[detail][i] ELSE Unread
     IN  /\ patch' = [patch EXCEPT ![n] =
              [id |-> i, flag |-> flag, value |-> value, prev |-> prev,
               server |-> "sent", answer |-> Null, waiting |-> TRUE]]
         /\ Show(i, Optimistic(prev, flag, value))
         /\ clean' = /\ clean
                     /\ Listed(i)
                     /\ RightlyCounted(i, prev, Optimistic(prev, flag, value))
                     /\ \A m \in Load : ~Loading(m)
                     /\ \A m \in Toggle : Pending(m) => patch[m].id # i
  /\ UNCHANGED <<row, load, detail, cluster, current>>

\* Only the last toggle of the flag applies its answer or its rollback.
IsLast(n) == \A m \in Toggle :
  m > n /\ patch[m] # Null => patch[m].id # patch[n].id \/ patch[m].flag # patch[n].flag

Other(flag) == IF flag = "read" THEN "saved" ELSE "read"

\* Mutant of Answered: the other flag of the answer is not looked at.
AnsweredAlone(flags, p) == Optimistic(flags, p.flag, p.value)

\* An answer without the other flag couples it as the page does.
Answered(flags, p) ==
  LET to == Optimistic(flags, p.flag, p.value)
  IN  IF p.answer = Null THEN to ELSE [to EXCEPT ![Other(p.flag)] = p.answer]

ToggleAnswer(n) ==
  /\ patch[n] # Null /\ patch[n].waiting /\ patch[n].server = "done"
  /\ patch' = [patch EXCEPT ![n].waiting = FALSE]
  /\ LET i == patch[n].id
     IN  IF IsLast(n) /\ Listed(i) THEN Show(i, Answered(obj[detail][i], patch[n]))
                                   ELSE UNCHANGED <<obj, counts>>
  /\ UNCHANGED <<row, load, detail, cluster, current, clean>>

\* Mutant of Rollback: the flag that was toggled is restored, its fellow not.
RollbackOne(n) ==
  LET p == patch[n]
  IN  IF IsLast(n) /\ Listed(p.id)
      THEN Show(p.id, [obj[detail][p.id] EXCEPT ![p.flag] = p.prev[p.flag]])
      ELSE UNCHANGED <<obj, counts>>

Rollback(n) ==
  IF IsLast(n) THEN Show(patch[n].id, patch[n].prev) ELSE UNCHANGED <<obj, counts>>

\* A failure the page learns of: no connection, an error of the server, 404.
\* The request may have taken effect, or do so later.
ToggleError(n) ==
  /\ patch[n] # Null /\ patch[n].waiting
  /\ patch' = [patch EXCEPT ![n].waiting = FALSE]
  /\ Rollback(n)
  /\ clean' = (clean /\ patch[n].server = "lost" /\ Listed(patch[n].id))
  /\ UNCHANGED <<row, load, detail, cluster, current>>

-----------------------------------------------------------------------------
(* The server. *)

\* A row changes; loads that run can no longer count on it if it leaves their
\* selection.
Store(i, flags) ==
  /\ row' = [row EXCEPT ![i] = flags]
  /\ load' = [n \in Load |->
       IF Loading(n) /\ ~Matches(load[n], i, flags)
       THEN [load[n] EXCEPT !.throughout = @ \ {i}] ELSE load[n]]

\* Mutant of Updated: marking unread leaves the article saved.
UpdatedAlone(flags, flag, value) == [flags EXCEPT ![flag] = value]

Updated(flags, flag, value) ==
  CASE flag = "read" /\ value   -> [flags EXCEPT !.read = TRUE]
    [] flag = "read" /\ ~value  -> Unread
    [] flag = "saved" /\ value  -> [read |-> TRUE, saved |-> TRUE]
    [] flag = "saved" /\ ~value -> [flags EXCEPT !.saved = FALSE]

\* The UPDATE.  Marking unread and saving know the other flag.
Update(n) ==
  /\ patch[n] # Null /\ patch[n].server = "sent"
  /\ LET p == patch[n]
     IN  IF Stored(p.id)
         THEN /\ Store(p.id, Updated(row[p.id], p.flag, p.value))
              /\ patch' = IF p.value = (p.flag = "saved")
                          THEN [patch EXCEPT ![n].server = "done",
                                             ![n].answer = (p.flag = "saved")]
                          ELSE [patch EXCEPT ![n].server = "select"]
         ELSE /\ patch' = [patch EXCEPT ![n].server = "lost"]
              /\ UNCHANGED <<row, load>>
  /\ UNCHANGED <<obj, detail, cluster, current, counts, clean>>

\* A statement of its own reads the other flag.
Select(n) ==
  /\ patch[n] # Null /\ patch[n].server = "select"
  /\ LET p == patch[n]
     IN  patch' = [patch EXCEPT ![n].server = "done",
           ![n].answer = IF Stored(p.id) THEN row[p.id][Other(p.flag)] ELSE Null]
  /\ UNCHANGED <<row, load, obj, detail, cluster, current, counts, clean>>

\* The request does not reach the table.
Lose(n) ==
  /\ patch[n] # Null /\ patch[n].server = "sent"
  /\ patch' = [patch EXCEPT ![n].server = "lost"]
  /\ UNCHANGED <<row, load, obj, detail, cluster, current, counts, clean>>

\* The worker commits an article, the requeue script deletes one.
Insert(i) ==
  /\ row[i] = New
  /\ Store(i, Unread)
  /\ clean' = FALSE
  /\ UNCHANGED <<patch, obj, detail, cluster, current, counts>>

Delete(i) ==
  /\ Stored(i)
  /\ Cardinality({j \in Id : row[j] = Gone}) < MaxDeletes
  /\ Store(i, Gone)
  /\ clean' = FALSE
  /\ UNCHANGED <<patch, obj, detail, cluster, current, counts>>

-----------------------------------------------------------------------------
Next ==
  \/ \E n \in Load : \/ \E c \in Country, s \in BOOLEAN : OpenCountry(n, c, s)
                     \/ GetPage(n) \/ LoadAnswer(n) \/ LoadFails(n)
  \/ \E n \in Toggle : \/ \E i \in Id, f \in Flag : SendToggle(n, i, f)
                       \/ ToggleAnswer(n) \/ ToggleError(n)
                       \/ Update(n) \/ Select(n) \/ Lose(n)
  \/ \E i \in Id : Insert(i) \/ Delete(i)
  \/ Close \/ OnClusterClick

Spec == Init /\ [][Next]_vars

-----------------------------------------------------------------------------
(* Properties. *)

Item == [id : Id, flags : Flags]

TypeOK ==
  /\ row \in [Id -> Flags \cup {New, Gone}]
  /\ patch \in [Toggle -> Request \cup {Null}]
  /\ \A n \in Load :
       Loading(n) => /\ load[n].pages \in Seq(SUBSET Item)
                     /\ load[n].cursor \in Id \cup {Null}
                     /\ load[n].throughout \subseteq Id
  /\ obj \in [Load -> [Id -> Flags \cup {Null}]]
  /\ {detail, cluster, current} \subseteq Load \cup {0}
  /\ \A c \in Country : counts[c].read \in 0..counts[c].total
  /\ clean \in BOOLEAN

Coupled(flags) == flags.saved => flags.read

\* "Save => read, unread => unsaved" (docs/03_frontend_and_ui.md:64) holds of
\* every row and of every article object, though the two flags are toggled by
\* requests of their own, whose answers and rollbacks come in any order.
Coupling ==
  /\ \A i \in Id : Stored(i) => Coupled(row[i])
  /\ \A n \in Load, i \in Id : obj[n][i] # Null => Coupled(obj[n][i])

\* When nothing is in flight the page shows what the table holds, its counters
\* included, while toggles of several articles overlap, fail before they reach
\* the table and are rolled back, and answers come after a close.  clean leaves
\* out the histories after which the code promises less: a toggle during a load
\* or during another toggle of its article, one of an article that is not in
\* the list, one that changes the read flag of an article of another date (the
\* counter of the selected date moves all the same), a failure after the server
\* took the request or after the list was closed, an insertion or a deletion.
\* ConfirmedIsStored of ReaderHistory speaks of those.
SettledPageAgrees ==
  clean /\ (\A n \in Toggle : ~Pending(n)) =>
    /\ \A i \in Id : Listed(i) => row[i] = obj[detail][i]
    /\ counts = Summary

\* The pages of a load hold every article that was in its selection all the
\* time, and none twice, whatever is inserted, deleted or unsaved between them.
PagesComplete ==
  \A n \in Load : Loading(n) =>
    LET pages == load[n].pages
    IN  /\ \A j, k \in DOMAIN pages : j < k =>
             \A x \in pages[j], y \in pages[k] : x.id > y.id
        /\ load[n].at = "ready" => load[n].throughout \subseteq {x.id : x \in Items(n)}

\* An answer opens the sidebar only for the country asked for last: neither a
\* slow answer to an earlier click nor one after a close changes what is shown.
LateAnswerKeepsSidebar ==
  [][cluster' # cluster /\ cluster' # 0 /\ detail' # detail =>
       /\ current = cluster'
       /\ \A n \in Load : n > cluster' => n \notin Opened]_vars

\* state.service.ts 13: the mutations preserve the references that the sidebar
\* holds.  What it shows is in the list, which toggles change.
SidebarIsInList == cluster # 0 => cluster = detail
=============================================================================
