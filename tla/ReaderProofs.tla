---------------------------- MODULE ReaderProofs ----------------------------
(***************************************************************************)
(* What holds of reading and saving for any number of articles, countries, *)
(* loads and toggles: the two flags stay coupled in every place that holds *)
(* a copy of them (the table, the pages of a load, the objects of the      *)
(* page, the request that may be rolled back), the pages of a load leave   *)
(* nothing out and repeat nothing, the counters stay within their bounds,  *)
(* and the sidebar opens only for the newest load.                         *)
(***************************************************************************)
EXTENDS Reader, FiniteSetLemmas, TLAPS

-----------------------------------------------------------------------------
(* The invariant. *)

CoupledFlags == {f \in Flags : Coupled(f)}

Objs == [Id -> CoupledFlags \cup {Null}]

\* A request whose answer cannot part the flags of the object it is put into.
Sound(p) ==
  /\ p \in [id : Id, flag : Flag, value : BOOLEAN, prev : CoupledFlags,
            server : {"sent", "select", "done", "lost"},
            answer : BOOLEAN \cup {Null}, waiting : BOOLEAN]
  /\ p.server = "select" => p.value # (p.flag = "saved")
  /\ p.answer # Null =>
       /\ p.flag = "read" /\ ~p.value => p.answer = FALSE
       /\ p.flag = "saved" /\ p.value => p.answer = TRUE

Requests ==
  /\ patch = [n \in Toggle |-> patch[n]]
  /\ \A n \in Toggle : patch[n] # Null => Sound(patch[n])

Pages == Seq(SUBSET [id : Id, flags : CoupledFlags])

LoadState == [country : Country, saved : BOOLEAN, at : {"page", "ready"},
              cursor : Id \cup {Null}, pages : Pages, throughout : SUBSET Id]

LoadedPages ==
  /\ load = [n \in Load |-> load[n]]
  /\ \A n \in Load : Loading(n) => load[n] \in LoadState

\* The pages go down to the cursor, and what was in the selection all the time
\* is on one of them or below the cursor.
Covers(q) ==
  /\ \A j, k \in DOMAIN q.pages : j < k =>
       \A x \in q.pages[j], y \in q.pages[k] : x.id > y.id
  /\ q.cursor # Null =>
       \A k \in DOMAIN q.pages : \A x \in q.pages[k] : x.id >= q.cursor
  /\ q.at = "page" /\ q.cursor = Null => q.pages = <<>>
  /\ \A i \in q.throughout :
       \/ \E k \in DOMAIN q.pages : \E x \in q.pages[k] : x.id = i
       \/ q.at = "page" /\ (q.cursor = Null \/ i < q.cursor)

Complete ==
  \A n \in Load : Loading(n) =>
    /\ Covers(load[n])
    /\ \A i \in load[n].throughout : Matches(load[n], i, row[i])

Counted ==
  /\ counts \in [Country -> [total : Nat, read : Nat, saved : Nat]]
  /\ \A c \in Country : counts[c].read <= counts[c].total

Table == row \in [Id -> CoupledFlags \cup {New, Gone}]

Shown == obj \in [Load -> Objs] /\ {detail, cluster, current} \subseteq Load \cup {0}

\* The loads are opened one after the other; the current one is the last.
Newest ==
  /\ \A n \in Opened : 1..(n - 1) \subseteq Opened
  /\ current # 0 => \A n \in Load : n > current => n \notin Opened

Inv == /\ Table /\ Requests /\ LoadedPages /\ Complete
       /\ Shown /\ Counted /\ Newest /\ clean \in BOOLEAN

-----------------------------------------------------------------------------
(* The flags. *)

LEMMA CoupledParts ==
  ASSUME NEW f PROVE f \in CoupledFlags <=> f \in Flags /\ (f.saved => f.read)
BY DEF CoupledFlags, Coupled

LEMMA Record ==
  ASSUME NEW a \in BOOLEAN, NEW b \in BOOLEAN, b => a
  PROVE  [read |-> a, saved |-> b] \in CoupledFlags
BY CoupledParts DEF Flags

LEMMA UnreadCoupled == Unread \in CoupledFlags
BY Record DEF Unread

LEMMA OptimisticCoupled ==
  ASSUME NEW f \in CoupledFlags, NEW flag, NEW v \in BOOLEAN
  PROVE  Optimistic(f, flag, v) \in CoupledFlags
<1>1. f.read \in BOOLEAN /\ f.saved \in BOOLEAN
  BY CoupledParts DEF Flags
<1>2. [read |-> v, saved |-> f.saved /\ v] \in CoupledFlags
  BY <1>1, Record
<1>3. [read |-> f.read \/ v, saved |-> v] \in CoupledFlags
  BY <1>1, Record
<1>. QED
  BY <1>2, <1>3 DEF Optimistic

LEMMA OneFlag ==
  ASSUME NEW f \in [read : BOOLEAN, saved : BOOLEAN], NEW b
  PROVE  /\ [f EXCEPT !.read = b] = [read |-> b, saved |-> f.saved]
         /\ [f EXCEPT !.saved = b] = [read |-> f.read, saved |-> b]
OBVIOUS

LEMMA UpdatedCoupled ==
  ASSUME NEW f \in CoupledFlags, NEW flag \in Flag, NEW v \in BOOLEAN
  PROVE  Updated(f, flag, v) \in CoupledFlags
<1>0. f \in Flags
  BY CoupledParts
<1>1. f.read \in BOOLEAN /\ f.saved \in BOOLEAN /\ (f.saved => f.read)
  BY CoupledParts DEF Flags
<1>2. [f EXCEPT !.read = TRUE] = [read |-> TRUE, saved |-> f.saved]
  BY <1>0, OneFlag DEF Flags
<1>3. [f EXCEPT !.saved = FALSE] = [read |-> f.read, saved |-> FALSE]
  BY <1>0, OneFlag DEF Flags
<1>4. [read |-> TRUE, saved |-> f.saved] \in CoupledFlags
  BY <1>1, Record
<1>5. [read |-> f.read, saved |-> FALSE] \in CoupledFlags
  BY <1>1, Record
<1>6. [read |-> TRUE, saved |-> TRUE] \in CoupledFlags
  BY Record
<1>7. CASE flag = "read" /\ v
  BY <1>2, <1>4, <1>7 DEF Updated
<1>8. CASE flag = "read" /\ ~v
  BY <1>8, UnreadCoupled DEF Updated
<1>9. CASE flag = "saved" /\ v
  BY <1>6, <1>9 DEF Updated
<1>10. CASE flag = "saved" /\ ~v
  BY <1>3, <1>5, <1>10 DEF Updated
<1>. QED
  BY <1>7, <1>8, <1>9, <1>10 DEF Flag

LEMMA AnsweredCoupled ==
  ASSUME NEW f \in CoupledFlags, NEW p, Sound(p)
  PROVE  Answered(f, p) \in CoupledFlags
<1>. DEFINE to == Optimistic(f, p.flag, p.value)
<1>1. /\ p.flag \in Flag /\ p.value \in BOOLEAN /\ p.answer \in BOOLEAN \cup {Null}
      /\ p.answer # Null =>
           /\ p.flag = "read" /\ ~p.value => p.answer = FALSE
           /\ p.flag = "saved" /\ p.value => p.answer = TRUE
  BY DEF Sound
<1>2. to \in CoupledFlags
  BY <1>1, OptimisticCoupled
<1>3. to \in Flags
  BY <1>2, CoupledParts
<1>4. CASE p.answer = Null
  BY <1>2, <1>4 DEF Answered
<1>5. CASE p.answer # Null /\ p.flag = "read"
  <2>1. to.read = p.value
    BY <1>5 DEF Optimistic
  <2>2. [to EXCEPT !["saved"] = p.answer] = [read |-> p.value, saved |-> p.answer]
    BY <1>3, <2>1 DEF Flags
  <2>3. [read |-> p.value, saved |-> p.answer] \in CoupledFlags
    BY <1>1, <1>5, Record
  <2>. QED
    BY <1>5, <2>2, <2>3 DEF Answered, Other
<1>6. CASE p.answer # Null /\ p.flag = "saved"
  <2>1. to.saved = p.value
    BY <1>6 DEF Optimistic
  <2>2. [to EXCEPT !["read"] = p.answer] = [read |-> p.answer, saved |-> p.value]
    BY <1>3, <2>1 DEF Flags
  <2>3. [read |-> p.answer, saved |-> p.value] \in CoupledFlags
    BY <1>1, <1>6, Record
  <2>. QED
    BY <1>6, <2>2, <2>3 DEF Answered, Other
<1>. QED
  BY <1>1, <1>4, <1>5, <1>6 DEF Flag

-----------------------------------------------------------------------------
(* The objects of the page. *)

LEMMA ShowKeeps ==
  ASSUME obj \in [Load -> Objs], NEW i \in Id,
         NEW to, Listed(i) => to \in CoupledFlags, Show(i, to)
  PROVE  obj' \in [Load -> Objs]
<1>1. CASE ~Listed(i)
  BY <1>1 DEF Show
<1>2. CASE Listed(i)
  BY <1>2 DEF Show, Objs
<1>. QED
  BY <1>1, <1>2

LEMMA KeepKeeps ==
  ASSUME NEW objects \in [Load -> Objs], Keep(objects)
  PROVE  obj' \in [Load -> Objs]
<1>1. [i \in Id |-> Null] \in Objs
  BY DEF Objs
<1>. QED
  BY <1>1 DEF Keep

LEMMA ObjectsTyped ==
  ASSUME NEW items \in SUBSET [id : Id, flags : CoupledFlags]
  PROVE  Objects(items) \in Objs
<1>. SUFFICES ASSUME NEW i \in Id, \E x \in items : x.id = i
              PROVE  (CHOOSE x \in items : x.id = i).flags \in CoupledFlags
  BY DEF Objects, Objs
<1>1. (CHOOSE x \in items : x.id = i) \in items
  OBVIOUS
<1>. QED
  BY <1>1

LEMMA ItemsTyped ==
  ASSUME LoadedPages, NEW n \in Load, Loading(n)
  PROVE  Items(n) \in SUBSET [id : Id, flags : CoupledFlags]
<1>1. load[n].pages \in Pages
  BY DEF LoadedPages, LoadState
<1>2. \A k \in DOMAIN load[n].pages :
        load[n].pages[k] \in SUBSET [id : Id, flags : CoupledFlags]
  BY <1>1 DEF Pages
<1>. QED
  BY <1>2 DEF Items

LEMMA ListedFlags ==
  ASSUME Shown, NEW i \in Id
  PROVE  Listed(i) => obj[detail][i] \in CoupledFlags
BY DEF Shown, Objs, Listed

-----------------------------------------------------------------------------
(* The counters. *)

LEMMA MaxWithOne ==
  ASSUME NEW a \in Nat
  PROVE  Max({a, 1}) = IF a = 0 THEN 1 ELSE a
<1>1. \E x \in {a, 1} : \A y \in {a, 1} : x >= y
  OBVIOUS
<1>2. Max({a, 1}) \in {a, 1} /\ \A y \in {a, 1} : Max({a, 1}) >= y
  BY <1>1 DEF Max
<1>. QED
  BY <1>2

\* A counter goes up by one, to the number of articles, or down, to zero.
LEMMA AdjustUp ==
  ASSUME NEW count \in Nat, NEW most \in Nat
  PROVE  /\ Adjust(count, FALSE, TRUE, most) \in Nat
         /\ Adjust(count, FALSE, TRUE, most) <= most
         /\ count < most => Adjust(count, FALSE, TRUE, most) = count + 1
<1>1. Adjust(count, FALSE, TRUE, most) = Min({count + 1, most})
  BY DEF Adjust
<1>2. /\ Min({count + 1, most}) \in {count + 1, most}
      /\ \A x \in {count + 1, most} : Min({count + 1, most}) <= x
  <2>1. {count + 1, most} \subseteq Nat /\ {count + 1, most} # {}
    OBVIOUS
  <2>. QED
    BY <2>1, NatMin
<1>. DEFINE m == Min({count + 1, most})
<1>. HIDE DEF m
<1>3. m \in {count + 1, most} /\ m <= count + 1 /\ m <= most
  BY <1>2 DEF m
<1>4. m \in Nat /\ m <= most /\ (count < most => m = count + 1)
  BY <1>3
<1>5. Adjust(count, FALSE, TRUE, most) = m
  BY <1>1 DEF m
<1>. QED
  BY <1>4, <1>5, Zenon

LEMMA AdjustDown ==
  ASSUME NEW count \in Nat, NEW most \in Nat
  PROVE  /\ Adjust(count, TRUE, FALSE, most) \in Nat
         /\ Adjust(count, TRUE, FALSE, most) <= count
         /\ count > 0 => Adjust(count, TRUE, FALSE, most) = count - 1
<1>1. Adjust(count, TRUE, FALSE, most) = Max({count, 1}) - 1
  BY DEF Adjust
<1>. DEFINE m == Max({count, 1}) - 1
<1>2. m \in Nat /\ m <= count /\ (count > 0 => m = count - 1)
  BY MaxWithOne
<1>. HIDE DEF m
<1>3. Adjust(count, TRUE, FALSE, most) = m
  BY <1>1 DEF m
<1>. QED
  BY <1>2, <1>3, Zenon

LEMMA AdjustSame ==
  ASSUME NEW count, NEW most, NEW was \in BOOLEAN
  PROVE  Adjust(count, was, was, most) = count
BY DEF Adjust

LEMMA AdjustBounds ==
  ASSUME NEW count \in Nat, NEW most \in Nat, NEW was \in BOOLEAN, NEW now \in BOOLEAN
  PROVE  /\ Adjust(count, was, now, most) \in Nat
         /\ count <= most => Adjust(count, was, now, most) <= most
<1>. DEFINE Ok(a) == a \in Nat /\ (count <= most => a <= most)
<1>1. Ok(Adjust(count, FALSE, TRUE, most))
  BY AdjustUp, Zenon
<1>2. Ok(Adjust(count, TRUE, FALSE, most))
  <2>. DEFINE m == Adjust(count, TRUE, FALSE, most)
  <2>1. m \in Nat /\ m <= count
    BY AdjustDown, Zenon
  <2>. HIDE DEF m
  <2>2. Ok(m)
    BY <2>1
  <2>. QED
    BY <2>2, Zenon DEF m
<1>3. Ok(Adjust(count, was, was, most))
  BY AdjustSame, Zenon
<1>. HIDE DEF Ok
<1>4. Ok(Adjust(count, was, now, most))
  <2>1. CASE was = now
    BY <1>3, <2>1, Zenon
  <2>2. CASE was = FALSE /\ now = TRUE
    BY <1>1, <2>2, Zenon
  <2>3. CASE was = TRUE /\ now = FALSE
    BY <1>2, <2>3, Zenon
  <2>. QED
    BY <2>1, <2>2, <2>3, Zenon
<1>. QED
  BY <1>4, Zenon DEF Ok

LEMMA SetTyped ==
  ASSUME NEW S \in SUBSET Id
  PROVE  IsFiniteSet(S) /\ Cardinality(S) \in Nat
BY ReaderAssumption, FS_Subset, FS_CardinalityType DEF ReaderAssumption

LEMMA OneCounter ==
  ASSUME NEW f \in [total : Nat, read : Nat, saved : Nat], NEW a \in Nat
  PROVE  /\ [f EXCEPT !.read = a] = [total |-> f.total, read |-> a, saved |-> f.saved]
         /\ [f EXCEPT !.saved = a] = [total |-> f.total, read |-> f.read, saved |-> a]
OBVIOUS

\* What a change of an article in the list makes of its country's counters.
LEMMA ShowCounts ==
  ASSUME Counted, Shown, NEW i \in Id, Listed(i),
         NEW to \in CoupledFlags, Show(i, to)
  PROVE  LET c == CountryOf[i]  from == obj[detail][i]
         IN  /\ c \in Country
             /\ counts' = [counts EXCEPT ![c] =
                  [total |-> counts[c].total,
                   read  |-> Adjust(counts[c].read, from.read, to.read, counts[c].total),
                   saved |-> Adjust(counts[c].saved, from.saved, to.saved,
                                    counts[c].saved + 1)]]
<1>. DEFINE c == CountryOf[i]
            from == obj[detail][i]
            r == Adjust(counts[c].read, from.read, to.read, counts[c].total)
            v == Adjust(counts[c].saved, from.saved, to.saved, counts[c].saved + 1)
<1>1. c \in Country
  BY ReaderAssumption DEF ReaderAssumption
<1>2. counts \in [Country -> [total : Nat, read : Nat, saved : Nat]]
  BY DEF Counted
<1>3. counts' = [counts EXCEPT ![c].read = r, ![c].saved = v]
  <2>1. counts' = [counts EXCEPT
          ![c].read  = Adjust(@, from.read, to.read, counts[c].total),
          ![c].saved = Adjust(@, from.saved, to.saved, @ + 1)]
    BY DEF Show
  <2>. HIDE DEF c, from
  <2>. QED
    BY <1>1, <1>2, <2>1
<1>5. r \in Nat /\ v \in Nat
  <2>1. /\ from.read \in BOOLEAN /\ from.saved \in BOOLEAN
        /\ to.read \in BOOLEAN /\ to.saved \in BOOLEAN
    BY ListedFlags, CoupledParts DEF Flags
  <2>2. /\ counts[c].read \in Nat /\ counts[c].saved \in Nat /\ counts[c].total \in Nat
    BY <1>1, <1>2
  <2>3. counts[c].saved + 1 \in Nat
    BY <2>2
  <2>. QED
    BY <2>1, <2>2, <2>3, AdjustBounds
<1>. HIDE DEF c, from, r, v
<1>4. counts' = [counts EXCEPT ![c] = [total |-> counts[c].total, read |-> r, saved |-> v]]
  <2>1. counts[c] \in [total : Nat, read : Nat, saved : Nat]
    BY <1>1, <1>2
  <2>2. [[counts[c] EXCEPT !.read = r] EXCEPT !.saved = v]
          = [total |-> counts[c].total, read |-> r, saved |-> v]
    <3>1. [counts[c] EXCEPT !.read = r]
            = [total |-> counts[c].total, read |-> r, saved |-> counts[c].saved]
      BY <1>5, <2>1, OneCounter
    <3>2. [total |-> counts[c].total, read |-> r, saved |-> counts[c].saved]
            \in [total : Nat, read : Nat, saved : Nat]
      BY <1>5, <2>1
    <3>3. [[total |-> counts[c].total, read |-> r, saved |-> counts[c].saved]
            EXCEPT !.saved = v] = [total |-> counts[c].total, read |-> r, saved |-> v]
      BY <1>5, <3>2, OneCounter
    <3>. QED
      BY <3>1, <3>3, Zenon
  <2>3. counts' = [counts EXCEPT ![c] = [[counts[c] EXCEPT !.read = r] EXCEPT !.saved = v]]
    BY <1>1, <1>2, <1>3
  <2>. QED
    BY <2>2, <2>3
<1>. QED
  BY <1>1, <1>4 DEF c, from, r, v

LEMMA ShowCounted ==
  ASSUME Counted, Shown, NEW i \in Id, NEW to,
         Listed(i) => to \in CoupledFlags, Show(i, to)
  PROVE  Counted'
<1>1. CASE ~Listed(i)
  BY <1>1 DEF Show, Counted
<1>2. CASE Listed(i)
  <2>. DEFINE c == CountryOf[i]
              from == obj[detail][i]
              r == Adjust(counts[c].read, from.read, to.read, counts[c].total)
              v == Adjust(counts[c].saved, from.saved, to.saved, counts[c].saved + 1)
  <2>1. /\ c \in Country
        /\ counts' = [counts EXCEPT ![c] =
             [total |-> counts[c].total, read |-> r, saved |-> v]]
    BY <1>2, ShowCounts
  <2>2. /\ from.read \in BOOLEAN /\ from.saved \in BOOLEAN
        /\ to.read \in BOOLEAN /\ to.saved \in BOOLEAN
    BY <1>2, ListedFlags, CoupledParts DEF Flags
  <2>3. /\ counts[c].read \in Nat /\ counts[c].saved \in Nat
        /\ counts[c].total \in Nat /\ counts[c].read <= counts[c].total
    BY <2>1 DEF Counted
  <2>4. counts[c].saved + 1 \in Nat
    BY <2>3
  <2>5. r \in Nat /\ r <= counts[c].total
    BY <2>2, <2>3, AdjustBounds
  <2>6. v \in Nat
    BY <2>2, <2>3, <2>4, AdjustBounds
  <2>. HIDE DEF c, from, r, v
  <2>. QED
    BY <2>1, <2>3, <2>5, <2>6 DEF Counted
<1>. QED
  BY <1>1, <1>2

-----------------------------------------------------------------------------
(* The actions.  One lemma for each part of the invariant. *)

LEMMA SeqWider ==
  ASSUME NEW S, NEW T, S \subseteq T
  PROVE  Seq(S) \subseteq Seq(T)
OBVIOUS

LEMMA StoreTable ==
  ASSUME Table, NEW i \in Id, NEW f \in CoupledFlags \cup {New, Gone}, Store(i, f)
  PROVE  Table'
BY DEF Table, Store

LEMMA StoredFlags ==
  ASSUME Table, NEW i \in Id, Stored(i) PROVE row[i] \in CoupledFlags
BY SMTT(30) DEF Table, Stored

LEMMA TableStep == ASSUME Inv, [Next]_vars PROVE Table'
<1>1. ASSUME NEW n \in Toggle, Update(n) PROVE Table'
  <2>1. Sound(patch[n])
    BY <1>1 DEF Inv, Requests, Update
  <2>2. patch[n].id \in Id /\ patch[n].flag \in Flag /\ patch[n].value \in BOOLEAN
    BY <2>1 DEF Sound
  <2>3. CASE ~Stored(patch[n].id)
    BY <1>1, <2>3 DEF Update, Inv, Table
  <2>4. CASE Stored(patch[n].id)
    <3>1. row[patch[n].id] \in CoupledFlags
      BY <2>2, <2>4, StoredFlags DEF Inv
    <3>2. Updated(row[patch[n].id], patch[n].flag, patch[n].value) \in CoupledFlags
      BY <2>2, <3>1, UpdatedCoupled
    <3>. QED
      BY <1>1, <2>2, <2>4, <3>2, StoreTable DEF Update, Inv
  <2>. QED
    BY <2>3, <2>4
<1>2. ASSUME NEW i \in Id, Insert(i) \/ Delete(i) PROVE Table'
  BY <1>2, StoreTable, UnreadCoupled DEF Insert, Delete, Inv
<1>3. ASSUME row' = row PROVE Table'
  BY <1>3 DEF Inv, Table
<1>. QED
  BY <1>1, <1>2, <1>3
     DEF Next, OpenCountry, GetPage, LoadAnswer, LoadFails, SendToggle, ToggleAnswer,
         ToggleError, Select, Lose, Close, OnClusterClick, vars

\* A request changes in one field at a time, but for the answer of the server.
LEMMA SoundFields ==
  ASSUME NEW p, Sound(p)
  PROVE  /\ Sound([p EXCEPT !.waiting = FALSE])
         /\ Sound([p EXCEPT !.server = "lost"])
         /\ p.value # (p.flag = "saved") => Sound([p EXCEPT !.server = "select"])
<1>1. ASSUME NEW q, q \in [id : Id, flag : Flag, value : BOOLEAN, prev : CoupledFlags,
            server : {"sent", "select", "done", "lost"},
            answer : BOOLEAN \cup {Null}, waiting : BOOLEAN],
             q.flag = p.flag, q.value = p.value, q.answer = p.answer,
             q.server = "select" => p.value # (p.flag = "saved")
      PROVE  Sound(q)
  BY <1>1 DEF Sound
<1>2. Sound([p EXCEPT !.waiting = FALSE])
  <2>. DEFINE q == [p EXCEPT !.waiting = FALSE]
  <2>1. q.flag = p.flag /\ q.value = p.value /\ q.answer = p.answer /\ q.server = p.server
    BY DEF Sound
  <2>2. q \in [id : Id, flag : Flag, value : BOOLEAN, prev : CoupledFlags,
            server : {"sent", "select", "done", "lost"},
            answer : BOOLEAN \cup {Null}, waiting : BOOLEAN]
    BY DEF Sound
  <2>3. p.server = "select" => p.value # (p.flag = "saved")
    BY DEF Sound
  <2>. HIDE DEF q
  <2>4. Sound(q)
    BY <1>1, <2>1, <2>2, <2>3
  <2>. QED
    BY <2>4 DEF q
<1>3. ASSUME NEW s \in {"lost", "select"},
             s = "select" => p.value # (p.flag = "saved")
      PROVE  Sound([p EXCEPT !.server = s])
  <2>. DEFINE q == [p EXCEPT !.server = s]
  <2>1. q.flag = p.flag /\ q.value = p.value /\ q.answer = p.answer /\ q.server = s
    BY DEF Sound
  <2>2. q \in [id : Id, flag : Flag, value : BOOLEAN, prev : CoupledFlags,
            server : {"sent", "select", "done", "lost"},
            answer : BOOLEAN \cup {Null}, waiting : BOOLEAN]
    BY DEF Sound
  <2>. HIDE DEF q
  <2>4. Sound(q)
    BY <1>1, <1>3, <2>1, <2>2
  <2>. QED
    BY <2>4 DEF q
<1>. QED
  BY <1>2, <1>3

\* The answer the UPDATE knows, and the one a SELECT gives.
LEMMA SoundAnswer ==
  ASSUME NEW p, Sound(p), NEW a,
         \/ p.value = (p.flag = "saved") /\ a = (p.flag = "saved")
         \/ p.value # (p.flag = "saved") /\ a \in BOOLEAN \cup {Null}
  PROVE  Sound([p EXCEPT !.server = "done", !.answer = a])
<1>. DEFINE q == [p EXCEPT !.server = "done", !.answer = a]
<1>1. q.flag = p.flag /\ q.value = p.value /\ q.answer = a /\ q.server = "done"
  BY DEF Sound
<1>2. a \in BOOLEAN \cup {Null} /\ p.value \in BOOLEAN /\ p.flag \in Flag
  BY DEF Sound
<1>3. q \in [id : Id, flag : Flag, value : BOOLEAN, prev : CoupledFlags,
             server : {"sent", "select", "done", "lost"},
             answer : BOOLEAN \cup {Null}, waiting : BOOLEAN]
  BY <1>2 DEF Sound
<1>4. a # Null =>
       /\ p.flag = "read" /\ ~p.value => a = FALSE
       /\ p.flag = "saved" /\ p.value => a = TRUE
  BY <1>2 DEF Flag
<1>. HIDE DEF q
<1>5. Sound(q)
  BY <1>1, <1>3, <1>4 DEF Sound
<1>. QED
  BY <1>5 DEF q

\* One request changes, or is made.
LEMMA RequestsPut ==
  ASSUME Requests, NEW n \in Toggle, NEW p, Sound(p), patch' = [patch EXCEPT ![n] = p]
  PROVE  Requests'
BY DEF Requests

LEMMA RequestsStep == ASSUME Inv, [Next]_vars PROVE Requests'
<1>0. Requests
  BY DEF Inv
<1>1. ASSUME NEW n \in Toggle, NEW i \in Id, NEW flag \in Flag, SendToggle(n, i, flag)
      PROVE  Requests'
  <2>. DEFINE value == ~obj[cluster][i][flag]
              prev  == IF Listed(i) THEN obj[detail][i] ELSE Unread
              p     == [id |-> i, flag |-> flag, value |-> value, prev |-> prev,
                        server |-> "sent", answer |-> Null, waiting |-> TRUE]
  <2>1. prev \in CoupledFlags
    BY ListedFlags, UnreadCoupled DEF Inv
  <2>2. value \in BOOLEAN
    OBVIOUS
  <2>3. patch' = [patch EXCEPT ![n] = p]
    BY <1>1 DEF SendToggle
  <2>. HIDE DEF value, prev
  <2>4. Sound(p)
    BY <2>1, <2>2 DEF Sound
  <2>. QED
    BY <1>0, <2>3, <2>4, RequestsPut
<1>2. ASSUME NEW n \in Toggle, ToggleAnswer(n) \/ ToggleError(n) \/ Lose(n)
      PROVE  Requests'
  <2>1. Sound(patch[n])
    BY <1>0, <1>2 DEF ToggleAnswer, ToggleError, Lose, Requests
  <2>2. \/ patch' = [patch EXCEPT ![n] = [patch[n] EXCEPT !.waiting = FALSE]]
        \/ patch' = [patch EXCEPT ![n] = [patch[n] EXCEPT !.server = "lost"]]
    BY <1>2 DEF ToggleAnswer, ToggleError, Lose
  <2>. QED
    BY <1>0, <2>1, <2>2, SoundFields, RequestsPut
<1>3. ASSUME NEW n \in Toggle, Update(n) PROVE Requests'
  <2>1. Sound(patch[n])
    BY <1>0, <1>3 DEF Update, Requests
  <2>2. \/ patch' = [patch EXCEPT ![n] = [patch[n] EXCEPT !.server = "lost"]]
        \/ /\ patch[n].value = (patch[n].flag = "saved")
           /\ patch' = [patch EXCEPT ![n] = [patch[n] EXCEPT !.server = "done",
                                             !.answer = (patch[n].flag = "saved")]]
        \/ /\ patch[n].value # (patch[n].flag = "saved")
           /\ patch' = [patch EXCEPT ![n] = [patch[n] EXCEPT !.server = "select"]]
    BY <1>3 DEF Update
  <2>3. ASSUME patch[n].value = (patch[n].flag = "saved")
        PROVE  Sound([patch[n] EXCEPT !.server = "done",
                                      !.answer = (patch[n].flag = "saved")])
    BY <2>1, <2>3, SoundAnswer
  <2>4. /\ Sound([patch[n] EXCEPT !.server = "lost"])
        /\ patch[n].value # (patch[n].flag = "saved") =>
             Sound([patch[n] EXCEPT !.server = "select"])
    BY <2>1, SoundFields
  <2>5. ASSUME patch' = [patch EXCEPT ![n] = [patch[n] EXCEPT !.server = "lost"]]
        PROVE  Requests'
    BY <1>0, <2>4, <2>5, RequestsPut
  <2>6. ASSUME patch[n].value = (patch[n].flag = "saved"),
               patch' = [patch EXCEPT ![n] = [patch[n] EXCEPT !.server = "done",
                                             !.answer = (patch[n].flag = "saved")]]
        PROVE  Requests'
    BY <1>0, <2>3, <2>6, RequestsPut
  <2>7. ASSUME patch[n].value # (patch[n].flag = "saved"),
               patch' = [patch EXCEPT ![n] = [patch[n] EXCEPT !.server = "select"]]
        PROVE  Requests'
    BY <1>0, <2>4, <2>7, RequestsPut
  <2>. QED
    BY <2>2, <2>5, <2>6, <2>7
<1>4. ASSUME NEW n \in Toggle, Select(n) PROVE Requests'
  <2>1. Sound(patch[n]) /\ patch[n].server = "select"
    BY <1>0, <1>4 DEF Select, Requests
  <2>2. patch[n].id \in Id /\ patch[n].value # (patch[n].flag = "saved")
    BY <2>1 DEF Sound
  <2>. DEFINE a == IF Stored(patch[n].id) THEN row[patch[n].id][Other(patch[n].flag)]
                                         ELSE Null
  <2>3. a \in BOOLEAN \cup {Null}
    <3>1. CASE Stored(patch[n].id)
      <4>1. row[patch[n].id] \in Flags
        BY <2>2, <3>1, StoredFlags, CoupledParts DEF Inv
      <4>. QED
        BY <3>1, <4>1 DEF Flags, Other
    <3>. QED
      BY <3>1
  <2>4. patch' = [patch EXCEPT ![n] = [patch[n] EXCEPT !.server = "done", !.answer = a]]
    BY <1>4 DEF Select
  <2>. HIDE DEF a
  <2>5. Sound([patch[n] EXCEPT !.server = "done", !.answer = a])
    BY <2>1, <2>2, <2>3, SoundAnswer
  <2>. QED
    BY <1>0, <2>4, <2>5, RequestsPut
<1>5. ASSUME patch' = patch PROVE Requests'
  BY <1>0, <1>5 DEF Requests
<1>. QED
  BY <1>1, <1>2, <1>3, <1>4, <1>5
     DEF Next, OpenCountry, GetPage, LoadAnswer, LoadFails, Insert, Delete, Close,
         OnClusterClick, vars

\* What a step makes of a load: nothing, its end, the loss of rows that no longer
\* match, or one page more; or it is opened.
Rests(n) == ~Loading(n) /\ load'[n] = load[n]

Ends(n) == n \in Opened /\ load'[n] = [at |-> "done"]

Trims(n) ==
  /\ Loading(n)
  /\ load'[n] = [load[n] EXCEPT !.throughout = load'[n].throughout]
  /\ \A i \in load'[n].throughout :
       /\ i \in load[n].throughout
       /\ row'[i] = row[i] \/ Matches(load[n], i, row'[i])

NewPage(n) == {[id |-> i, flags |-> row[i]] : i \in Page(Rows(load[n]))}

Grows(n) ==
  /\ load[n].at = "page" /\ row' = row
  /\ load'[n] = [load[n] EXCEPT
       !.pages  = Append(@, NewPage(n)),
       !.cursor = NextCursor(Rows(load[n])),
       !.at     = IF NextCursor(Rows(load[n])) = Null THEN "ready" ELSE "page"]

Turns(n) == Rests(n) \/ Ends(n) \/ Trims(n) \/ Grows(n)

Opens(n) ==
  /\ load'[n] \in LoadState /\ row' = row
  /\ load'[n].at = "page" /\ load'[n].cursor = Null /\ load'[n].pages = <<>>
  /\ \A i \in load'[n].throughout : Matches(load'[n], i, row[i])

Function == load' = [n \in Load |-> load'[n]]

LEMMA SameTurns ==
  ASSUME LoadedPages, NEW n \in Load, load'[n] = load[n],
         Loading(n) => row' = row
  PROVE  Turns(n)
<1>1. CASE ~Loading(n)
  BY <1>1 DEF Turns, Rests
<1>2. CASE Loading(n)
  <2>1. load[n] \in LoadState
    BY <1>2 DEF LoadedPages
  <2>2. load[n] = [load[n] EXCEPT !.throughout = load[n].throughout]
    BY <2>1 DEF LoadState
  <2>. QED
    BY <1>2, <2>2 DEF Turns, Trims
<1>. QED
  BY <1>1, <1>2

LEMMA StoreTurns ==
  ASSUME LoadedPages, Table, NEW i \in Id, NEW f, Store(i, f)
  PROVE  Function /\ \A n \in Load : Turns(n)
<1>1. Function
  BY DEF Store, Function
<1>2. ASSUME NEW n \in Load PROVE Turns(n)
  <2>1. \A j \in Id : row'[j] = IF j = i THEN f ELSE row[j]
    BY DEF Store, Table
  <2>2. CASE ~Loading(n)
    BY <2>2 DEF Store, Turns, Rests
  <2>3. CASE Loading(n)
    <3>1. load[n] \in LoadState
      BY <2>3 DEF LoadedPages
    <3>2. load[n].throughout \subseteq Id
      BY <3>1 DEF LoadState
    <3>. DEFINE T == IF Matches(load[n], i, f) THEN load[n].throughout
                                               ELSE load[n].throughout \ {i}
    <3>3. load'[n] = [load[n] EXCEPT !.throughout = T]
      <4>1. load[n] = [load[n] EXCEPT !.throughout = load[n].throughout]
        BY <3>1 DEF LoadState
      <4>. QED
        BY <2>3, <4>1 DEF Store
    <3>4. load'[n].throughout = T
      BY <3>1, <3>3 DEF LoadState
    <3>5. \A j \in T : /\ j \in load[n].throughout
                       /\ row'[j] = row[j] \/ Matches(load[n], j, row'[j])
      BY <2>1, <3>2
    <3>. HIDE DEF T
    <3>. QED
      BY <2>3, <3>3, <3>4, <3>5 DEF Turns, Trims
  <2>. QED
    BY <2>2, <2>3
<1>. QED
  BY <1>1, <1>2

LEMMA LoadTurns ==
  ASSUME LoadedPages, Requests, Table, [Next]_vars
  PROVE  /\ Function /\ \A n \in Load : Turns(n) \/ Opens(n)
         /\ \/ \A n \in Load : Turns(n)
            \/ \E n \in Load, c \in Country, saved \in BOOLEAN : OpenCountry(n, c, saved)
<1>0. load = [n \in Load |-> load[n]]
  BY DEF LoadedPages
<1>1. ASSUME NEW n \in Load, NEW c \in Country, NEW saved \in BOOLEAN,
             OpenCountry(n, c, saved)
      PROVE  Function /\ \A m \in Load : Turns(m) \/ Opens(m)
  <2>. DEFINE q == [country |-> c, saved |-> saved, at |-> "page", cursor |-> Null,
                    pages |-> <<>>, throughout |-> {}]
              ids == {i \in Id : Matches(q, i, row[i])}
              new == [q EXCEPT !.throughout = ids]
  <2>1. load' = [load EXCEPT ![n] = new] /\ row' = row
    BY <1>1 DEF OpenCountry
  <2>2. new = [country |-> c, saved |-> saved, at |-> "page", cursor |-> Null,
               pages |-> <<>>, throughout |-> ids]
    <3>1. \A T : [q EXCEPT !.throughout = T]
                 = [country |-> c, saved |-> saved, at |-> "page", cursor |-> Null,
                    pages |-> <<>>, throughout |-> T]
      OBVIOUS
    <3>. QED
      BY <3>1, Zenon
  <2>3. new \in LoadState
    <3>1. ids \in SUBSET Id /\ <<>> \in Pages
      BY DEF Pages
    <3>. HIDE DEF ids, new
    <3>. QED
      BY <2>2, <3>1 DEF LoadState
  <2>4. \A i \in ids : Matches(new, i, row[i])
    BY <2>2 DEF Matches
  <2>5. new.at = "page" /\ new.cursor = Null /\ new.pages = <<>> /\ new.throughout = ids
    BY <2>2
  <2>. HIDE DEF new, ids
  <2>6. load'[n] = new /\ Function /\ \A m \in Load \ {n} : load'[m] = load[m]
    BY <1>0, <2>1 DEF Function
  <2>7. Opens(n)
    BY <2>1, <2>3, <2>4, <2>5, <2>6 DEF Opens
  <2>. QED
    BY <2>1, <2>6, <2>7, SameTurns
<1>2. ASSUME NEW n \in Load, GetPage(n) PROVE Function /\ \A m \in Load : Turns(m)
  <2>1. /\ Function /\ row' = row /\ load[n].at = "page"
        /\ \A m \in Load \ {n} : load'[m] = load[m]
        /\ load'[n] = [load[n] EXCEPT
             !.pages  = Append(@, NewPage(n)),
             !.cursor = NextCursor(Rows(load[n])),
             !.at     = IF NextCursor(Rows(load[n])) = Null THEN "ready" ELSE "page"]
    BY <1>0, <1>2 DEF GetPage, NewPage, Function
  <2>2. Turns(n)
    BY <2>1 DEF Turns, Grows
  <2>. QED
    BY <2>1, <2>2, SameTurns
<1>3. ASSUME NEW n \in Load, LoadAnswer(n) \/ LoadFails(n)
      PROVE  Function /\ \A m \in Load : Turns(m)
  <2>1. /\ load' = [load EXCEPT ![n] = [at |-> "done"]] /\ n \in Opened /\ row' = row
    BY <1>3 DEF LoadAnswer, LoadFails, Done, Loading, Opened
  <2>2. Function /\ Turns(n) /\ \A m \in Load \ {n} : load'[m] = load[m]
    BY <1>0, <2>1 DEF Turns, Ends, Function
  <2>. QED
    BY <2>1, <2>2, SameTurns
<1>4. ASSUME NEW n \in Toggle, Update(n)
      PROVE  Function /\ \A m \in Load : Turns(m)
  <2>1. CASE UNCHANGED <<row, load>>
    BY <1>0, <2>1, SameTurns DEF Function
  <2>2. CASE ~UNCHANGED <<row, load>>
    <3>1. patch[n].id \in Id
      BY <1>4 DEF Update, Requests, Sound
    <3>2. \E f : Store(patch[n].id, f)
      BY <1>4, <2>2 DEF Update
    <3>. QED
      BY <3>1, <3>2, StoreTurns
  <2>. QED
    BY <2>1, <2>2
<1>5. ASSUME NEW i \in Id, Insert(i) \/ Delete(i)
      PROVE  Function /\ \A m \in Load : Turns(m)
  BY <1>5, StoreTurns DEF Insert, Delete
<1>6. ASSUME load' = load, row' = row PROVE Function /\ \A m \in Load : Turns(m)
  BY <1>0, <1>6, SameTurns DEF Function
<1>. QED
  BY <1>1, <1>2, <1>3, <1>4, <1>5, <1>6
     DEF Next, SendToggle, ToggleAnswer, ToggleError, Select, Lose, Close,
         OnClusterClick, vars

\* A page is the youngest rows: when there are more, it is not empty and they
\* are all below it.
LEMMA PageSplits ==
  ASSUME NEW ids \in SUBSET Id, Page(ids) # ids
  PROVE  /\ Page(ids) # {}
         /\ \A i \in ids \ Page(ids), j \in Page(ids) : i < j
<1>. DEFINE Above(i) == {j \in ids : j > i}
<1>0. /\ Id \subseteq Nat /\ IsFiniteSet(ids) /\ PageLimit \in Nat \ {0}
  BY ReaderAssumption, FS_Subset DEF ReaderAssumption
<1>00. ids \subseteq Nat
  BY <1>0
<1>1. \A i \in ids : Above(i) \subseteq ids
  OBVIOUS
<1>2. \A i \in ids : IsFiniteSet(Above(i)) /\ Cardinality(Above(i)) \in Nat
  BY <1>0, <1>1, FS_Subset, FS_CardinalityType
<1>3. \A i \in ids : i \in Page(ids) <=> Cardinality(Above(i)) < PageLimit
  BY DEF Page
<1>4. Page(ids) # {}
  <2>1. ids # {}
    BY DEF Page
  <2>2. PICK i \in ids : \A j \in ids : j <= i
    BY <1>0, <1>00, <2>1, Greatest
  <2>3. Above(i) = {}
    <3>1. \A j \in ids : ~(j > i)
      BY <1>00, <2>2
    <3>. QED
      BY <3>1
  <2>4. Cardinality(Above(i)) = 0
    BY <2>3, FS_EmptySet
  <2>. QED
    BY <1>0, <1>3, <2>4
<1>5. ASSUME NEW i \in ids \ Page(ids), NEW j \in Page(ids), ~(i < j) PROVE FALSE
  <2>1. i \in ids /\ j \in ids /\ i # j /\ i \in Nat /\ j \in Nat
    BY <1>00, <1>5 DEF Page
  <2>2. Above(i) \subseteq Above(j)
    <3>1. \A k \in ids : k > i => k > j
      BY <1>00, <1>5, <2>1
    <3>. QED
      BY <3>1
  <2>. HIDE DEF Above
  <2>3. Cardinality(Above(i)) <= Cardinality(Above(j))
    BY <1>2, <2>1, <2>2, FS_Subset
  <2>. QED
    BY <1>0, <1>2, <1>3, <1>5, <2>1, <2>3
<1>. QED
  BY <1>4, <1>5

\* The next cursor is the last row of the page.
LEMMA CursorOf ==
  ASSUME NEW ids \in SUBSET Id
  PROVE  /\ Page(ids) \subseteq ids
         /\ NextCursor(ids) = Null => Page(ids) = ids
         /\ NextCursor(ids) # Null =>
              /\ NextCursor(ids) \in Page(ids)
              /\ \A i \in Page(ids) : NextCursor(ids) <= i
              /\ \A i \in ids \ Page(ids) : i < NextCursor(ids)
<1>0. Page(ids) \subseteq ids
  BY DEF Page
<1>1. CASE Page(ids) = ids
  BY <1>0, <1>1 DEF NextCursor
<1>2. CASE Page(ids) # ids
  <2>1. Page(ids) # {} /\ \A i \in ids \ Page(ids), j \in Page(ids) : i < j
    BY <1>2, PageSplits
  <2>2. Page(ids) \subseteq Nat /\ Null \notin Nat
    BY <1>0, ReaderAssumption DEF ReaderAssumption
  <2>3. /\ Min(Page(ids)) \in Page(ids)
        /\ \A i \in Page(ids) : Min(Page(ids)) <= i
    BY <2>1, <2>2, NatMin
  <2>. QED
    BY <1>0, <1>2, <2>1, <2>2, <2>3 DEF NextCursor
<1>. QED
  BY <1>1, <1>2

\* A load with one page more.
LEMMA Grown ==
  ASSUME LoadedPages, Table, NEW n \in Load, Grows(n)
  PROVE  /\ load[n] \in LoadState /\ load'[n] \in LoadState
         /\ load'[n].pages = Append(load[n].pages, NewPage(n))
         /\ load'[n].cursor = NextCursor(Rows(load[n]))
         /\ load'[n].at = IF NextCursor(Rows(load[n])) = Null THEN "ready" ELSE "page"
         /\ load'[n].throughout = load[n].throughout
         /\ load'[n].country = load[n].country /\ load'[n].saved = load[n].saved
         /\ Rows(load[n]) \in SUBSET Id
<1>. DEFINE ids == Rows(load[n])
            at  == IF NextCursor(ids) = Null THEN "ready" ELSE "page"
<1>1. load[n] \in LoadState
  BY DEF Grows, Loading, LoadedPages
<1>2. ids \in SUBSET Id /\ Page(ids) \subseteq ids
  BY DEF Rows, Page
<1>3. NextCursor(ids) \in Id \cup {Null}
  BY <1>2, CursorOf
<1>4. NewPage(n) \in SUBSET [id : Id, flags : CoupledFlags]
  <2>1. \A i \in Page(ids) : i \in Id /\ row[i] \in CoupledFlags
    BY <1>2 DEF Rows, Matches, Table
  <2>. QED
    BY <2>1 DEF NewPage
<1>5. Append(load[n].pages, NewPage(n)) \in Pages
  BY <1>1, <1>4 DEF LoadState, Pages
<1>6. load'[n] = [load[n] EXCEPT !.pages = Append(load[n].pages, NewPage(n)),
                                 !.cursor = NextCursor(ids), !.at = at]
  BY DEF Grows
<1>7. at \in {"page", "ready"}
  OBVIOUS
<1>8. PICK pages \in Pages, cursor \in Id \cup {Null}, to \in {"page", "ready"} :
        /\ pages = Append(load[n].pages, NewPage(n))
        /\ cursor = NextCursor(ids) /\ to = at
        /\ load'[n] = [load[n] EXCEPT !.pages = pages, !.cursor = cursor, !.at = to]
  BY <1>3, <1>5, <1>6, <1>7
<1>9. /\ load'[n] \in LoadState
      /\ load'[n].pages = pages /\ load'[n].cursor = cursor /\ load'[n].at = to
      /\ load'[n].throughout = load[n].throughout
      /\ load'[n].country = load[n].country /\ load'[n].saved = load[n].saved
  BY <1>1, <1>8 DEF LoadState
<1>. QED
  BY <1>1, <1>2, <1>8, <1>9

\* A load that loses rows.
LEMMA Trimmed ==
  ASSUME LoadedPages, NEW n \in Load, Trims(n)
  PROVE  /\ load[n] \in LoadState /\ load'[n] \in LoadState
         /\ load'[n].pages = load[n].pages /\ load'[n].cursor = load[n].cursor
         /\ load'[n].at = load[n].at
         /\ load'[n].throughout \subseteq load[n].throughout
         /\ load'[n].country = load[n].country /\ load'[n].saved = load[n].saved
<1>1. load[n] \in LoadState
  BY DEF Trims, LoadedPages
<1>2. PICK T \in SUBSET Id : /\ T \subseteq load[n].throughout
                             /\ T = load'[n].throughout
                             /\ load'[n] = [load[n] EXCEPT !.throughout = T]
  BY <1>1 DEF Trims, LoadState
<1>. QED
  BY <1>1, <1>2 DEF LoadState

LEMMA PagesStep == ASSUME Inv, [Next]_vars PROVE LoadedPages'
<1>1. LoadedPages /\ Requests /\ Table
  BY DEF Inv
<1>2. Function /\ \A n \in Load : Turns(n) \/ Opens(n)
  BY <1>1, LoadTurns
<1>3. ASSUME NEW n \in Load, Loading(n)' PROVE load'[n] \in LoadState
  BY <1>1, <1>2, <1>3, Grown, Trimmed DEF Turns, Rests, Ends, Opens, Loading
<1>. QED
  BY <1>2, <1>3 DEF LoadedPages, Function

\* The page that is added lies below the ones before it and takes the rows down
\* to the new cursor.
LEMMA GrownCovers ==
  ASSUME LoadedPages, Table, NEW n \in Load, Grows(n), Covers(load[n]),
         \A i \in load[n].throughout : Matches(load[n], i, row[i])
  PROVE  Covers(load'[n])
<1>. DEFINE q   == load[n]
            ids == Rows(q)
            new == NewPage(n)
            L   == Len(q.pages)
            to  == load'[n]
<1>0. load[n] \in LoadState
  BY Grown
<1>1. /\ q.pages \in Pages /\ L \in Nat /\ q.throughout \subseteq Id /\ q.at = "page"
      /\ q.cursor \in Id \cup {Null}
  <2>1. q.pages \in Pages /\ q.throughout \subseteq Id /\ q.cursor \in Id \cup {Null}
    BY <1>0 DEF LoadState
  <2>2. L \in Nat
    BY <2>1 DEF Pages
  <2>. QED
    BY <2>1, <2>2 DEF Grows
<1>2. /\ to.pages = Append(q.pages, new) /\ to.cursor = NextCursor(ids)
      /\ to.at = IF NextCursor(ids) = Null THEN "ready" ELSE "page"
      /\ to.throughout = q.throughout /\ ids \in SUBSET Id
  BY Grown
<1>3. /\ Page(ids) \subseteq ids
      /\ NextCursor(ids) = Null => Page(ids) = ids
      /\ NextCursor(ids) # Null =>
           /\ NextCursor(ids) \in Page(ids)
           /\ \A i \in Page(ids) : NextCursor(ids) <= i
           /\ \A i \in ids \ Page(ids) : i < NextCursor(ids)
  BY <1>2, CursorOf
<1>4. /\ \A x \in new : x.id \in Page(ids)
      /\ \A i \in Page(ids) : \E x \in new : x.id = i
  <2>1. \A x \in new : \E i \in Page(ids) : x = [id |-> i, flags |-> row[i]]
    BY DEF NewPage
  <2>2. \A i \in Page(ids) : [id |-> i, flags |-> row[i]] \in new
    BY DEF NewPage
  <2>. HIDE DEF new, ids
  <2>3. ASSUME NEW x \in new PROVE x.id \in Page(ids)
    <3>1. PICK i \in Page(ids) : x = [id |-> i, flags |-> row[i]]
      BY <2>1
    <3>. QED
      BY <3>1
  <2>4. ASSUME NEW i \in Page(ids) PROVE \E x \in new : x.id = i
    <3>1. [id |-> i, flags |-> row[i]].id = i
      OBVIOUS
    <3>. QED
      BY <2>2, <3>1
  <2>. QED
    BY <2>3, <2>4
<1>5. \A i \in ids : q.cursor = Null \/ i < q.cursor
  BY DEF Rows
<1>6. \A i \in q.throughout : (q.cursor = Null \/ i < q.cursor) => i \in ids
  BY <1>1 DEF Rows
<1>7. /\ \A j, k \in 1..L : j < k =>
           \A x \in q.pages[j], y \in q.pages[k] : x.id > y.id
      /\ q.cursor # Null => \A k \in 1..L : \A x \in q.pages[k] : x.id >= q.cursor
      /\ q.cursor = Null => L = 0
      /\ \A i \in q.throughout :
           \/ \E k \in 1..L : \E x \in q.pages[k] : x.id = i
           \/ q.cursor = Null \/ i < q.cursor
  <2>1. DOMAIN q.pages = 1..L
    BY <1>1 DEF Pages
  <2>. QED
    BY <1>1, <2>1 DEF Covers
<1>8. \A k \in 1..L : \A x \in q.pages[k] : x.id \in Id
  BY <1>1 DEF Pages
<1>9. /\ DOMAIN to.pages = 1..(L + 1) /\ to.pages[L + 1] = new
      /\ \A k \in 1..L : to.pages[k] = q.pages[k]
  BY <1>1, <1>2 DEF Pages
<1>10. Id \subseteq Nat
  BY ReaderAssumption DEF ReaderAssumption
<1>. HIDE DEF q, ids, new, L, to
<1>11. ASSUME NEW k \in 1..L, NEW x \in q.pages[k], NEW y \in new
       PROVE  x.id > y.id
  <2>1. x.id \in Nat /\ y.id \in ids /\ y.id \in Nat
    BY <1>2, <1>3, <1>4, <1>8, <1>10
  <2>2. q.cursor # Null
    BY <1>1, <1>7
  <2>3. q.cursor \in Nat /\ x.id >= q.cursor /\ y.id < q.cursor
    BY <1>1, <1>5, <1>7, <1>10, <2>1, <2>2
  <2>. QED
    BY <2>1, <2>3
<1>12. ASSUME NEW k \in 1..(L + 1) PROVE k \in 1..L \/ k = L + 1
  BY <1>1
<1>13. ASSUME NEW j \in 1..(L + 1), NEW k \in 1..(L + 1), j < k,
              NEW x \in to.pages[j], NEW y \in to.pages[k]
       PROVE  x.id > y.id
  <2>1. j \in 1..L
    BY <1>1, <1>13
  <2>2. CASE k \in 1..L
    BY <1>7, <1>9, <1>13, <2>1, <2>2
  <2>3. CASE k = L + 1
    BY <1>9, <1>11, <2>1, <2>3
  <2>. QED
    BY <1>12, <2>2, <2>3
<1>14. ASSUME to.cursor # Null, NEW k \in 1..(L + 1), NEW x \in to.pages[k]
       PROVE  x.id >= to.cursor
  <2>1. /\ to.cursor \in Page(ids) /\ to.cursor \in Nat
        /\ \A i \in Page(ids) : to.cursor <= i
    BY <1>2, <1>3, <1>10, <1>14
  <2>2. PICK y \in new : y.id = to.cursor
    BY <1>4, <2>1
  <2>3. CASE k \in 1..L
    <3>1. x \in q.pages[k] /\ x.id \in Nat
      BY <1>8, <1>9, <1>10, <2>3
    <3>2. x.id > y.id
      BY <1>11, <2>3, <3>1
    <3>. QED
      BY <2>1, <2>2, <3>1, <3>2
  <2>4. CASE k = L + 1
    <3>1. x \in new
      BY <1>9, <2>4
    <3>2. x.id \in Page(ids) /\ x.id \in Nat
      BY <1>2, <1>3, <1>4, <1>10, <3>1
    <3>. QED
      BY <2>1, <3>2
  <2>. QED
    BY <1>12, <2>3, <2>4
<1>15. ~(to.at = "page" /\ to.cursor = Null)
  BY <1>2
<1>16. ASSUME NEW i \in to.throughout
       PROVE  \/ \E k \in 1..(L + 1) : \E x \in to.pages[k] : x.id = i
              \/ to.at = "page" /\ (to.cursor = Null \/ i < to.cursor)
  <2>1. CASE \E k \in 1..L : \E x \in q.pages[k] : x.id = i
    <3>1. PICK k \in 1..L : \E x \in q.pages[k] : x.id = i
      BY <2>1
    <3>2. k \in 1..(L + 1) /\ to.pages[k] = q.pages[k]
      BY <1>1, <1>9
    <3>. QED
      BY <3>1, <3>2
  <2>2. CASE i \in Page(ids)
    <3>1. L + 1 \in 1..(L + 1)
      BY <1>1
    <3>. QED
      BY <1>4, <1>9, <2>2, <3>1
  <2>3. CASE i \in ids \ Page(ids)
    <3>1. NextCursor(ids) # Null
      BY <1>3, <2>3
    <3>. QED
      BY <1>2, <1>3, <2>3, <3>1
  <2>. QED
    BY <1>2, <1>6, <1>7, <2>1, <2>2, <2>3
<1>17. Covers(to)
  BY <1>9, <1>13, <1>14, <1>15, <1>16 DEF Covers
<1>. QED
  BY <1>17 DEF to

LEMMA CompleteStep == ASSUME Inv, [Next]_vars PROVE Complete'
<1>1. LoadedPages /\ Requests /\ Table /\ Complete
  BY DEF Inv
<1>2. \A n \in Load : Turns(n) \/ Opens(n)
  BY <1>1, LoadTurns
<1>3. ASSUME NEW n \in Load, Loading(n)'
      PROVE  /\ Covers(load'[n])
             /\ \A i \in load'[n].throughout : Matches(load'[n], i, row'[i])
  <2>1. CASE Opens(n)
    <3>1. load'[n].pages = <<>> /\ load'[n].at = "page" /\ load'[n].cursor = Null
      BY <2>1 DEF Opens
    <3>2. Covers(load'[n])
      BY <3>1 DEF Covers
    <3>. QED
      BY <2>1, <3>2 DEF Opens
  <2>2. CASE Trims(n)
    <3>1. /\ load'[n].pages = load[n].pages /\ load'[n].cursor = load[n].cursor
          /\ load'[n].at = load[n].at
          /\ load'[n].throughout \subseteq load[n].throughout
          /\ load'[n].country = load[n].country /\ load'[n].saved = load[n].saved
      BY <1>1, <2>2, Trimmed
    <3>2. /\ Covers(load[n])
          /\ \A i \in load[n].throughout : Matches(load[n], i, row[i])
      BY <1>1, <2>2 DEF Trims, Complete
    <3>3. Covers(load'[n])
      BY <3>1, <3>2 DEF Covers
    <3>4. \A i \in load'[n].throughout : Matches(load[n], i, row'[i])
      BY <2>2, <3>2 DEF Trims
    <3>. QED
      BY <3>1, <3>3, <3>4 DEF Matches
  <2>3. CASE Grows(n)
    <3>1. /\ Covers(load[n])
          /\ \A i \in load[n].throughout : Matches(load[n], i, row[i])
      BY <1>1, <2>3 DEF Grows, Loading, Complete
    <3>2. Covers(load'[n])
      BY SMTT(30), <1>1, <2>3, <3>1, GrownCovers
    <3>3. /\ load'[n].throughout = load[n].throughout /\ row' = row
          /\ load'[n].country = load[n].country /\ load'[n].saved = load[n].saved
      BY ZenonT(40), <1>1, <2>3, Grown DEF Grows
    <3>. QED
      BY <3>1, <3>2, <3>3 DEF Matches
  <2>. QED
    BY <1>2, <1>3, <2>1, <2>2, <2>3 DEF Turns, Rests, Ends, Loading
<1>. QED
  BY <1>3 DEF Complete, Loading

LEMMA ShownStep == ASSUME Inv, [Next]_vars PROVE Shown'
<1>0. Shown /\ Requests /\ obj \in [Load -> Objs]
  BY DEF Inv, Shown
<1>1. ASSUME NEW n \in Load, LoadAnswer(n) PROVE Shown'
  <2>1. Objects(Items(n)) \in Objs
    BY <1>1, ItemsTyped, ObjectsTyped DEF Inv, LoadAnswer, Loading
  <2>2. [obj EXCEPT ![n] = Objects(Items(n))] \in [Load -> Objs]
    BY <1>0, <2>1
  <2>3. obj' \in [Load -> Objs]
    BY <1>1, <2>2, KeepKeeps DEF LoadAnswer
  <2>4. {detail', cluster', current'} \subseteq Load \cup {0}
    BY <1>0, <1>1 DEF LoadAnswer, CloseSidebar, Shown
  <2>. QED
    BY <2>3, <2>4 DEF Shown
<1>2. ASSUME NEW n \in Load, LoadFails(n) PROVE Shown'
  BY <1>0, <1>2, KeepKeeps DEF LoadFails, CloseSidebar, Shown
<1>3. ASSUME Close \/ OnClusterClick PROVE Shown'
  BY <1>0, <1>3, KeepKeeps DEF Close, OnClusterClick, CloseSidebar, Shown
<1>4. ASSUME NEW n \in Toggle, NEW i \in Id, NEW flag \in Flag, SendToggle(n, i, flag)
      PROVE  Shown'
  <2>. DEFINE value == ~obj[cluster][i][flag]
              prev  == IF Listed(i) THEN obj[detail][i] ELSE Unread
  <2>1. prev \in CoupledFlags
    BY <1>0, ListedFlags, UnreadCoupled
  <2>2. value \in BOOLEAN
    OBVIOUS
  <2>3. Show(i, Optimistic(prev, flag, value)) /\ UNCHANGED <<detail, cluster, current>>
    BY <1>4 DEF SendToggle
  <2>. HIDE DEF value, prev
  <2>4. Optimistic(prev, flag, value) \in CoupledFlags
    BY <2>1, <2>2, OptimisticCoupled
  <2>. QED
    BY <1>0, <2>3, <2>4, ShowKeeps DEF Shown
<1>5. ASSUME NEW n \in Toggle, ToggleAnswer(n) PROVE Shown'
  <2>1. Sound(patch[n]) /\ patch[n].id \in Id
    BY <1>0, <1>5 DEF ToggleAnswer, Requests, Sound
  <2>. DEFINE i == patch[n].id
  <2>2. Listed(i) => Answered(obj[detail][i], patch[n]) \in CoupledFlags
    BY <1>0, <2>1, ListedFlags, AnsweredCoupled
  <2>3. /\ Show(i, Answered(obj[detail][i], patch[n])) \/ obj' = obj
        /\ UNCHANGED <<detail, cluster, current>>
    BY <1>5 DEF ToggleAnswer
  <2>. QED
    BY <1>0, <2>1, <2>2, <2>3, ShowKeeps DEF Shown
<1>6. ASSUME NEW n \in Toggle, ToggleError(n) PROVE Shown'
  <2>1. patch[n].id \in Id /\ patch[n].prev \in CoupledFlags
    BY <1>0, <1>6 DEF ToggleError, Requests, Sound
  <2>2. /\ Show(patch[n].id, patch[n].prev) \/ obj' = obj
        /\ UNCHANGED <<detail, cluster, current>>
    BY <1>6 DEF ToggleError, Rollback
  <2>. QED
    BY <1>0, <2>1, <2>2, ShowKeeps DEF Shown
<1>7. ASSUME obj' = obj, detail' = detail, cluster' = cluster,
             current' \in Load \cup {current}
      PROVE  Shown'
  BY SMTT(30), <1>0, <1>7 DEF Shown
<1>. QED
  BY <1>1, <1>2, <1>3, <1>4, <1>5, <1>6, <1>7
     DEF Next, OpenCountry, GetPage, Update, Select, Lose, Insert, Delete, vars

LEMMA CountedStep == ASSUME Inv, [Next]_vars PROVE Counted'
<1>0. Counted /\ Shown /\ Requests
  BY DEF Inv
<1>1. ASSUME NEW n \in Toggle, NEW i \in Id, NEW flag \in Flag, SendToggle(n, i, flag)
      PROVE  Counted'
  <2>. DEFINE value == ~obj[cluster][i][flag]
              prev  == IF Listed(i) THEN obj[detail][i] ELSE Unread
  <2>1. prev \in CoupledFlags
    BY <1>0, ListedFlags, UnreadCoupled
  <2>2. value \in BOOLEAN
    OBVIOUS
  <2>3. Show(i, Optimistic(prev, flag, value))
    BY <1>1 DEF SendToggle
  <2>. HIDE DEF value, prev
  <2>4. Optimistic(prev, flag, value) \in CoupledFlags
    BY <2>1, <2>2, OptimisticCoupled
  <2>. QED
    BY <1>0, <2>3, <2>4, ShowCounted
<1>2. ASSUME NEW n \in Toggle, ToggleAnswer(n) PROVE Counted'
  <2>1. Sound(patch[n]) /\ patch[n].id \in Id
    BY <1>0, <1>2 DEF ToggleAnswer, Requests, Sound
  <2>. DEFINE i == patch[n].id
  <2>2. Listed(i) => Answered(obj[detail][i], patch[n]) \in CoupledFlags
    BY <1>0, <2>1, ListedFlags, AnsweredCoupled
  <2>3. Show(i, Answered(obj[detail][i], patch[n])) \/ counts' = counts
    BY <1>2 DEF ToggleAnswer
  <2>. QED
    BY <1>0, <2>1, <2>2, <2>3, ShowCounted DEF Counted
<1>3. ASSUME NEW n \in Toggle, ToggleError(n) PROVE Counted'
  <2>1. patch[n].id \in Id /\ patch[n].prev \in CoupledFlags
    BY <1>0, <1>3 DEF ToggleError, Requests, Sound
  <2>2. Show(patch[n].id, patch[n].prev) \/ counts' = counts
    BY <1>3 DEF ToggleError, Rollback
  <2>. QED
    BY <1>0, <2>1, <2>2, ShowCounted DEF Counted
<1>4. ASSUME counts' = counts PROVE Counted'
  BY SMTT(30), <1>0, <1>4 DEF Counted
<1>. QED
  BY <1>1, <1>2, <1>3, <1>4
     DEF Next, OpenCountry, GetPage, LoadAnswer, LoadFails, Update, Select, Lose,
         Insert, Delete, Close, OnClusterClick, vars

LEMMA CleanStep == ASSUME Inv, [Next]_vars PROVE clean' \in BOOLEAN
BY ZenonT(40) DEF Inv, Next, OpenCountry, GetPage, LoadAnswer, LoadFails, SendToggle,
       ToggleAnswer, ToggleError, Update, Select, Lose, Insert, Delete, Close,
       OnClusterClick, vars

LEMMA NewestStep == ASSUME Inv, [Next]_vars PROVE Newest'
<1>0. Newest /\ LoadedPages /\ Requests /\ Table
  BY DEF Inv
<1>1. \A n \in Load : Turns(n) \/ Opens(n)
  BY <1>0, LoadTurns
<1>2. ASSUME NEW n \in Load, Turns(n) PROVE load'[n].at = "none" <=> load[n].at = "none"
  <2>1. CASE Trims(n)
    BY <1>0, <2>1, Trimmed
  <2>2. CASE Grows(n)
    BY <1>0, <2>2, Grown DEF Grows
  <2>. QED
    BY <1>2, <2>1, <2>2 DEF Turns, Rests, Ends, Opened
<1>3. ASSUME NEW n \in Load, NEW c \in Country, NEW saved \in BOOLEAN,
             OpenCountry(n, c, saved)
      PROVE  Newest'
  <2>0. Opened \subseteq Opened'
    BY <1>1, <1>2 DEF Opened, Opens
  <2>1. Opened' \subseteq Opened \cup {n} /\ n \in Opened'
    <3>1. load'[n].at = "page" /\ \A m \in Load \ {n} : load'[m] = load[m]
      BY <1>0, <1>3 DEF OpenCountry, LoadedPages
    <3>. QED
      BY <3>1 DEF Opened
  <2>2. 1..(n - 1) \subseteq Opened /\ n \notin Opened /\ current' = n
    BY <1>3 DEF OpenCountry, IsNext
  <2>3. \A m \in Opened' : 1..(m - 1) \subseteq Opened'
    BY <1>0, <2>0, <2>1, <2>2 DEF Newest
  <2>4. ASSUME NEW m \in Load, m > n PROVE m \notin Opened'
    <3>1. SUFFICES ASSUME m \in Opened PROVE FALSE
      BY <2>1, <2>4 DEF Load
    <3>2. n \in 1..(m - 1)
      BY <2>4, ReaderAssumption DEF Load, ReaderAssumption
    <3>. QED
      BY <1>0, <2>2, <3>1, <3>2 DEF Newest
  <2>. QED
    BY <2>2, <2>3, <2>4 DEF Newest
<1>4. ASSUME \A n \in Load : Turns(n), current' \in {0, current} PROVE Newest'
  <2>1. Opened' = Opened
    BY SMTT(30), <1>2, <1>4 DEF Opened
  <2>. QED
    BY <1>0, <1>4, <2>1 DEF Newest
<1>5. \/ \E n \in Load, c \in Country, saved \in BOOLEAN : OpenCountry(n, c, saved)
      \/ current' \in {0, current}
  BY ZenonT(40) DEF Next, GetPage, LoadAnswer, LoadFails, SendToggle, ToggleAnswer, ToggleError,
     Update, Select, Lose, Insert, Delete, Close, OnClusterClick, CloseSidebar, vars
<1>. QED
  BY <1>0, <1>3, <1>4, <1>5, LoadTurns

-----------------------------------------------------------------------------
(* The whole invariant. *)

LEMMA InitInv == Init => Inv
<1>. SUFFICES ASSUME Init PROVE Inv
  OBVIOUS
<1>1. Table
  <2>1. [read |-> TRUE, saved |-> TRUE] \in CoupledFlags
    BY Record
  <2>. QED
    BY <2>1, UnreadCoupled DEF Init, Table
<1>2. Requests
  BY DEF Init, Requests
<1>3. \A n \in Load : load[n] = [at |-> "none"]
  BY DEF Init
<1>4. LoadedPages /\ Complete
  BY <1>3 DEF Init, LoadedPages, Complete, Loading
<1>5. Shown
  BY DEF Init, Shown, Objs
<1>6. Newest
  BY <1>3 DEF Init, Newest, Opened
<1>7. Counted
  <2>. DEFINE Read(c) == {i \in Today : CountryOf[i] = c /\ Stored(i) /\ row[i]["read"]}
              Kept(c) == {i \in Id : CountryOf[i] = c /\ Stored(i) /\ row[i]["saved"]}
              All(c)  == {i \in Today : CountryOf[i] = c /\ Stored(i)}
  <2>1. counts = [c \in Country |-> [total |-> Cardinality(All(c)),
                   read |-> Cardinality(Read(c)), saved |-> Cardinality(Kept(c))]]
    BY DEF Init, Summary, Total, CountIn
  <2>2. ASSUME NEW c \in Country
        PROVE  /\ Read(c) \subseteq All(c) /\ IsFiniteSet(All(c))
               /\ Cardinality(All(c)) \in Nat /\ Cardinality(Read(c)) \in Nat
               /\ Cardinality(Kept(c)) \in Nat
    <3>1. /\ Read(c) \in SUBSET Id /\ All(c) \in SUBSET Id /\ Kept(c) \in SUBSET Id
          /\ Read(c) \subseteq All(c)
      BY ReaderAssumption DEF ReaderAssumption
    <3>. HIDE DEF Read, Kept, All
    <3>. QED
      BY <3>1, SetTyped
  <2>. HIDE DEF Read, Kept, All
  <2>3. \A c \in Country : Cardinality(Read(c)) <= Cardinality(All(c))
    BY <2>2, FS_Subset
  <2>. QED
    BY <2>1, <2>2, <2>3 DEF Counted
<1>8. clean \in BOOLEAN
  BY DEF Init
<1>. QED
  BY <1>1, <1>2, <1>4, <1>5, <1>6, <1>7, <1>8 DEF Inv

\* Inv holds in every reachable state.
THEOREM Invariant == Spec => []Inv
<1>1. ASSUME Inv, [Next]_vars PROVE Inv'
  BY <1>1, TableStep, RequestsStep, PagesStep, CompleteStep, ShownStep,
     CountedStep, NewestStep, CleanStep DEF Inv
<1>. QED
  BY InitInv, <1>1, PTL DEF Spec

-----------------------------------------------------------------------------
(* The properties. *)

\* For any number of articles, countries, loads and toggles: what the page holds
\* of an article are flags, and no counter of read articles exceeds its country's
\* articles (state.service.ts patchSummaryReadCount).
THEOREM TypeCorrect == Spec => []TypeOK
<1>0. CoupledFlags \subseteq Flags
  BY CoupledParts
<1>1. ASSUME Inv PROVE TypeOK
  <2>1. row \in [Id -> Flags \cup {New, Gone}]
    BY <1>0, <1>1 DEF Inv, Table
  <2>2. patch \in [Toggle -> Request \cup {Null}]
    <3>1. ASSUME NEW n \in Toggle, patch[n] # Null PROVE patch[n] \in Request
      <4>1. Sound(patch[n])
        BY <1>1, <3>1 DEF Inv, Requests
      <4>. QED
        BY <1>0, <4>1 DEF Sound, Request
    <3>. QED
      BY <1>1, <3>1 DEF Inv, Requests
  <2>3. ASSUME NEW n \in Load, Loading(n)
        PROVE  /\ load[n].pages \in Seq(SUBSET Item)
               /\ load[n].cursor \in Id \cup {Null}
               /\ load[n].throughout \subseteq Id
    <3>1. load[n] \in LoadState
      BY <1>1, <2>3 DEF Inv, LoadedPages
    <3>2. SUBSET [id : Id, flags : CoupledFlags] \subseteq SUBSET Item
      BY <1>0 DEF Item
    <3>3. Pages \subseteq Seq(SUBSET Item)
      BY <3>2, SeqWider DEF Pages
    <3>4. /\ load[n].pages \in Pages /\ load[n].cursor \in Id \cup {Null}
          /\ load[n].throughout \in SUBSET Id
      BY <3>1 DEF LoadState
    <3>. QED
      BY <3>3, <3>4
  <2>4. obj \in [Load -> [Id -> Flags \cup {Null}]]
    BY <1>0, <1>1 DEF Inv, Shown, Objs
  <2>5. \A c \in Country : counts[c].read \in 0..counts[c].total
    BY <1>1 DEF Inv, Counted
  <2>. QED
    BY <1>1, <2>1, <2>2, <2>3, <2>4, <2>5 DEF Inv, Shown, TypeOK
<1>. QED
  BY <1>1, Invariant, PTL

\* For any page size and any number of articles: a load returns every article
\* that was in its selection from the first page to the last, and none twice,
\* though rows are inserted, deleted and unsaved between the pages
\* (articles_query.py keyset cursor, article.service.ts page loop).
THEOREM PagesCompleteHolds == Spec => []PagesComplete
<1>1. ASSUME Inv PROVE PagesComplete
  <2>. SUFFICES ASSUME NEW n \in Load, Loading(n)
                PROVE  /\ \A j, k \in DOMAIN load[n].pages : j < k =>
                            \A x \in load[n].pages[j], y \in load[n].pages[k] : x.id > y.id
                       /\ load[n].at = "ready" =>
                            load[n].throughout \subseteq {x.id : x \in Items(n)}
    BY DEF PagesComplete
  <2>1. Covers(load[n])
    BY <1>1 DEF Inv, Complete
  <2>2. ASSUME load[n].at = "ready", NEW i \in load[n].throughout
        PROVE  i \in {x.id : x \in Items(n)}
    <3>1. PICK k \in DOMAIN load[n].pages : \E x \in load[n].pages[k] : x.id = i
      BY <2>1, <2>2 DEF Covers
    <3>2. load[n].pages[k] \subseteq Items(n)
      BY DEF Items
    <3>. QED
      BY <3>1, <3>2
  <2>. QED
    BY <2>1, <2>2 DEF Covers
<1>. QED
  BY <1>1, Invariant, PTL

\* "Save => read, unread => unsaved", for any number of articles, toggles and
\* loads: no order of updates, answers and rollbacks leaves a row, or an
\* article of the page, that is saved and unread (main.py PATCH handlers,
\* state.service.ts toggleReadStatus and toggleSavedStatus).
THEOREM CouplingHolds == Spec => []Coupling
<1>1. ASSUME Inv PROVE Coupling
  <2>1. ASSUME NEW i \in Id, Stored(i) PROVE Coupled(row[i])
    BY <1>1, <2>1, StoredFlags DEF Inv, CoupledFlags
  <2>2. ASSUME NEW n \in Load, NEW i \in Id, obj[n][i] # Null PROVE Coupled(obj[n][i])
    <3>1. obj[n][i] \in CoupledFlags
      BY <1>1, <2>2 DEF Inv, Shown, Objs
    <3>. QED
      BY <3>1 DEF CoupledFlags
  <2>. QED
    BY <2>1, <2>2 DEF Coupling
<1>. QED
  BY <1>1, Invariant, PTL

\* However many countries are opened and however late their answers come, an
\* answer opens the sidebar only for the load made last (the generation token
\* of app.ts onCountryClick).
THEOREM LateAnswerKeepsSidebarHolds == Spec => LateAnswerKeepsSidebar
<1>. DEFINE OnlyNewest ==
       cluster' # cluster /\ cluster' # 0 /\ detail' # detail =>
         /\ current = cluster'
         /\ \A n \in Load : n > cluster' => n \notin Opened
<1>1. ASSUME Inv, [Next]_vars PROVE OnlyNewest
  <2>. SUFFICES ASSUME cluster' # cluster, cluster' # 0, detail' # detail
                PROVE  current = cluster' /\ current # 0
    BY <1>1 DEF Inv, Newest
  <2>. QED
    BY ZenonT(40), <1>1 DEF Next, OpenCountry, GetPage, LoadAnswer, LoadFails, SendToggle,
       ToggleAnswer, ToggleError, Update, Select, Lose, Insert, Delete, Close,
       OnClusterClick, CloseSidebar, vars
<1>. QED
  BY <1>1, Invariant, PTL DEF Spec, LateAnswerKeepsSidebar
=============================================================================
