---------------------------- MODULE SettledProofs ----------------------------
(***************************************************************************)
(* That the page shows what the table holds, for any number of articles,   *)
(* loads and toggles.                                                      *)
(*                                                                         *)
(* First for a clean history, once nothing is in flight, counters          *)
(* included.  The argument is a picture of every article: the row of the   *)
(* table, but for an article whose request waits, where it is the flags    *)
(* the page has already put into its list.  List and counters show that    *)
(* picture, and every step of the server and of the page keeps it.         *)
(*                                                                         *)
(* Then for every history and at every moment, for the articles of the     *)
(* list whose flags were taken after the last write of their row.          *)
(***************************************************************************)
EXTENDS ReaderProofs, ReaderHistory

-----------------------------------------------------------------------------
(* The invariant. *)

\* The page waits for the answer to a request, and what the article becomes.
Waiting(n) == patch[n] # Null /\ patch[n].waiting

Wanted(p) == Optimistic(p.prev, p.flag, p.value)

\* A request the page has done with is done, or never reached the table.
Ended == \A n \in Toggle :
  patch[n] # Null /\ ~patch[n].waiting => patch[n].server \in {"done", "lost"}

\* While a request waits, no other one is made for its article.
Alone == \A m, n \in Toggle :
  Waiting(n) /\ patch[m] # Null /\ m > n => patch[m].id # patch[n].id

\* Requests wait or loads run, but not both.
Apart == \A n \in Load, m \in Toggle : ~(Loading(n) /\ Waiting(m))

\* A request has changed its row as the page expects, or not at all, and its
\* answer is the other flag of the row.
Carried == \A n \in Toggle : Waiting(n) =>
  LET p == patch[n]
  IN  /\ row[p.id] = IF p.server \in {"sent", "lost"} THEN p.prev ELSE Wanted(p)
      /\ p.server = "done" /\ p.answer # Null => p.answer = row[p.id][Other(p.flag)]

\* The counters of the page follow what a request wants, and may go back.
Countable == \A n \in Toggle : Waiting(n) =>
  RightlyCounted(patch[n].id, patch[n].prev, Wanted(patch[n]))

\* The pages of a load are what the table holds.
Fresh == \A n \in Load : Loading(n) =>
  \A k \in DOMAIN load[n].pages : \A x \in load[n].pages[k] : x.flags = row[x.id]

View == [Id -> CoupledFlags \cup {New, Gone}]

\* view is the table, but for the articles whose request waits.
Views(view) ==
  /\ \A i \in Id : (\A n \in Toggle : Waiting(n) => patch[n].id # i) => view[i] = row[i]
  /\ \A n \in Toggle : Waiting(n) => view[patch[n].id] = Wanted(patch[n])

Lists(view) == \A i \in Id : Listed(i) => obj[detail][i] = view[i]

All(view, c) == {i \in Today : CountryOf[i] = c /\ view[i] \notin {New, Gone}}

With(view, c, ids, flag) ==
  {i \in ids : CountryOf[i] = c /\ view[i] \notin {New, Gone} /\ view[i][flag]}

CountsOf(view) ==
  [c \in Country |-> [total |-> Cardinality(All(view, c)),
                      read  |-> Cardinality(With(view, c, Today, "read")),
                      saved |-> Cardinality(With(view, c, Id, "saved"))]]

Pictures(view) == Views(view) /\ Lists(view) /\ counts = CountsOf(view)

Faithful == /\ Ended /\ Alone /\ Apart /\ Carried /\ Countable /\ Fresh
            /\ \E view \in View : Pictures(view)

\* The requests are made one after the other.
Ordered == \A n \in Toggled : 1..(n - 1) \subseteq Toggled

Settled == Ordered /\ (clean => Faithful)

-----------------------------------------------------------------------------
\* The server does what the page has shown.
LEMMA UpdatedAsShown ==
  ASSUME NEW f \in CoupledFlags, NEW flag \in Flag, NEW v \in BOOLEAN
  PROVE  Updated(f, flag, v) = Optimistic(f, flag, v)
<1>0. f \in Flags /\ f.read \in BOOLEAN /\ f.saved \in BOOLEAN
  BY CoupledParts DEF Flags
<1>1. [f EXCEPT !.read = TRUE] = [read |-> TRUE, saved |-> f.saved]
  BY <1>0, OneFlag DEF Flags
<1>2. [f EXCEPT !.saved = FALSE] = [read |-> f.read, saved |-> FALSE]
  BY <1>0, OneFlag DEF Flags
<1>3. /\ (f.saved /\ TRUE) = f.saved /\ (f.saved /\ FALSE) = FALSE
      /\ (f.read \/ TRUE) = TRUE /\ (f.read \/ FALSE) = f.read
  BY <1>0
<1>4. CASE flag = "read" /\ v = TRUE
  BY <1>1, <1>3, <1>4 DEF Updated, Optimistic
<1>5. CASE flag = "read" /\ v = FALSE
  BY <1>3, <1>5 DEF Updated, Optimistic, Unread
<1>6. CASE flag = "saved" /\ v = TRUE
  BY <1>3, <1>6 DEF Updated, Optimistic
<1>7. CASE flag = "saved" /\ v = FALSE
  BY <1>2, <1>3, <1>7 DEF Updated, Optimistic
<1>. QED
  BY <1>4, <1>5, <1>6, <1>7 DEF Flag

\* A change that is shown twice is shown once.
LEMMA OptimisticTwice ==
  ASSUME NEW f \in CoupledFlags, NEW flag \in Flag, NEW v \in BOOLEAN
  PROVE  Optimistic(Optimistic(f, flag, v), flag, v) = Optimistic(f, flag, v)
<1>0. f.read \in BOOLEAN /\ f.saved \in BOOLEAN
  BY CoupledParts DEF Flags
<1>1. ((f.saved /\ v) /\ v) = (f.saved /\ v)
  BY <1>0
<1>2. ((f.read \/ v) \/ v) = (f.read \/ v)
  BY <1>0
<1>. QED
  BY <1>1, <1>2 DEF Optimistic, Flag

\* The answer to a request that waits changes nothing of what is shown.
LEMMA AnsweredAsShown ==
  ASSUME NEW p, Sound(p), NEW f, f = Wanted(p), p.answer # Null => p.answer = f[Other(p.flag)]
  PROVE  Answered(f, p) = f
<1>1. p.prev \in CoupledFlags /\ p.flag \in Flag /\ p.value \in BOOLEAN
  BY DEF Sound
<1>2. f \in CoupledFlags /\ f \in Flags
  BY <1>1, OptimisticCoupled, CoupledParts DEF Wanted
<1>3. Optimistic(f, p.flag, p.value) = f
  BY <1>1, OptimisticTwice DEF Wanted
<1>4. [f EXCEPT ![Other(p.flag)] = f[Other(p.flag)]] = f
  BY <1>2 DEF Flags
<1>. QED
  BY <1>3, <1>4 DEF Answered

-----------------------------------------------------------------------------
(* The counters. *)

LEMMA FlagTyped ==
  ASSUME NEW g \in CoupledFlags, NEW f \in Flag
  PROVE  g[f] \in BOOLEAN /\ g \notin {New, Gone}
BY CoupledParts, ReaderAssumption DEF Flags, Flag, ReaderAssumption

LEMMA WithTyped ==
  ASSUME NEW view, NEW c, NEW ids \in SUBSET Id, NEW f
  PROVE  /\ IsFiniteSet(With(view, c, ids, f))
         /\ Cardinality(With(view, c, ids, f)) \in Nat
<1>1. With(view, c, ids, f) \in SUBSET Id
  BY DEF With
<1>. QED
  BY <1>1, SetTyped

\* A flag that one article of the date lacks is counted below its articles.
LEMMA BelowAll ==
  ASSUME NEW view, NEW c, NEW f, NEW i \in All(view, c), view[i][f] = FALSE
  PROVE  /\ Cardinality(All(view, c)) \in Nat
         /\ Cardinality(With(view, c, Today, f)) < Cardinality(All(view, c))
<1>. DEFINE A == With(view, c, Today, f)
            B == All(view, c)
<1>1. A \subseteq B /\ i \in B /\ i \notin A
  BY DEF With, All
<1>2. B \in SUBSET Id /\ A \in SUBSET Id
  BY ReaderAssumption DEF All, With, ReaderAssumption
<1>. HIDE DEF A, B
<1>3. /\ IsFiniteSet(B) /\ Cardinality(B) \in Nat /\ Cardinality(A) \in Nat
  BY <1>2, SetTyped
<1>4. Cardinality(A) <= Cardinality(B) /\ (Cardinality(A) = Cardinality(B) => A = B)
  BY <1>1, <1>3, FS_Subset
<1>5. Cardinality(A) < Cardinality(B)
  BY <1>1, <1>3, <1>4
<1>. QED
  BY <1>3, <1>5 DEF A, B

\* The counter of a flag moves with the flag of one article.
LEMMA CountOne ==
  ASSUME NEW view \in View, NEW ids \in SUBSET Id, NEW i \in ids, view[i] \in CoupledFlags,
         NEW to \in CoupledFlags, NEW f \in Flag, NEW most \in Nat,
         view[i][f] = FALSE => Cardinality(With(view, CountryOf[i], ids, f)) < most
  PROVE  Cardinality(With([view EXCEPT ![i] = to], CountryOf[i], ids, f))
           = Adjust(Cardinality(With(view, CountryOf[i], ids, f)), view[i][f], to[f], most)
<1>. DEFINE c   == CountryOf[i]
            new == [view EXCEPT ![i] = to]
            A   == With(view, c, ids, f)
            B   == With(new, c, ids, f)
            a   == Cardinality(A)
<1>1. /\ view[i][f] \in BOOLEAN /\ to[f] \in BOOLEAN
      /\ view[i] \notin {New, Gone} /\ to \notin {New, Gone}
  BY FlagTyped
<1>2. \A j \in ids : new[j] = IF j = i THEN to ELSE view[j]
  BY DEF View
<1>3. IsFiniteSet(A) /\ a \in Nat
  BY WithTyped
<1>4. view[i][f] = FALSE => a < most
  OBVIOUS
<1>5. i \in A <=> view[i][f]
  BY <1>1 DEF With
<1>6. /\ to[f] = TRUE => B = A \cup {i}
      /\ to[f] = FALSE => B = A \ {i}
  BY <1>1, <1>2 DEF With
<1>. HIDE DEF c, new, A, B
<1>7. CASE view[i][f] = to[f]
  <2>1. B = A
    BY <1>1, <1>5, <1>6, <1>7
  <2>. QED
    BY <1>1, <1>7, <2>1, AdjustSame DEF A, B, new, c
<1>8. CASE view[i][f] = FALSE /\ to[f] = TRUE
  <2>1. B = A \cup {i} /\ i \notin A
    BY <1>5, <1>6, <1>8
  <2>2. Cardinality(B) = a + 1
    BY <1>3, <2>1, FS_AddElement
  <2>. HIDE DEF a
  <2>7. Adjust(a, FALSE, TRUE, most) = a + 1
    BY <1>3, <1>4, <1>8, AdjustUp, Zenon
  <2>8. Cardinality(B) = Adjust(a, view[i][f], to[f], most)
    BY <1>8, <2>2, <2>7, Zenon
  <2>. QED
    BY <2>8, Zenon DEF a, A, B, new, c
<1>9. CASE view[i][f] = TRUE /\ to[f] = FALSE
  <2>1. B = A \ {i} /\ i \in A
    BY <1>5, <1>6, <1>9
  <2>2. Cardinality(B) = a - 1
    BY <1>3, <2>1, FS_RemoveElement
  <2>3. a > 0
    BY <1>3, <2>1, FS_EmptySet
  <2>. HIDE DEF a
  <2>7. Adjust(a, TRUE, FALSE, most) = a - 1
    BY <1>3, <2>3, AdjustDown, Zenon
  <2>8. Cardinality(B) = Adjust(a, view[i][f], to[f], most)
    BY <1>9, <2>2, <2>7, Zenon
  <2>. QED
    BY <2>8, Zenon DEF a, A, B, new, c
<1>. QED
  BY <1>1, <1>7, <1>8, <1>9, Zenon

\* The counters follow what the page shows of an article of its list.
LEMMA CountsChange ==
  ASSUME Counted, Shown, NEW view \in View, counts = CountsOf(view),
         NEW i \in Id, Listed(i), obj[detail][i] = view[i],
         NEW to \in CoupledFlags, Show(i, to), RightlyCounted(i, view[i], to)
  PROVE  counts' = CountsOf([view EXCEPT ![i] = to])
<1>. DEFINE c   == CountryOf[i]
            new == [view EXCEPT ![i] = to]
<1>0. view[i] \in CoupledFlags /\ view[i]["read"] \in BOOLEAN
  BY ListedFlags, FlagTyped DEF Flag
<1>1. c \in Country /\ counts' = [counts EXCEPT ![c] =
        [total |-> counts[c].total,
         read  |-> Adjust(counts[c].read, view[i].read, to.read, counts[c].total),
         saved |-> Adjust(counts[c].saved, view[i].saved, to.saved, counts[c].saved + 1)]]
  BY ShowCounts
<1>2. /\ counts[c].total = Cardinality(All(view, c))
      /\ counts[c].read = Cardinality(With(view, c, Today, "read"))
      /\ counts[c].saved = Cardinality(With(view, c, Id, "saved"))
  BY <1>1 DEF CountsOf
<1>4. /\ Cardinality(With(new, c, Today, "read"))
           = Adjust(counts[c].read, view[i].read, to.read, counts[c].total)
      /\ Cardinality(With(new, c, Id, "saved"))
           = Adjust(counts[c].saved, view[i].saved, to.saved, counts[c].saved + 1)
  <2>1. "read" \in Flag /\ "saved" \in Flag /\ Today \in SUBSET Id /\ Id \in SUBSET Id
    BY ReaderAssumption DEF Flag, ReaderAssumption
  <2>2. ASSUME i \in Today
        PROVE  Cardinality(With(new, c, Today, "read"))
                 = Adjust(counts[c].read, view[i]["read"], to["read"], counts[c].total)
    <3>1. i \in All(view, c)
      BY <1>0, <2>1, <2>2, FlagTyped DEF All
    <3>2. Cardinality(All(view, c)) \in Nat
      <4>1. All(view, c) \in SUBSET Id
        BY <2>1 DEF All
      <4>. QED
        BY <4>1, SetTyped
    <3>3. view[i]["read"] = FALSE =>
            Cardinality(With(view, c, Today, "read")) < Cardinality(All(view, c))
      BY <3>1, BelowAll
    <3>4. PICK most \in Nat : most = Cardinality(All(view, c))
      BY <3>2
    <3>5. view[i]["read"] = FALSE =>
            Cardinality(With(view, c, Today, "read")) < most
      BY <3>3, <3>4
    <3>. HIDE DEF new, c
    <3>6. Cardinality(With(new, c, Today, "read"))
            = Adjust(Cardinality(With(view, c, Today, "read")), view[i]["read"],
                     to["read"], most)
      BY <1>0, <2>1, <2>2, <3>5, CountOne, ZenonT(40) DEF new, c
    <3>. QED
      BY <1>2, <3>4, <3>6, Zenon
  <2>3. ASSUME i \notin Today
        PROVE  Cardinality(With(new, c, Today, "read"))
                 = Adjust(counts[c].read, view[i]["read"], to["read"], counts[c].total)
    <3>1. \A j \in Today : new[j] = view[j]
      BY <2>1, <2>3 DEF View
    <3>. HIDE DEF new, c
    <3>2. With(new, c, Today, "read") = With(view, c, Today, "read")
      BY <3>1 DEF With
    <3>3. to["read"] = view[i]["read"]
      BY <2>3 DEF RightlyCounted
    <3>. QED
      BY <1>0, <1>2, <3>2, <3>3, AdjustSame
  <2>4. Cardinality(With(new, c, Id, "saved"))
           = Adjust(counts[c].saved, view[i]["saved"], to["saved"], counts[c].saved + 1)
    <3>1. counts[c].saved \in Nat
      BY <1>1 DEF Counted
    <3>. DEFINE most == counts[c].saved + 1
    <3>2. most \in Nat /\ counts[c].saved < most
      BY <3>1
    <3>. HIDE DEF new, c, most
    <3>3. Cardinality(With(view, c, Id, "saved")) < most
      BY <1>2, <3>2, Zenon
    <3>4. Cardinality(With(new, c, Id, "saved"))
            = Adjust(Cardinality(With(view, c, Id, "saved")), view[i]["saved"],
                     to["saved"], most)
      BY <1>0, <2>1, <3>2, <3>3, CountOne, ZenonT(40) DEF new, c
    <3>. QED
      BY <1>2, <3>4, Zenon DEF most
  <2>. HIDE DEF new, c
  <2>. QED
    BY <2>2, <2>3, <2>4, Zenon
<1>5. \A d \in Country : All(new, d) = All(view, d)
  <2>1. \A j \in Id : new[j] \in {New, Gone} <=> view[j] \in {New, Gone}
    BY <1>0, FlagTyped DEF View, Flag
  <2>2. Today \subseteq Id
    BY ReaderAssumption DEF ReaderAssumption
  <2>. HIDE DEF new
  <2>. QED
    BY <2>1, <2>2 DEF All
<1>6. ASSUME NEW d \in Country, d # c, NEW ids \in SUBSET Id, NEW f
      PROVE  With(new, d, ids, f) = With(view, d, ids, f)
  <2>1. \A j \in Id : CountryOf[j] = d => new[j] = view[j]
    BY <1>6 DEF View
  <2>. HIDE DEF new
  <2>. QED
    BY <2>1 DEF With
<1>7a. Today \in SUBSET Id
  BY ReaderAssumption DEF ReaderAssumption
<1>. HIDE DEF new, c
<1>7. CountsOf(new) = [counts EXCEPT ![c] = [total |-> Cardinality(All(new, c)),
                                    read  |-> Cardinality(With(new, c, Today, "read")),
                                    saved |-> Cardinality(With(new, c, Id, "saved"))]]
  BY <1>5, <1>6, <1>7a DEF CountsOf
<1>8. CountsOf(new) = counts'
  BY <1>1, <1>2, <1>4, <1>5, <1>7, Zenon
<1>. QED
  BY <1>8 DEF new

-----------------------------------------------------------------------------
(* The requests. *)

LEMMA NotNull == ASSUME NEW p, Sound(p) PROVE p # Null
<1>1. p \in Request
  BY CoupledParts DEF Sound, Request
<1>. QED
  BY <1>1, ReaderAssumption DEF ReaderAssumption

\* The server handles a request.
Reply(p, s, a) == [p EXCEPT !.server = s, !.answer = a]

Replied(p, q, s, a) ==
  /\ q # Null /\ q.id = p.id /\ q.flag = p.flag /\ q.value = p.value
  /\ q.prev = p.prev /\ q.waiting = p.waiting /\ q.server = s /\ q.answer = a

LEMMA Served ==
  ASSUME NEW p, Sound(p), NEW s \in {"select", "done", "lost"}, NEW a \in BOOLEAN \cup {Null}
  PROVE  Replied(p, Reply(p, s, a), s, a)
<1>. DEFINE q == Reply(p, s, a)
<1>1. q \in [id : Id, flag : Flag, value : BOOLEAN, prev : CoupledFlags,
             server : {"sent", "select", "done", "lost"},
             answer : BOOLEAN \cup {Null}, waiting : BOOLEAN]
  BY DEF Sound, Reply
<1>2. /\ q.id = p.id /\ q.flag = p.flag /\ q.value = p.value
      /\ q.prev = p.prev /\ q.waiting = p.waiting /\ q.server = s /\ q.answer = a
  BY DEF Sound, Reply
<1>. HIDE DEF q
<1>3. q \in Request
  BY <1>1, CoupledParts DEF Request
<1>4. q # Null
  BY <1>3, ReaderAssumption DEF ReaderAssumption
<1>5. Replied(p, q, s, a)
  BY <1>2, <1>4 DEF Replied
<1>. QED
  BY <1>5 DEF q

LEMMA OnlyServer ==
  ASSUME NEW p, Sound(p), NEW s
  PROVE  [p EXCEPT !.server = s] = Reply(p, s, p.answer)
BY DEF Sound, Reply

\* What the server has made of a request in a step.
LEMMA ServerStep ==
  ASSUME Requests, Table, NEW n \in Toggle, Update(n) \/ Select(n) \/ Lose(n)
  PROVE  /\ Sound(patch[n])
         /\ \E s \in {"select", "done", "lost"}, a \in BOOLEAN \cup {Null} :
              patch' = [patch EXCEPT ![n] = Reply(patch[n], s, a)]
<1>. DEFINE p == patch[n]
            Put(s, a) == patch' = [patch EXCEPT ![n] = Reply(p, s, a)]
            Result == \E s \in {"select", "done", "lost"}, a \in BOOLEAN \cup {Null} : Put(s, a)
<1>1. Sound(p)
  BY DEF Requests, Update, Select, Lose
<1>2. \A s : [p EXCEPT !.server = s] = Reply(p, s, p.answer)
  BY <1>1, OnlyServer
<1>3. p.answer \in BOOLEAN \cup {Null} /\ p.id \in Id
  BY <1>1 DEF Sound
<1>4. \A s : patch' = [patch EXCEPT ![n] = [p EXCEPT !.server = s]] => Put(s, p.answer)
  BY <1>2, Zenon
<1>5. ASSUME Update(n) PROVE Result
  <2>1. \/ patch' = [patch EXCEPT ![n] = [p EXCEPT !.server = "lost"]]
        \/ patch' = [patch EXCEPT ![n] = [p EXCEPT !.server = "select"]]
        \/ Put("done", p.flag = "saved")
    BY <1>5 DEF Update, Reply
  <2>2. (p.flag = "saved") \in BOOLEAN \cup {Null}
    OBVIOUS
  <2>. HIDE DEF Put, p
  <2>. QED
    BY <1>3, <1>4, <2>1, <2>2
<1>6. ASSUME Select(n) PROVE Result
  <2>. DEFINE a == IF Stored(p.id) THEN row[p.id][Other(p.flag)] ELSE Null
  <2>1. Put("done", a)
    BY <1>6 DEF Select, Reply
  <2>2. a \in BOOLEAN \cup {Null}
    <3>1. CASE Stored(p.id)
      <4>1. row[p.id] \in Flags
        BY <1>3, <3>1, StoredFlags, CoupledParts
      <4>. QED
        BY <3>1, <4>1 DEF Flags, Other
    <3>. QED
      BY <3>1
  <2>. HIDE DEF Put, p, a
  <2>. QED
    BY <2>1, <2>2
<1>7. ASSUME Lose(n) PROVE Result
  <2>1. patch' = [patch EXCEPT ![n] = [p EXCEPT !.server = "lost"]]
    BY <1>7 DEF Lose
  <2>. HIDE DEF Put, p
  <2>. QED
    BY <1>3, <1>4, <2>1
<1>. QED
  BY <1>1, <1>5, <1>6, <1>7, Zenon

\* The page is done with a request.
LEMMA Heard ==
  ASSUME NEW p, Sound(p)
  PROVE  LET q == [p EXCEPT !.waiting = FALSE]
         IN  /\ q # Null /\ q.id = p.id /\ q.server = p.server /\ q.waiting = FALSE
<1>1. Sound([p EXCEPT !.waiting = FALSE])
  BY SoundFields
<1>2. [p EXCEPT !.waiting = FALSE] # Null
  BY <1>1, NotNull
<1>. QED
  BY <1>2 DEF Sound

-----------------------------------------------------------------------------
(* The actions. *)

\* The pages of the loads stay those of the table when it stays.
LEMMA FreshStep ==
  ASSUME Inv, [Next]_vars, Fresh, row' = row
  PROVE  Fresh'
<1>0. LoadedPages /\ Requests /\ Table
  BY DEF Inv
<1>1. SUFFICES ASSUME NEW n \in Load, Loading(n)', NEW k \in DOMAIN load'[n].pages,
                      NEW x \in load'[n].pages[k]
               PROVE  x.flags = row[x.id]
  BY DEF Fresh
<1>2. Turns(n) \/ Opens(n)
  BY <1>0, LoadTurns
<1>3. CASE Opens(n)
  <2>1. load'[n].pages = <<>>
    BY <1>3 DEF Opens
  <2>. QED
    BY <1>1, <2>1
<1>4. CASE Trims(n)
  <2>1. load'[n].pages = load[n].pages /\ Loading(n)
    BY <1>0, <1>4, Trimmed DEF Trims
  <2>. QED
    BY <1>1, <2>1 DEF Fresh
<1>5. CASE Grows(n)
  <2>1. load'[n].pages = Append(load[n].pages, NewPage(n)) /\ load[n].pages \in Pages
    BY <1>0, <1>5, Grown DEF LoadState
  <2>2. Loading(n)
    BY <1>5 DEF Grows, Loading
  <2>3. \/ k \in DOMAIN load[n].pages /\ load'[n].pages[k] = load[n].pages[k]
        \/ load'[n].pages[k] = NewPage(n)
    BY <1>1, <2>1 DEF Pages
  <2>4. ASSUME x \in NewPage(n) PROVE x.flags = row[x.id]
    BY <2>4 DEF NewPage
  <2>. QED
    BY <1>1, <2>2, <2>3, <2>4 DEF Fresh
<1>. QED
  BY <1>1, <1>2, <1>3, <1>4, <1>5 DEF Turns, Rests, Ends, Loading

\* Where neither table nor requests nor counters change, neither does the view.
LEMMA LoadsFaithful ==
  ASSUME Inv, [Next]_vars, Faithful,
         row' = row, patch' = patch, counts' = counts,
         \A n \in Load : Loading(n)' => Loading(n) \/ \A m \in Toggle : ~Waiting(m),
         \A view \in View : Pictures(view) => Lists(view)'
  PROVE  Faithful'
<1>1. Ended' /\ Alone' /\ Carried' /\ Countable'
  BY DEF Faithful, Ended, Alone, Carried, Countable, Waiting
<1>2. Apart'
  BY DEF Faithful, Apart, Waiting
<1>3. Fresh'
  BY FreshStep DEF Faithful
<1>4. \A view \in View : Pictures(view) => Pictures(view)'
  BY DEF Pictures, Views, Waiting
<1>. QED
  BY <1>1, <1>2, <1>3, <1>4 DEF Faithful

LEMMA OpenFaithful ==
  ASSUME Inv, Faithful, NEW n \in Load, NEW c \in Country, NEW saved \in BOOLEAN,
         OpenCountry(n, c, saved), clean', [Next]_vars
  PROVE  Faithful'
<1>1. \A m \in Toggle : ~Waiting(m)
  BY DEF OpenCountry, Pending, Waiting
<1>2. UNCHANGED <<row, patch, counts, obj, detail>>
  BY DEF OpenCountry
<1>3. \A view \in View : Pictures(view) => Lists(view)'
  BY <1>2 DEF Pictures, Lists, Listed
<1>. QED
  BY <1>1, <1>2, <1>3, LoadsFaithful

LEMMA GetFaithful ==
  ASSUME Inv, Faithful, NEW n \in Load, GetPage(n), [Next]_vars
  PROVE  Faithful'
<1>1. UNCHANGED <<row, patch, counts, obj, detail>>
  BY DEF GetPage
<1>2. \A view \in View : Pictures(view) => Lists(view)'
  BY <1>1 DEF Pictures, Lists, Listed
<1>3. \A m \in Load : Loading(m)' => Loading(m)
  BY DEF GetPage, Loading, Inv, LoadedPages
<1>. QED
  BY <1>1, <1>2, <1>3, LoadsFaithful

\* The objects of an answer are the rows of the table.
LEMMA AnswerShown ==
  ASSUME Inv, Faithful, NEW n \in Load, LoadAnswer(n),
         NEW view \in View, Pictures(view)
  PROVE  Lists(view)'
<1>0. Loading(n) /\ LoadedPages
  BY DEF LoadAnswer, Loading, Inv
<1>1. \A m \in Toggle : ~Waiting(m)
  BY <1>0 DEF Faithful, Apart
<1>2. \A i \in Id : view[i] = row[i]
  BY <1>1 DEF Pictures, Views
<1>3. \A x \in Items(n) : x.flags = row[x.id]
  BY <1>0 DEF Faithful, Fresh, Items
<1>4. ASSUME NEW i \in Id, Objects(Items(n))[i] # Null
      PROVE  Objects(Items(n))[i] = row[i]
  <2>1. \E x \in Items(n) : x.id = i
    BY <1>4 DEF Objects
  <2>. DEFINE y == CHOOSE x \in Items(n) : x.id = i
  <2>2. y \in Items(n) /\ y.id = i
    BY <2>1
  <2>3. Objects(Items(n))[i] = y.flags
    BY <2>1 DEF Objects
  <2>. HIDE DEF y
  <2>. QED
    BY <1>3, <2>2, <2>3
<1>5. detail' \in {0, n}
  BY DEF LoadAnswer, CloseSidebar
<1>6. detail' = n => obj'[n] = Objects(Items(n))
  BY DEF LoadAnswer, Keep, Inv, Shown
<1>. QED
  BY <1>2, <1>4, <1>5, <1>6 DEF Lists, Listed

LEMMA AnswerFaithful ==
  ASSUME Inv, Faithful, NEW n \in Load, LoadAnswer(n), [Next]_vars
  PROVE  Faithful'
<1>1. UNCHANGED <<row, patch, counts>>
  BY DEF LoadAnswer
<1>2. \A m \in Load : Loading(m)' => Loading(m)
  BY DEF LoadAnswer, Done, Loading, Inv, LoadedPages
<1>. QED
  BY <1>1, <1>2, AnswerShown, LoadsFaithful

LEMMA EmptyFaithful ==
  ASSUME Inv, Faithful, [Next]_vars, (\E n \in Load : LoadFails(n)) \/ Close
  PROVE  Faithful'
<1>1. UNCHANGED <<row, patch, counts>> /\ detail' = 0
  BY DEF LoadFails, Close, CloseSidebar
<1>2. \A m \in Load : Loading(m)' => Loading(m)
  BY DEF LoadFails, Close, Done, Loading, Inv, LoadedPages
<1>3. \A view \in View : Lists(view)'
  BY <1>1 DEF Lists, Listed
<1>. QED
  BY <1>1, <1>2, <1>3, LoadsFaithful

LEMMA ClickFaithful ==
  ASSUME Inv, Faithful, [Next]_vars, OnClusterClick
  PROVE  Faithful'
<1>1. UNCHANGED <<row, patch, counts, load, detail>> /\ detail \in Load
  BY DEF OnClusterClick, Inv, Shown
<1>2. \A m \in Load : Loading(m)' => Loading(m)
  BY <1>1 DEF Loading
<1>3. obj'[detail] = obj[detail]
  BY <1>1 DEF OnClusterClick, Keep
<1>4. \A view \in View : Pictures(view) => Lists(view)'
  BY <1>1, <1>3 DEF Pictures, Lists, Listed
<1>. QED
  BY <1>1, <1>2, <1>4, LoadsFaithful

\* The server takes up a request that waits, and leaves the other articles.
LEMMA ServerFaithful ==
  ASSUME Inv, Faithful, NEW n \in Toggle, Waiting(n), NEW q,
         patch' = [patch EXCEPT ![n] = q],
         q # Null /\ q.id = patch[n].id /\ q.flag = patch[n].flag,
         q.value = patch[n].value /\ q.prev = patch[n].prev /\ q.waiting = patch[n].waiting,
         \A i \in Id : i # patch[n].id => row'[i] = row[i],
         row'[q.id] = IF q.server \in {"sent", "lost"} THEN q.prev ELSE Wanted(q),
         q.server = "done" /\ q.answer # Null => q.answer = row'[q.id][Other(q.flag)],
         \A m \in Load : ~Loading(m) => ~Loading(m)',
         UNCHANGED <<obj, detail, counts>>
  PROVE  Faithful'
<1>0. Ended /\ Alone /\ Apart /\ Carried /\ Countable /\ Requests
  BY DEF Faithful, Inv
<1>1. patch'[n] = q /\ \A m \in Toggle \ {n} : patch'[m] = patch[m]
  BY <1>0 DEF Requests
<1>2. \A m \in Toggle : /\ (patch'[m] = Null) <=> (patch[m] = Null)
                        /\ Waiting(m)' <=> Waiting(m)
                        /\ patch[m] # Null => patch'[m].id = patch[m].id
                        /\ patch[m] # Null => patch'[m].prev = patch[m].prev
                        /\ patch[m] # Null => Wanted(patch'[m]) = Wanted(patch[m])
  <2>1. Waiting(n)' /\ patch[n] # Null /\ Wanted(q) = Wanted(patch[n])
    <3>1. patch[n] # Null /\ patch[n].waiting
      BY DEF Waiting
    <3>2. q.waiting
      BY <3>1, Zenon
    <3>. QED
      BY <1>1, <3>1, <3>2, Zenon DEF Waiting, Wanted
  <2>2. ASSUME NEW m \in Toggle, m # n
        PROVE  patch'[m] = patch[m] /\ (Waiting(m)' <=> Waiting(m))
    BY <1>1, <2>2 DEF Waiting
  <2>. QED
    BY <1>1, <2>1, <2>2, Zenon
<1>3. Ended'
  BY <1>0, <1>1, <1>2 DEF Ended, Waiting
<1>4. Alone'
  BY <1>0, <1>2 DEF Alone
<1>5. \A m \in Load : ~Loading(m)'
  BY <1>0 DEF Apart
<1>6. Apart' /\ Fresh'
  BY <1>5 DEF Apart, Fresh
<1>7. ASSUME NEW m \in Toggle, m # n, Waiting(m) PROVE patch[m].id # patch[n].id
  <2>1. patch[m] # Null /\ patch[n] # Null
    BY <1>7 DEF Waiting
  <2>2. m > n \/ n > m
    BY <1>7, ReaderAssumption DEF Toggle, ReaderAssumption
  <2>. QED
    BY <1>0, <1>7, <2>1, <2>2 DEF Alone
<1>8. Carried'
  <2>1. SUFFICES ASSUME NEW m \in Toggle, Waiting(m)'
                 PROVE  LET p == patch'[m]
                        IN  /\ row'[p.id] = IF p.server \in {"sent", "lost"}
                                            THEN p.prev ELSE Wanted(p)
                            /\ p.server = "done" /\ p.answer # Null =>
                                 p.answer = row'[p.id][Other(p.flag)]
    BY DEF Carried, Wanted
  <2>2. CASE m = n
    BY <1>1, <2>2
  <2>3. CASE m # n
    <3>1. Waiting(m) /\ patch'[m] = patch[m] /\ patch[m].id # patch[n].id
      BY <1>1, <1>2, <1>7, <2>1, <2>3
    <3>2. Sound(patch[m])
      BY <1>0, <3>1 DEF Waiting, Requests
    <3>3. patch[m].id \in Id
      BY <3>2 DEF Sound
    <3>4. row'[patch[m].id] = row[patch[m].id]
      BY <3>1, <3>3
    <3>5. LET p == patch[m]
          IN  /\ row[p.id] = IF p.server \in {"sent", "lost"} THEN p.prev ELSE Wanted(p)
              /\ p.server = "done" /\ p.answer # Null =>
                   p.answer = row[p.id][Other(p.flag)]
      BY <1>0, <3>1 DEF Carried
    <3>. QED
      BY <3>1, <3>4, <3>5
  <2>. QED
    BY <2>2, <2>3
<1>9. PICK view \in View : Pictures(view)
  BY DEF Faithful
<1>10. Views(view)'
  <2>1. ASSUME NEW i \in Id, \A m \in Toggle : Waiting(m)' => patch'[m].id # i
        PROVE  view[i] = row'[i]
    <3>1. \A m \in Toggle : Waiting(m) => patch[m].id # i
      BY <1>2, <2>1 DEF Waiting
    <3>2. view[i] = row[i] /\ i # patch[n].id
      BY <1>9, <3>1 DEF Pictures, Views
    <3>. QED
      BY <3>2
  <2>2. ASSUME NEW m \in Toggle, Waiting(m)'
        PROVE  view[patch'[m].id] = Wanted(patch'[m])
    <3>1. Waiting(m) /\ patch[m] # Null
      BY <1>2, <2>2 DEF Waiting
    <3>2. patch'[m].id = patch[m].id /\ Wanted(patch'[m]) = Wanted(patch[m])
      BY <1>2, <3>1
    <3>3. view[patch[m].id] = Wanted(patch[m])
      BY <1>9, <3>1 DEF Pictures, Views
    <3>. QED
      BY <3>2, <3>3
  <2>. QED
    BY <2>1, <2>2 DEF Views, Wanted
<1>11. Pictures(view)'
  BY <1>9, <1>10 DEF Pictures, Lists, Listed, CountsOf, All, With
<1>12. Countable'
  <2>. SUFFICES ASSUME NEW m \in Toggle, Waiting(m)'
                PROVE  RightlyCounted(patch'[m].id, patch'[m].prev, Wanted(patch'[m]))
    BY DEF Countable, RightlyCounted, Wanted
  <2>1. Waiting(m) /\ patch[m] # Null
    BY <1>2 DEF Waiting
  <2>2. RightlyCounted(patch[m].id, patch[m].prev, Wanted(patch[m]))
    BY <1>0, <2>1 DEF Countable
  <2>3. /\ patch'[m].id = patch[m].id /\ patch'[m].prev = patch[m].prev
        /\ Wanted(patch'[m]) = Wanted(patch[m])
    BY <1>2, <2>1
  <2>. QED
    BY <2>2, <2>3 DEF RightlyCounted
<1>. QED
  BY <1>3, <1>4, <1>6, <1>8, <1>11, <1>12 DEF Faithful

\* The page is done with a request whose article it shows as the table has it.
LEMMA HeardFaithful ==
  ASSUME Inv, Faithful, NEW n \in Toggle, Waiting(n), NEW view \in View, NEW new \in View,
         Pictures(view),
         patch' = [patch EXCEPT ![n] = [patch[n] EXCEPT !.waiting = FALSE]],
         patch[n].server \in {"done", "lost"},
         new = [view EXCEPT ![patch[n].id] = row[patch[n].id]],
         UNCHANGED <<row, load, detail>>,
         Lists(new)', counts' = CountsOf(new)
  PROVE  Faithful'
<1>0. Ended /\ Alone /\ Apart /\ Carried /\ Countable /\ Fresh /\ Requests
  BY DEF Faithful, Inv
<1>. DEFINE q == [patch[n] EXCEPT !.waiting = FALSE]
<1>1. Sound(patch[n])
  BY <1>0 DEF Waiting, Requests
<1>2. q # Null /\ q.id = patch[n].id /\ q.server = patch[n].server /\ q.waiting = FALSE
  BY <1>1, Heard
<1>3. patch'[n] = q /\ \A m \in Toggle \ {n} : patch'[m] = patch[m]
  BY <1>0 DEF Requests
<1>. HIDE DEF q
<1>4. /\ ~Waiting(n)'
      /\ \A m \in Toggle : /\ (patch'[m] = Null) <=> (patch[m] = Null)
                           /\ patch[m] # Null => patch'[m].id = patch[m].id
                           /\ Waiting(m)' => m # n /\ Waiting(m) /\ patch'[m] = patch[m]
  BY <1>2, <1>3 DEF Waiting
<1>5. Ended'
  BY <1>0, <1>2, <1>3 DEF Ended, Waiting
<1>6. Alone'
  BY <1>0, <1>4 DEF Alone
<1>7. Apart' /\ Fresh'
  BY <1>0, <1>4 DEF Apart, Fresh, Loading
<1>8. Carried' /\ Countable'
  BY <1>0, <1>4 DEF Carried, Countable, Wanted, RightlyCounted
<1>9. ASSUME NEW m \in Toggle, m # n, Waiting(m) PROVE patch[m].id # patch[n].id
  <2>1. patch[m] # Null /\ patch[n] # Null
    BY <1>9 DEF Waiting
  <2>2. m > n \/ n > m
    BY <1>9, ReaderAssumption DEF Toggle, ReaderAssumption
  <2>. QED
    BY <1>0, <1>9, <2>1, <2>2 DEF Alone
<1>10. \A i \in Id : new[i] = IF i = patch[n].id THEN row[i] ELSE view[i]
  BY DEF View
<1>11. Views(new)'
  <2>1. ASSUME NEW i \in Id, \A m \in Toggle : Waiting(m)' => patch'[m].id # i,
               i # patch[n].id
        PROVE  new[i] = row[i]
    <3>1. \A m \in Toggle : Waiting(m) => patch[m].id # i
      BY <1>3, <2>1 DEF Waiting
    <3>. QED
      BY <1>10, <2>1, <3>1 DEF Pictures, Views
  <2>2. ASSUME NEW m \in Toggle, Waiting(m)'
        PROVE  new[patch'[m].id] = Wanted(patch'[m])
    <3>1. Waiting(m) /\ patch'[m] = patch[m] /\ patch[m].id # patch[n].id
      BY <1>4, <1>9, <2>2
    <3>2. Sound(patch[m])
      BY <1>0, <3>1 DEF Waiting, Requests
    <3>3. patch[m].id \in Id
      BY <3>2 DEF Sound
    <3>4. view[patch[m].id] = Wanted(patch[m])
      BY <3>1 DEF Pictures, Views
    <3>. QED
      BY <1>10, <3>1, <3>3, <3>4
  <2>. QED
    BY <1>10, <2>1, <2>2 DEF Views, Wanted
<1>12. Pictures(new)'
  BY <1>11 DEF Pictures, CountsOf, All, With
<1>. QED
  BY <1>5, <1>6, <1>7, <1>8, <1>12 DEF Faithful

\* Only what the page waits for is under way at the server.
LEMMA UnderWay ==
  ASSUME Inv, Faithful, NEW n \in Toggle, patch[n] # Null,
         patch[n].server \in {"sent", "select"}
  PROVE  Waiting(n) /\ Sound(patch[n]) /\ patch[n].id \in Id
<1>1. Waiting(n)
  BY DEF Faithful, Ended, Waiting
<1>2. Sound(patch[n])
  BY DEF Inv, Requests
<1>. QED
  BY <1>1, <1>2 DEF Sound

\* The answer the UPDATE knows is the other flag of the row it leaves.
LEMMA KnownAnswer ==
  ASSUME NEW p, Sound(p), p.value = (p.flag = "saved")
  PROVE  (p.flag = "saved") = Wanted(p)[Other(p.flag)]
<1>1. /\ p.flag \in Flag /\ p.value \in BOOLEAN /\ p.prev \in CoupledFlags
      /\ p.prev.read \in BOOLEAN /\ p.prev.saved \in BOOLEAN
  BY CoupledParts DEF Sound, Flags
<1>2. CASE p.flag = "read"
  <2>1. p.value = FALSE
    BY <1>2
  <2>2. (p.prev.saved /\ FALSE) = FALSE
    OBVIOUS
  <2>3. Wanted(p) = [read |-> FALSE, saved |-> FALSE]
    BY <1>2, <2>1, <2>2 DEF Wanted, Optimistic
  <2>4. (p.flag = "saved") = FALSE
    BY <1>2
  <2>5. Other(p.flag) = "saved" /\ [read |-> FALSE, saved |-> FALSE]["saved"] = FALSE
    BY <1>2 DEF Other
  <2>. QED
    BY <2>3, <2>4, <2>5, Zenon
<1>3. CASE p.flag = "saved"
  <2>1. p.value = TRUE
    BY <1>3
  <2>2. (p.prev.read \/ TRUE) = TRUE
    OBVIOUS
  <2>3. Wanted(p) = [read |-> TRUE, saved |-> TRUE]
    BY <1>3, <2>1, <2>2 DEF Wanted, Optimistic
  <2>4. (p.flag = "saved") = TRUE
    BY <1>3
  <2>5. Other(p.flag) = "read" /\ [read |-> TRUE, saved |-> TRUE]["read"] = TRUE
    BY <1>3 DEF Other
  <2>. QED
    BY <2>3, <2>4, <2>5, Zenon
<1>. QED
  BY <1>1, <1>2, <1>3 DEF Flag

LEMMA UpdateFaithful ==
  ASSUME Inv, Faithful, NEW n \in Toggle, Update(n)
  PROVE  Faithful'
<1>. DEFINE p == patch[n]
<1>0. /\ p # Null /\ p.server = "sent" /\ Requests /\ Table
      /\ UNCHANGED <<obj, detail, counts>>
  BY DEF Update, Inv
<1>1. Waiting(n) /\ Sound(p) /\ p.id \in Id
  BY <1>0, UnderWay
<1>2. /\ row[p.id] = p.prev /\ p.prev \in CoupledFlags
      /\ p.flag \in Flag /\ p.value \in BOOLEAN
  BY <1>0, <1>1 DEF Faithful, Carried, Sound
<1>3. Stored(p.id)
  BY <1>2, FlagTyped DEF Stored, Flag
<1>4. Updated(row[p.id], p.flag, p.value) = Wanted(p)
  BY <1>2, UpdatedAsShown DEF Wanted
<1>5. /\ Store(p.id, Wanted(p))
      /\ patch' = IF p.value = (p.flag = "saved")
                  THEN [patch EXCEPT ![n].server = "done", ![n].answer = (p.flag = "saved")]
                  ELSE [patch EXCEPT ![n].server = "select"]
  BY <1>3, <1>4 DEF Update
<1>6. /\ \A i \in Id : i # p.id => row'[i] = row[i]
      /\ row'[p.id] = Wanted(p)
  BY <1>0, <1>1, <1>5 DEF Store, Table
<1>7. \A m \in Load : ~Loading(m) => ~Loading(m)'
  <2>1. \A m \in Load : ~Loading(m) => load'[m] = load[m]
    BY <1>5 DEF Store
  <2>. QED
    BY <2>1 DEF Loading
<1>8. CASE p.value = (p.flag = "saved")
  <2>. DEFINE q == Reply(p, "done", p.flag = "saved")
  <2>1. patch' = [patch EXCEPT ![n] = q]
    BY <1>5, <1>8 DEF Reply
  <2>2. /\ q # Null /\ q.id = p.id /\ q.flag = p.flag /\ q.value = p.value
        /\ q.prev = p.prev /\ q.waiting = p.waiting /\ q.server = "done"
        /\ q.answer = (p.flag = "saved")
    <3>1. (p.flag = "saved") \in BOOLEAN \cup {Null} /\ "done" \in {"select", "done", "lost"}
      OBVIOUS
    <3>2. Replied(p, q, "done", p.flag = "saved")
      BY <1>1, <3>1, Served, Zenon
    <3>. QED
      BY <3>2, Zenon DEF Replied
  <2>3. q.answer = Wanted(p)[Other(p.flag)]
    BY <1>1, <1>8, <2>2, KnownAnswer
  <2>4. Wanted(q) = Wanted(p)
    BY <2>2 DEF Wanted
  <2>. HIDE DEF q, p
  <2>5. /\ row'[q.id] = IF q.server \in {"sent", "lost"} THEN q.prev ELSE Wanted(q)
        /\ q.answer = row'[q.id][Other(q.flag)]
    BY <1>6, <2>2, <2>3, <2>4
  <2>. QED
    BY <1>0, <1>1, <1>6, <1>7, <2>1, <2>2, <2>5, ServerFaithful DEF p
<1>9. CASE p.value # (p.flag = "saved")
  <2>. DEFINE q == Reply(p, "select", p.answer)
  <2>1. patch' = [patch EXCEPT ![n] = q]
    <3>1. patch' = [patch EXCEPT ![n] = [p EXCEPT !.server = "select"]]
      BY <1>5, <1>9
    <3>. QED
      BY <1>1, <3>1, OnlyServer
  <2>2. /\ q # Null /\ q.id = p.id /\ q.flag = p.flag /\ q.value = p.value
        /\ q.prev = p.prev /\ q.waiting = p.waiting /\ q.server = "select"
    <3>1. p.answer \in BOOLEAN \cup {Null} /\ "select" \in {"select", "done", "lost"}
      BY <1>1 DEF Sound
    <3>2. Replied(p, q, "select", p.answer)
      BY <1>1, <3>1, Served, Zenon
    <3>. QED
      BY <3>2, Zenon DEF Replied
  <2>4. Wanted(q) = Wanted(p)
    BY <2>2 DEF Wanted
  <2>. HIDE DEF q, p
  <2>5. row'[q.id] = IF q.server \in {"sent", "lost"} THEN q.prev ELSE Wanted(q)
    BY <1>6, <2>2, <2>4
  <2>. QED
    BY <1>0, <1>1, <1>6, <1>7, <2>1, <2>2, <2>5, ServerFaithful DEF p
<1>. QED
  BY <1>8, <1>9

LEMMA SelectFaithful ==
  ASSUME Inv, Faithful, NEW n \in Toggle, Select(n)
  PROVE  Faithful'
<1>. DEFINE p == patch[n]
            a == IF Stored(p.id) THEN row[p.id][Other(p.flag)] ELSE Null
            q == Reply(p, "done", a)
<1>0. p # Null /\ p.server = "select" /\ Table /\ UNCHANGED <<row, load, obj, detail, counts>>
  BY DEF Select, Inv
<1>1. Waiting(n) /\ Sound(p) /\ p.id \in Id
  BY <1>0, UnderWay
<1>2. row[p.id] = Wanted(p)
  BY <1>0, <1>1 DEF Faithful, Carried
<1>3. a \in BOOLEAN \cup {Null}
  <2>1. CASE Stored(p.id)
    <3>1. row[p.id] \in Flags
      BY <1>0, <1>1, <2>1, StoredFlags, CoupledParts
    <3>. QED
      BY <2>1, <3>1 DEF Flags, Other
  <2>. QED
    BY <2>1
<1>4. a # Null => a = row[p.id][Other(p.flag)]
  OBVIOUS
<1>5. patch' = [patch EXCEPT ![n] = q]
  BY DEF Select, Reply
<1>. HIDE DEF a
<1>6. /\ q # Null /\ q.id = p.id /\ q.flag = p.flag /\ q.value = p.value
      /\ q.prev = p.prev /\ q.waiting = p.waiting /\ q.server = "done" /\ q.answer = a
  <2>1. "done" \in {"select", "done", "lost"}
    OBVIOUS
  <2>2. Replied(p, q, "done", a)
    BY <1>1, <1>3, <2>1, Served, Zenon
  <2>. QED
    BY <2>2, Zenon DEF Replied
<1>7. Wanted(q) = Wanted(p)
  BY <1>6 DEF Wanted
<1>. HIDE DEF q, p
<1>8. /\ row'[q.id] = IF q.server \in {"sent", "lost"} THEN q.prev ELSE Wanted(q)
      /\ q.answer # Null => q.answer = row'[q.id][Other(q.flag)]
  BY <1>0, <1>2, <1>4, <1>6, <1>7
<1>9. /\ \A i \in Id : row'[i] = row[i]
      /\ \A m \in Load : ~Loading(m) => ~Loading(m)'
  BY <1>0 DEF Loading
<1>. QED
  BY <1>0, <1>1, <1>5, <1>6, <1>8, <1>9, ServerFaithful DEF p

LEMMA LoseFaithful ==
  ASSUME Inv, Faithful, NEW n \in Toggle, Lose(n)
  PROVE  Faithful'
<1>. DEFINE p == patch[n]
            q == Reply(p, "lost", p.answer)
<1>0. p # Null /\ p.server = "sent" /\ UNCHANGED <<row, load, obj, detail, counts>>
  BY DEF Lose
<1>1. Waiting(n) /\ Sound(p) /\ p.id \in Id /\ p.answer \in BOOLEAN \cup {Null}
  BY <1>0, UnderWay DEF Sound
<1>2. row[p.id] = p.prev
  BY <1>0, <1>1 DEF Faithful, Carried
<1>3. patch' = [patch EXCEPT ![n] = q]
  <2>1. patch' = [patch EXCEPT ![n] = [p EXCEPT !.server = "lost"]]
    BY DEF Lose
  <2>. QED
    BY <1>1, <2>1, OnlyServer
<1>4. /\ q # Null /\ q.id = p.id /\ q.flag = p.flag /\ q.value = p.value
      /\ q.prev = p.prev /\ q.waiting = p.waiting /\ q.server = "lost"
  <2>1. "lost" \in {"select", "done", "lost"}
    OBVIOUS
  <2>2. Replied(p, q, "lost", p.answer)
    BY <1>1, <2>1, Served, Zenon
  <2>. QED
    BY <2>2, Zenon DEF Replied
<1>. HIDE DEF q, p
<1>5. /\ row'[q.id] = IF q.server \in {"sent", "lost"} THEN q.prev ELSE Wanted(q)
      /\ \A i \in Id : row'[i] = row[i]
      /\ \A m \in Load : ~Loading(m) => ~Loading(m)'
  BY <1>0, <1>2, <1>4 DEF Loading
<1>. QED
  BY <1>0, <1>1, <1>3, <1>4, <1>5, ServerFaithful DEF p

\* What the page shows of an article of its list changes.
LEMMA ShownChange ==
  ASSUME Inv, NEW view \in View, Lists(view), counts = CountsOf(view),
         NEW i \in Id, Listed(i), NEW to \in CoupledFlags, Show(i, to), detail' = detail,
         RightlyCounted(i, view[i], to), NEW new, new = [view EXCEPT ![i] = to]
  PROVE  new \in View /\ Lists(new)' /\ counts' = CountsOf(new)
<1>0. Shown /\ Counted /\ detail \in Load /\ obj \in [Load -> Objs]
  BY DEF Inv, Shown, Listed
<1>1. new \in View /\ \A j \in Id : new[j] = IF j = i THEN to ELSE view[j]
  BY DEF View
<1>2. obj' = [obj EXCEPT ![detail][i] = to]
  BY DEF Show
<1>3. \A j \in Id : obj'[detail][j] = IF j = i THEN to ELSE obj[detail][j]
  BY <1>0, <1>2 DEF Objs
<1>4. Lists(new)'
  BY <1>1, <1>3 DEF Lists, Listed
<1>5. obj[detail][i] = view[i]
  BY DEF Lists
<1>6. counts' = CountsOf([view EXCEPT ![i] = to])
  BY <1>0, <1>5, CountsChange
<1>. QED
  BY <1>1, <1>4, <1>6

LEMMA ToggleAnswerFaithful ==
  ASSUME Inv, Faithful, NEW n \in Toggle, ToggleAnswer(n)
  PROVE  Faithful'
<1>. DEFINE p == patch[n]
            i == p.id
<1>0. /\ Waiting(n) /\ p.server = "done" /\ UNCHANGED <<row, load, detail>>
      /\ patch' = [patch EXCEPT ![n] = [p EXCEPT !.waiting = FALSE]]
  BY DEF ToggleAnswer, Waiting
<1>1. Sound(p) /\ i \in Id
  <2>1. Sound(p)
    BY <1>0 DEF Inv, Requests, Waiting
  <2>. QED
    BY <2>1 DEF Sound
<1>2. row[i] = Wanted(p) /\ (p.answer # Null => p.answer = row[i][Other(p.flag)])
  BY <1>0 DEF Faithful, Carried
<1>3. PICK view \in View : Pictures(view)
  BY DEF Faithful
<1>4. view[i] = row[i]
  BY <1>0, <1>2, <1>3 DEF Pictures, Views
<1>5. view = [view EXCEPT ![i] = row[i]]
  BY <1>1, <1>4 DEF View
<1>6. Lists(view) /\ counts = CountsOf(view)
  BY <1>3 DEF Pictures
<1>7. Lists(view)' /\ counts' = CountsOf(view)
  <2>1. CASE UNCHANGED <<obj, counts>>
    BY <1>0, <1>6, <2>1 DEF Lists, Listed
  <2>2. CASE ~UNCHANGED <<obj, counts>>
    <3>1. Listed(i) /\ Show(i, Answered(obj[detail][i], p))
      BY <2>2 DEF ToggleAnswer
    <3>2. obj[detail][i] = Wanted(p)
      BY <1>1, <1>2, <1>4, <1>6, <3>1 DEF Lists
    <3>3. Answered(obj[detail][i], p) = row[i]
      BY <1>1, <1>2, <3>2, AnsweredAsShown
    <3>4. row[i] \in CoupledFlags
      BY <1>1, <1>2, <3>1, <3>2, ListedFlags DEF Inv
    <3>5. RightlyCounted(i, view[i], row[i])
      BY <1>4 DEF RightlyCounted
    <3>. HIDE DEF i, p
    <3>. QED
      BY <1>0, <1>1, <1>5, <1>6, <3>1, <3>3, <3>4, <3>5, ShownChange
  <2>. QED
    BY <2>1, <2>2
<1>. QED
  BY <1>0, <1>3, <1>5, <1>7, HeardFaithful

LEMMA ToggleErrorFaithful ==
  ASSUME Inv, Faithful, NEW n \in Toggle, ToggleError(n), clean'
  PROVE  Faithful'
<1>. DEFINE p == patch[n]
            i == p.id
<1>0. /\ Waiting(n) /\ p.server = "lost" /\ Listed(i) /\ UNCHANGED <<row, load, detail>>
      /\ patch' = [patch EXCEPT ![n] = [p EXCEPT !.waiting = FALSE]]
  BY DEF ToggleError, Waiting
<1>1. Sound(p) /\ i \in Id /\ p.prev \in CoupledFlags
  <2>1. Sound(p)
    BY <1>0 DEF Inv, Requests, Waiting
  <2>. QED
    BY <2>1 DEF Sound
<1>2. row[i] = p.prev
  BY <1>0 DEF Faithful, Carried
<1>3. IsLast(n)
  BY <1>0 DEF Faithful, Alone, IsLast
<1>4. Show(i, p.prev)
  BY <1>3 DEF ToggleError, Rollback
<1>5. PICK view \in View : Pictures(view)
  BY DEF Faithful
<1>6. PICK new \in View : new = [view EXCEPT ![i] = p.prev]
  BY <1>1 DEF View
<1>7. Lists(new)' /\ counts' = CountsOf(new)
  <2>1. Lists(view) /\ counts = CountsOf(view)
    BY <1>5 DEF Pictures
  <2>2. view[i] = Wanted(p) /\ RightlyCounted(i, p.prev, Wanted(p))
    BY <1>0, <1>5 DEF Pictures, Views, Faithful, Countable
  <2>3. RightlyCounted(i, view[i], p.prev)
    BY <2>2 DEF RightlyCounted
  <2>. HIDE DEF i, p
  <2>. QED
    BY <1>0, <1>1, <1>4, <1>6, <2>1, <2>3, ShownChange
<1>8. new = [view EXCEPT ![patch[n].id] = row[patch[n].id]]
  BY <1>2, <1>6
<1>. QED
  BY <1>0, <1>5, <1>7, <1>8, HeardFaithful

LEMMA SendFaithful ==
  ASSUME Inv, Ordered, Faithful, NEW n \in Toggle, NEW i \in Id, NEW flag \in Flag,
         SendToggle(n, i, flag), clean'
  PROVE  Faithful'
<1>. DEFINE value == ~obj[cluster][i][flag]
            prev  == obj[detail][i]
            to    == Optimistic(prev, flag, value)
            q     == [id |-> i, flag |-> flag, value |-> value, prev |-> prev,
                      server |-> "sent", answer |-> Null, waiting |-> TRUE]
<1>0. /\ Ended /\ Alone /\ Apart /\ Carried /\ Countable /\ Fresh /\ Requests /\ Shown
      /\ \A m \in Load : ~Loading(m)
      /\ \A m \in Toggle : Waiting(m) => patch[m].id # i
  BY DEF Faithful, Inv, SendToggle, Pending, Waiting
<1>1. /\ Listed(i) /\ n \notin Toggled /\ 1..(n - 1) \subseteq Toggled
      /\ patch' = [patch EXCEPT ![n] = q] /\ Show(i, to) /\ RightlyCounted(i, prev, to)
      /\ UNCHANGED <<row, load, detail>>
  BY DEF SendToggle, IsNext
<1>2. prev \in CoupledFlags /\ value \in BOOLEAN
  BY <1>0, <1>1, ListedFlags
<1>. HIDE DEF value, prev
<1>3. to \in CoupledFlags
  BY <1>2, OptimisticCoupled
<1>4. Sound(q)
  BY <1>2 DEF Sound
<1>5. /\ q # Null /\ q.id = i /\ Wanted(q) = to /\ q.prev = prev
      /\ q.server = "sent" /\ q.waiting = TRUE
  BY <1>4, NotNull DEF Wanted
<1>. HIDE DEF to, q
<1>6. patch'[n] = q /\ patch[n] = Null /\ \A m \in Toggle \ {n} : patch'[m] = patch[m]
  BY <1>0, <1>1 DEF Requests, Toggled
<1>7. \A m \in Toggle : Waiting(m)' <=> m = n \/ Waiting(m)
  BY <1>5, <1>6 DEF Waiting
<1>8. ASSUME NEW m \in Toggle, m > n PROVE patch[m] = Null
  <2>1. SUFFICES ASSUME m \in Toggled PROVE FALSE
    BY DEF Toggled
  <2>2. n \in 1..(m - 1)
    BY <1>8, ReaderAssumption DEF Toggle, ReaderAssumption
  <2>. QED
    BY <1>1, <2>1, <2>2 DEF Ordered
<1>9. PICK view \in View : Pictures(view)
  BY DEF Faithful
<1>10. view[i] = row[i] /\ view[i] = prev
  <2>1. view[i] = row[i]
    BY <1>0, <1>9 DEF Pictures, Views
  <2>. QED
    BY <1>1, <1>9, <2>1 DEF Pictures, Lists, prev
<1>11. Ended'
  BY <1>0, <1>5, <1>6 DEF Ended, Waiting
<1>12. Alone'
  <2>1. SUFFICES ASSUME NEW m \in Toggle, NEW k \in Toggle, Waiting(k)',
                        patch'[m] # Null, m > k
                 PROVE  patch'[m].id # patch'[k].id
    BY DEF Alone
  <2>2. CASE k = n
    <3>1. m # n
      BY <2>1, <2>2, ReaderAssumption DEF Toggle, ReaderAssumption
    <3>. QED
      BY <1>6, <1>8, <2>1, <2>2, <3>1
  <2>3. CASE k # n /\ m = n
    BY <1>0, <1>5, <1>6, <1>7, <2>1, <2>3
  <2>4. CASE k # n /\ m # n
    BY <1>0, <1>6, <1>7, <2>1, <2>4 DEF Alone
  <2>. QED
    BY <2>2, <2>3, <2>4
<1>13. Apart' /\ Fresh'
  BY <1>0, <1>1 DEF Apart, Fresh, Loading
<1>14. Carried'
  <2>1. SUFFICES ASSUME NEW m \in Toggle, Waiting(m)'
                 PROVE  LET r == patch'[m]
                        IN  /\ row[r.id] = IF r.server \in {"sent", "lost"}
                                           THEN r.prev ELSE Wanted(r)
                            /\ r.server = "done" /\ r.answer # Null =>
                                 r.answer = row[r.id][Other(r.flag)]
    BY <1>1 DEF Carried, Wanted
  <2>2. CASE m = n
    BY <1>5, <1>6, <1>10, <2>2
  <2>3. CASE m # n
    BY <1>0, <1>6, <1>7, <2>1, <2>3 DEF Carried
  <2>. QED
    BY <2>2, <2>3
<1>15a. PICK new \in View : new = [view EXCEPT ![i] = to]
  BY <1>3 DEF View
<1>15. Lists(new)' /\ counts' = CountsOf(new)
  <2>1. Lists(view) /\ counts = CountsOf(view)
    BY <1>9 DEF Pictures
  <2>2. RightlyCounted(i, view[i], to)
    BY <1>1, <1>10
  <2>. QED
    BY <1>15a, <1>1, <1>3, <2>1, <2>2, ShownChange
<1>16. \A j \in Id : new[j] = IF j = i THEN to ELSE view[j]
  BY <1>15a DEF View
<1>17. Views(new)'
  <2>1. ASSUME NEW j \in Id, \A m \in Toggle : Waiting(m)' => patch'[m].id # j
        PROVE  new[j] = row[j]
    <3>1. j # i
      BY <1>5, <1>6, <1>7, <2>1
    <3>2. \A m \in Toggle : Waiting(m) => patch[m].id # j
      BY <1>6, <1>7, <2>1 DEF Waiting
    <3>. QED
      BY <1>9, <1>16, <3>1, <3>2 DEF Pictures, Views
  <2>2. ASSUME NEW m \in Toggle, Waiting(m)'
        PROVE  new[patch'[m].id] = Wanted(patch'[m])
    <3>1. CASE m = n
      BY <1>5, <1>6, <1>16, <3>1
    <3>2. CASE m # n
      <4>1. Waiting(m) /\ patch'[m] = patch[m] /\ patch[m].id # i
        BY <1>0, <1>6, <1>7, <2>2, <3>2
      <4>2. Sound(patch[m])
        BY <1>0, <4>1 DEF Waiting, Requests
      <4>3. patch[m].id \in Id
        BY <4>2 DEF Sound
      <4>4. view[patch[m].id] = Wanted(patch[m])
        BY <1>9, <4>1 DEF Pictures, Views
      <4>. QED
        BY <1>16, <4>1, <4>3, <4>4
    <3>. QED
      BY <3>1, <3>2
  <2>. QED
    BY <1>1, <2>1, <2>2 DEF Views, Wanted
<1>18. Pictures(new)'
  BY <1>15, <1>17 DEF Pictures, CountsOf, All, With
<1>19. Countable'
  <2>1. ASSUME NEW m \in Toggle, Waiting(m)'
        PROVE  RightlyCounted(patch'[m].id, patch'[m].prev, Wanted(patch'[m]))
    <3>1. CASE m = n
      BY <1>1, <1>5, <1>6, <3>1
    <3>2. CASE m # n
      <4>1. Waiting(m) /\ patch'[m] = patch[m]
        BY <1>6, <1>7, <2>1, <3>2
      <4>. QED
        BY <1>0, <4>1 DEF Countable
    <3>. QED
      BY <3>1, <3>2
  <2>. QED
    BY <2>1 DEF Countable, RightlyCounted, Wanted
<1>. QED
  BY <1>11, <1>12, <1>13, <1>14, <1>15, <1>18, <1>19 DEF Faithful

LEMMA OrderedStep ==
  ASSUME Inv, [Next]_vars, Ordered
  PROVE  Ordered'
<1>0. Requests /\ Table
  BY DEF Inv
<1>1. ASSUME NEW n \in Toggle, NEW q, q # Null, patch[n] # Null,
             patch' = [patch EXCEPT ![n] = q]
      PROVE  Toggled' = Toggled
  BY <1>0, <1>1 DEF Toggled, Requests
<1>2. ASSUME Toggled' = Toggled PROVE Ordered'
  BY <1>2 DEF Ordered
<1>3. ASSUME NEW n \in Toggle, NEW i \in Id, NEW flag \in Flag, SendToggle(n, i, flag)
      PROVE  Ordered'
  <2>1. n \notin Toggled /\ 1..(n - 1) \subseteq Toggled
    BY <1>3 DEF SendToggle, IsNext
  <2>2. \A m \in Toggle \ {n} : patch'[m] = patch[m]
    BY <1>0, <1>3 DEF SendToggle, Requests
  <2>3. Requests'
    BY RequestsStep
  <2>4. Toggled' \subseteq Toggled \cup {n} /\ Toggled \subseteq Toggled'
    BY <2>1, <2>2 DEF Toggled
  <2>. QED
    BY <2>1, <2>4 DEF Ordered
<1>4. ASSUME NEW n \in Toggle, ToggleAnswer(n) \/ ToggleError(n) PROVE Ordered'
  <2>1. patch[n] # Null /\ patch' = [patch EXCEPT ![n] = [patch[n] EXCEPT !.waiting = FALSE]]
    BY <1>4 DEF ToggleAnswer, ToggleError
  <2>2. [patch[n] EXCEPT !.waiting = FALSE] # Null
    BY <1>0, <2>1, Heard DEF Requests
  <2>. QED
    BY <1>1, <1>2, <2>1, <2>2
<1>5. ASSUME NEW n \in Toggle, Update(n) \/ Select(n) \/ Lose(n) PROVE Ordered'
  <2>1. Sound(patch[n]) /\ patch[n] # Null
    BY <1>0, <1>5, ServerStep DEF Update, Select, Lose
  <2>2. PICK s \in {"select", "done", "lost"}, a \in BOOLEAN \cup {Null} :
          patch' = [patch EXCEPT ![n] = Reply(patch[n], s, a)]
    BY <1>0, <1>5, ServerStep
  <2>3. Reply(patch[n], s, a) # Null
    BY <2>1, Served DEF Replied
  <2>. QED
    BY <1>1, <1>2, <2>1, <2>2, <2>3
<1>6. ASSUME patch' = patch PROVE Ordered'
  BY <1>2, <1>6 DEF Toggled
<1>. QED
  BY <1>3, <1>4, <1>5, <1>6
     DEF Next, OpenCountry, GetPage, LoadAnswer, LoadFails, Insert, Delete, Close,
         OnClusterClick, vars

LEMMA SettledStep ==
  ASSUME Inv, [Next]_vars, Settled
  PROVE  Settled'
<1>0. Ordered /\ Ordered'
  BY OrderedStep DEF Settled
<1>1. SUFFICES ASSUME clean' PROVE Faithful'
  BY SMTT(30), <1>0 DEF Settled
<1>2. clean
  BY ZenonT(40), <1>1 DEF Next, OpenCountry, GetPage, LoadAnswer, LoadFails, SendToggle, ToggleAnswer,
     ToggleError, Update, Select, Lose, Insert, Delete, Close, OnClusterClick, vars
<1>3. Faithful
  BY <1>2 DEF Settled
<1>4. ASSUME UNCHANGED vars PROVE Faithful'
  BY SMTT(30), <1>3, <1>4 DEF vars, Faithful, Ended, Alone, Apart, Carried, Countable, Fresh, Pictures,
     Views, Lists, Waiting, Loading, Listed, CountsOf, All, With, Wanted, RightlyCounted
<1>5. ASSUME NEW i \in Id, Insert(i) \/ Delete(i) PROVE Faithful'
  BY <1>1, <1>5 DEF Insert, Delete
<1>6. ASSUME NEW n \in Load, \E c \in Country, saved \in BOOLEAN : OpenCountry(n, c, saved)
      PROVE  Faithful'
  BY <1>1, <1>3, <1>6, OpenFaithful
<1>7. ASSUME NEW n \in Load, GetPage(n) \/ LoadAnswer(n) \/ LoadFails(n) PROVE Faithful'
  BY <1>3, <1>7, GetFaithful, AnswerFaithful, EmptyFaithful
<1>8. ASSUME Close \/ OnClusterClick PROVE Faithful'
  BY <1>3, <1>8, EmptyFaithful, ClickFaithful
<1>9. ASSUME NEW n \in Toggle, \E i \in Id, flag \in Flag : SendToggle(n, i, flag)
      PROVE  Faithful'
  BY <1>0, <1>1, <1>3, <1>9, SendFaithful
<1>10. ASSUME NEW n \in Toggle, ToggleAnswer(n) \/ ToggleError(n) PROVE Faithful'
  BY <1>1, <1>3, <1>10, ToggleAnswerFaithful, ToggleErrorFaithful
<1>11. ASSUME NEW n \in Toggle, Update(n) \/ Select(n) \/ Lose(n) PROVE Faithful'
  BY <1>3, <1>11, UpdateFaithful, SelectFaithful, LoseFaithful
<1>. QED
  BY <1>4, <1>5, <1>6, <1>7, <1>8, <1>9, <1>10, <1>11 DEF Next

LEMMA SummaryOfTable == Summary = CountsOf(row)
BY DEF Summary, Total, CountIn, Stored, CountsOf, All, With

LEMMA InitSettled == Init => Settled
<1>. SUFFICES ASSUME Init PROVE Settled
  OBVIOUS
<1>1. \A n \in Toggle : patch[n] = Null
  BY DEF Init
<1>2. \A n \in Load : ~Loading(n)
  BY DEF Init, Loading
<1>3. Ordered /\ Ended /\ Alone /\ Apart /\ Carried /\ Countable /\ Fresh
  BY <1>1, <1>2 DEF Ordered, Toggled, Ended, Alone, Apart, Carried, Countable, Fresh, Waiting
<1>4. row \in View
  BY InitInv DEF Inv, Table, View
<1>5. PICK view \in View : view = row
  BY <1>4
<1>6. Pictures(view)
  <2>1. counts = CountsOf(view)
    BY <1>5, SummaryOfTable DEF Init
  <2>2. Views(view) /\ Lists(view)
    BY <1>1, <1>5 DEF Views, Waiting, Lists, Listed, Init
  <2>. QED
    BY <2>1, <2>2 DEF Pictures
<1>. QED
  BY <1>3, <1>6 DEF Settled, Faithful

\* For any number of articles, dates of articles, loads and toggles, in a clean
\* history: when nothing is in flight the page shows what the table holds, its
\* counters included.  A clean history has toggles of different articles that
\* are handled, lost and answered in any order, and loads and closes between
\* them; not two toggles of one article at once, one during a load, a change of
\* the read flag of an article of another date, a failure of a request that was
\* taken, an insertion or a deletion (state.service.ts toggleReadStatus,
\* toggleSavedStatus and patchSummaryReadCount, main.py PATCH handlers).
THEOREM SettledPageAgreesHolds == Spec => []SettledPageAgrees
<1>1. ASSUME Inv, Settled PROVE SettledPageAgrees
  <2>1. SUFFICES ASSUME clean, \A n \in Toggle : ~Pending(n)
                 PROVE  /\ \A i \in Id : Listed(i) => row[i] = obj[detail][i]
                        /\ counts = Summary
    BY DEF SettledPageAgrees
  <2>2. PICK view \in View : Pictures(view)
    BY <1>1, <2>1 DEF Settled, Faithful
  <2>3. \A n \in Toggle : ~Waiting(n)
    BY <2>1 DEF Pending, Waiting
  <2>4. \A i \in Id : view[i] = row[i]
    BY <2>2, <2>3 DEF Pictures, Views
  <2>5. view = row
    BY <1>1, <2>4 DEF View, Inv, Table
  <2>. QED
    BY <2>2, <2>5, SummaryOfTable DEF Pictures, Lists
<1>. QED
  BY <1>1, Invariant, InitSettled, SettledStep, PTL DEF Spec

-----------------------------------------------------------------------------
(* Where the flags of the list come from. *)

\* The request p left its row with the flags f, and answers so.
LastWrite(p, f) ==
  /\ p.server \in {"select", "done"}
  /\ f \in CoupledFlags /\ f[p.flag] = p.value
  /\ p.server = "done" => p.answer = f[Other(p.flag)]

Writers ==
  /\ writer \in [Id -> Toggle \cup {Null}]
  /\ \A i \in Id, n \in Toggle : writer[i] = n =>
       patch[n] # Null /\ patch[n].id = i /\ LastWrite(patch[n], row[i])

Based ==
  /\ base \subseteq Toggle
  /\ \A n \in base : patch[n] # Null /\ patch[n].prev = row[patch[n].id]

Read ==
  /\ seen \in [Load -> SUBSET Id]
  /\ \A n \in Load : Loading(n) => \A k \in DOMAIN load[n].pages :
       \A x \in load[n].pages[k] : x.id \in seen[n] => x.flags = row[x.id]

HInv == Writers /\ Based /\ Read /\ confirmed \subseteq Id /\ ConfirmedIsStored

HVars == <<vars, history>>

LEMMA OnlyWatches == [HNext]_HVars => [Next]_vars
BY DEF HVars, HNext, HGetPage, HLoadAnswer, HLoadFails, HSendToggle, HToggleAnswer,
   HToggleError, HUpdate, HInsert, HDelete, HClose, Unwatched, Next, vars

\* A request keeps what was asked; only the server changes what it has made of it.
LEMMA PatchKeeps ==
  ASSUME Inv, [Next]_vars, NEW n \in Toggle, patch[n] # Null
  PROVE  /\ patch'[n] # Null
         /\ patch'[n].id = patch[n].id /\ patch'[n].flag = patch[n].flag
         /\ patch'[n].value = patch[n].value /\ patch'[n].prev = patch[n].prev
         /\ \/ patch'[n].server = patch[n].server /\ patch'[n].answer = patch[n].answer
            \/ patch[n].server = "sent"
            \/ Select(n)
<1>. DEFINE p == patch[n]
            q == patch'[n]
            Goal == /\ q # Null /\ q.id = p.id /\ q.flag = p.flag
                    /\ q.value = p.value /\ q.prev = p.prev
                    /\ \/ q.server = p.server /\ q.answer = p.answer
                       \/ p.server = "sent"
                       \/ Select(n)
<1>0. Requests /\ Table /\ Sound(p)
  BY DEF Inv, Requests
<1>1. ASSUME q = p PROVE Goal
  BY <1>1
<1>2. ASSUME NEW m \in Toggle, NEW r, patch' = [patch EXCEPT ![m] = r]
      PROVE  q = IF m = n THEN r ELSE p
  BY <1>0, <1>2 DEF Requests
<1>3. ASSUME NEW m \in Toggle, NEW i \in Id, NEW flag \in Flag, SendToggle(m, i, flag)
      PROVE  Goal
  <2>1. m # n
    BY <1>3 DEF SendToggle, IsNext, Toggled
  <2>2. q = p
    BY <1>2, <1>3, <2>1 DEF SendToggle
  <2>. QED
    BY <1>1, <2>2
<1>4. ASSUME NEW m \in Toggle, ToggleAnswer(m) \/ ToggleError(m) PROVE Goal
  <2>1. patch' = [patch EXCEPT ![m] = [patch[m] EXCEPT !.waiting = FALSE]]
    BY <1>4 DEF ToggleAnswer, ToggleError
  <2>2. q = IF m = n THEN [p EXCEPT !.waiting = FALSE] ELSE p
    BY <1>2, <2>1
  <2>. DEFINE r == [p EXCEPT !.waiting = FALSE]
  <2>3. /\ r.id = p.id /\ r.flag = p.flag /\ r.value = p.value
        /\ r.prev = p.prev /\ r.server = p.server /\ r.answer = p.answer
    BY <1>0 DEF Sound
  <2>4. r # Null
    BY <1>0, Heard
  <2>. HIDE DEF r
  <2>5. ASSUME q = r PROVE Goal
    BY <2>3, <2>4, <2>5
  <2>. QED
    BY <1>1, <2>2, <2>5 DEF r
<1>5. ASSUME NEW m \in Toggle, Update(m) \/ Select(m) \/ Lose(m) PROVE Goal
  <2>1. PICK s \in {"select", "done", "lost"}, a \in BOOLEAN \cup {Null} :
          patch' = [patch EXCEPT ![m] = Reply(patch[m], s, a)]
    BY <1>0, <1>5, ServerStep
  <2>2. q = IF m = n THEN Reply(p, s, a) ELSE p
    BY <1>2, <2>1
  <2>3. CASE m = n
    <3>1. Replied(p, q, s, a)
      BY <1>0, <2>2, <2>3, Served
    <3>2. p.server = "sent" \/ Select(n)
      BY <1>5, <2>3 DEF Update, Lose
    <3>. HIDE DEF p, q
    <3>. QED
      BY <3>1, <3>2 DEF Replied
  <2>. QED
    BY <1>1, <2>2, <2>3
<1>6. ASSUME patch' = patch PROVE Goal
  BY SMTT(30), <1>1, <1>6
<1>7. Goal
  BY <1>3, <1>4, <1>5, <1>6
     DEF Next, OpenCountry, GetPage, LoadAnswer, LoadFails, Insert, Delete, Close,
         OnClusterClick, vars
<1>. QED
  BY <1>7

\* A step writes one row, which the history notes, or none.
LEMMA Writes ==
  ASSUME Inv, [HNext]_HVars
  PROVE  \/ row' = row /\ writer' = writer
         \/ \E i \in Id, by \in Toggle \cup {Null} :
              /\ Written(i, by)
              /\ \A j \in Id : j # i => row'[j] = row[j]
              /\ UNCHANGED <<obj, detail>>
              /\ by # Null => Update(by) /\ Stored(i) /\ patch[by].id = i
<1>. DEFINE OneRow == \E i \in Id, by \in Toggle \cup {Null} :
              /\ Written(i, by)
              /\ \A j \in Id : j # i => row'[j] = row[j]
              /\ UNCHANGED <<obj, detail>>
              /\ by # Null => Update(by) /\ Stored(i) /\ patch[by].id = i
<1>0. Requests /\ Table
  BY DEF Inv
<1>1. ASSUME NEW n \in Toggle, HUpdate(n) PROVE (row' = row /\ writer' = writer) \/ OneRow
  <2>1. Update(n) /\ Sound(patch[n]) /\ UNCHANGED <<obj, detail>>
    BY <1>0, <1>1 DEF HUpdate, Update, Requests
  <2>2. patch[n].id \in Id
    BY <2>1 DEF Sound
  <2>3. CASE Stored(patch[n].id)
    <3>1. Written(patch[n].id, n)
      BY <1>1, <2>3 DEF HUpdate
    <3>2. \A j \in Id : j # patch[n].id => row'[j] = row[j]
      BY <1>0, <2>1, <2>3 DEF Update, Store, Table
    <3>. QED
      BY <2>1, <2>2, <2>3, <3>1, <3>2
  <2>4. CASE ~Stored(patch[n].id)
    BY <1>1, <2>4 DEF HUpdate, Update, history
  <2>. QED
    BY <2>3, <2>4
<1>2. ASSUME NEW i \in Id, HInsert(i) \/ HDelete(i) PROVE OneRow
  <2>1. Written(i, Null) /\ UNCHANGED <<obj, detail>>
    BY <1>2 DEF HInsert, HDelete, Insert, Delete
  <2>2. \A j \in Id : j # i => row'[j] = row[j]
    BY <1>0, <1>2 DEF HInsert, HDelete, Insert, Delete, Store, Table
  <2>. QED
    BY <2>1, <2>2
<1>. HIDE DEF OneRow
<1>3. ASSUME NEW n \in Load, HGetPage(n) \/ HLoadAnswer(n) \/ HLoadFails(n)
      PROVE  row' = row /\ writer' = writer
  BY <1>3 DEF HGetPage, HLoadAnswer, HLoadFails, GetPage, LoadAnswer, LoadFails
<1>4. ASSUME NEW n \in Toggle, NEW i \in Id, NEW flag \in Flag, HSendToggle(n, i, flag)
      PROVE  row' = row /\ writer' = writer
  BY <1>4 DEF HSendToggle, SendToggle
<1>5. ASSUME NEW n \in Toggle, HToggleAnswer(n) \/ HToggleError(n)
      PROVE  row' = row /\ writer' = writer
  BY <1>5 DEF HToggleAnswer, HToggleError, ToggleAnswer, ToggleError
<1>6. ASSUME HClose \/ Unwatched \/ UNCHANGED HVars PROVE row' = row /\ writer' = writer
  BY <1>6 DEF HClose, Unwatched, HVars, Close, OpenCountry, Select, Lose, OnClusterClick,
     history, vars
<1>7. (row' = row /\ writer' = writer) \/ OneRow
  BY <1>1, <1>2, <1>3, <1>4, <1>5, <1>6 DEF HNext
<1>. QED
  BY <1>7 DEF OneRow

\* An UPDATE sets the flag, and the flag the answer knows without a SELECT.
LEMMA UpdateSets ==
  ASSUME NEW f \in CoupledFlags, NEW flag \in Flag, NEW v \in BOOLEAN
  PROVE  /\ Updated(f, flag, v)[flag] = v
         /\ v = (flag = "saved") => Updated(f, flag, v)[Other(flag)] = v
<1>1. f \in Flags
  BY CoupledParts
<1>2. /\ [f EXCEPT !.read = TRUE] = [read |-> TRUE, saved |-> f.saved]
      /\ [f EXCEPT !.saved = FALSE] = [read |-> f.read, saved |-> FALSE]
  BY <1>1, OneFlag DEF Flags
<1>3. CASE flag = "read" /\ v = TRUE
  BY <1>2, <1>3 DEF Updated
<1>4. CASE flag = "read" /\ v = FALSE
  BY <1>4 DEF Updated, Unread, Other
<1>5. CASE flag = "saved" /\ v = TRUE
  BY <1>5 DEF Updated, Other
<1>6. CASE flag = "saved" /\ v = FALSE
  BY <1>2, <1>6 DEF Updated
<1>. QED
  BY <1>3, <1>4, <1>5, <1>6 DEF Flag

LEMMA UpdateWrites ==
  ASSUME Inv, NEW n \in Toggle, Update(n), Stored(patch[n].id)
  PROVE  patch[n].id \in Id /\ LastWrite(patch'[n], row'[patch[n].id])
<1>. DEFINE p == patch[n]
            f == Updated(row[p.id], p.flag, p.value)
<1>0. Requests /\ Table /\ Sound(p)
  BY DEF Inv, Requests, Update
<1>1. p.id \in Id /\ p.flag \in Flag /\ p.value \in BOOLEAN
  BY <1>0 DEF Sound
<1>2. row[p.id] \in CoupledFlags
  BY <1>0, <1>1, StoredFlags
<1>3. f \in CoupledFlags /\ f[p.flag] = p.value
      /\ (p.value = (p.flag = "saved") => f[Other(p.flag)] = p.value)
  BY <1>1, <1>2, UpdatedCoupled, UpdateSets
<1>4. row'[p.id] = f
  BY <1>0, <1>1 DEF Update, Store, Table
<1>5. CASE p.value = (p.flag = "saved")
  <2>1. patch' = [patch EXCEPT ![n] = Reply(p, "done", p.flag = "saved")]
    BY <1>5 DEF Update, Reply
  <2>2. patch'[n] = Reply(p, "done", p.flag = "saved")
    BY <1>0, <2>1 DEF Requests
  <2>3. (p.flag = "saved") \in BOOLEAN \cup {Null} /\ "done" \in {"select", "done", "lost"}
    OBVIOUS
  <2>4. Replied(p, patch'[n], "done", p.flag = "saved")
    BY <1>0, <2>2, <2>3, Served, Zenon
  <2>5. /\ patch'[n].server = "done" /\ patch'[n].flag = p.flag
        /\ patch'[n].value = p.value /\ patch'[n].answer = (p.flag = "saved")
    BY <2>4, Zenon DEF Replied
  <2>. HIDE DEF p, f
  <2>6. patch'[n].answer = f[Other(p.flag)]
    BY <1>3, <1>5, <2>5, Zenon
  <2>. QED
    BY <1>1, <1>3, <1>4, <2>5, <2>6 DEF LastWrite, p
<1>6. CASE p.value # (p.flag = "saved")
  <2>1. patch' = [patch EXCEPT ![n] = [p EXCEPT !.server = "select"]]
    BY <1>6 DEF Update
  <2>2. patch'[n] = Reply(p, "select", p.answer)
    BY <1>0, <2>1, OnlyServer DEF Requests
  <2>3. p.answer \in BOOLEAN \cup {Null} /\ "select" \in {"select", "done", "lost"}
    BY <1>0 DEF Sound
  <2>4. Replied(p, patch'[n], "select", p.answer)
    BY <1>0, <2>2, <2>3, Served, Zenon
  <2>5. /\ patch'[n].server = "select" /\ patch'[n].flag = p.flag
        /\ patch'[n].value = p.value
    BY <2>4, Zenon DEF Replied
  <2>. HIDE DEF p, f
  <2>. QED
    BY <1>1, <1>3, <1>4, <2>5 DEF LastWrite, p
<1>. QED
  BY <1>5, <1>6

LEMMA WritersStep ==
  ASSUME Inv, Writers, [HNext]_HVars
  PROVE  Writers'
<1>0. [Next]_vars /\ Requests /\ Table /\ writer \in [Id -> Toggle \cup {Null}]
  BY OnlyWatches DEF Inv, Writers
<1>1. writer' \in [Id -> Toggle \cup {Null}]
  BY <1>0, Writes DEF Written
<1>2. ASSUME NEW i \in Id, NEW n \in Toggle, writer'[i] = n
      PROVE  \/ Update(n) /\ Stored(i) /\ patch[n].id = i
             \/ writer[i] = n /\ row'[i] = row[i]
  <2>1. n # Null
    BY ReaderAssumption DEF ReaderAssumption, Toggle
  <2>. QED
    BY <1>0, <1>2, <2>1, Writes DEF Written
<1>3. ASSUME NEW i \in Id, NEW n \in Toggle, writer'[i] = n
      PROVE  /\ patch'[n] # Null /\ patch'[n].id = i
             /\ LastWrite(patch'[n], row'[i])
  <2>1. CASE Update(n) /\ Stored(i) /\ patch[n].id = i
    <3>1. patch[n] # Null
      BY <2>1 DEF Update
    <3>. QED
      BY <1>0, <2>1, <3>1, PatchKeeps, UpdateWrites
  <2>2. CASE writer[i] = n /\ row'[i] = row[i]
    <3>1. patch[n] # Null /\ patch[n].id = i /\ LastWrite(patch[n], row[i])
      BY <2>2 DEF Writers
    <3>2. /\ patch'[n] # Null /\ patch'[n].id = i /\ patch'[n].flag = patch[n].flag
          /\ patch'[n].value = patch[n].value
          /\ \/ patch'[n].server = patch[n].server /\ patch'[n].answer = patch[n].answer
             \/ patch[n].server = "sent" \/ Select(n)
      BY <1>0, <3>1, PatchKeeps
    <3>3. CASE patch'[n].server = patch[n].server /\ patch'[n].answer = patch[n].answer
      BY <2>2, <3>1, <3>2, <3>3 DEF LastWrite
    <3>4. CASE Select(n)
      <4>1. Stored(i)
        BY <3>1, FlagTyped DEF LastWrite, Stored, Flag
      <4>2. patch' = [patch EXCEPT ![n] = Reply(patch[n], "done", row[i][Other(patch[n].flag)])]
        BY <3>1, <3>4, <4>1 DEF Select, Reply
      <4>3. patch'[n] = Reply(patch[n], "done", row[i][Other(patch[n].flag)])
        BY <1>0, <4>2 DEF Requests
      <4>4. /\ patch'[n].server = "done"
            /\ patch'[n].answer = row[i][Other(patch[n].flag)]
        <5>1. Sound(patch[n])
          BY <1>0, <3>1 DEF Requests
        <5>. QED
          BY <4>3, <5>1 DEF Reply, Sound
      <4>. QED
        BY <2>2, <3>1, <3>2, <4>4 DEF LastWrite
    <3>5. patch[n].server # "sent"
      BY SMTT(30), <3>1 DEF LastWrite
    <3>. QED
      BY <3>2, <3>3, <3>4, <3>5
  <2>. QED
    BY <1>2, <1>3, <2>1, <2>2
<1>. QED
  BY <1>1, <1>3 DEF Writers, LastWrite

LEMMA BasedStep ==
  ASSUME Inv, Based, confirmed \subseteq Id, ConfirmedIsStored, [HNext]_HVars
  PROVE  Based'
<1>0. [Next]_vars /\ Requests /\ Table
  BY OnlyWatches DEF Inv
<1>1. ASSUME NEW n \in base, row'[patch[n].id] = row[patch[n].id]
      PROVE  n \in Toggle /\ patch'[n] # Null /\ patch'[n].prev = row'[patch'[n].id]
  BY <1>0, <1>1, PatchKeeps DEF Based
<1>2. ASSUME NEW i \in Id, NEW by, Written(i, by), \A j \in Id : j # i => row'[j] = row[j]
      PROVE  Based'
  <2>1. ASSUME NEW n \in base' PROVE n \in base /\ row'[patch[n].id] = row[patch[n].id]
    <3>1. n \in base /\ patch[n].id # i
      BY <1>2 DEF Written
    <3>2. patch[n] # Null /\ n \in Toggle
      BY <3>1 DEF Based
    <3>3. Sound(patch[n])
      BY <1>0, <3>2 DEF Requests
    <3>4. patch[n].id \in Id
      BY <3>3 DEF Sound
    <3>. QED
      BY <1>2, <3>1, <3>4
  <2>. QED
    BY <1>1, <2>1 DEF Based
<1>3. ASSUME row' = row, base' \subseteq base PROVE Based'
  BY <1>1, <1>3 DEF Based
<1>4. ASSUME NEW n \in Toggle, NEW i \in Id, NEW flag \in Flag, HSendToggle(n, i, flag)
      PROVE  Based'
  <2>1. /\ row' = row /\ base' \subseteq base \cup {n}
        /\ n \in base' /\ n \notin base => i \in confirmed /\ Listed(i)
    BY <1>4 DEF HSendToggle, SendToggle
  <2>2. patch[n] = Null
    BY <1>4 DEF HSendToggle, SendToggle, IsNext, Toggled
  <2>3. n \notin base
    BY <2>2 DEF Based
  <2>4. ASSUME n \in base' PROVE patch'[n] # Null /\ patch'[n].prev = row[patch'[n].id]
    <3>1. i \in confirmed /\ Listed(i)
      BY <2>1, <2>3, <2>4
    <3>2. obj[detail][i] = row[i]
      BY <3>1 DEF ConfirmedIsStored
    <3>. DEFINE value == ~obj[cluster][i][flag]
                q     == [id |-> i, flag |-> flag, value |-> value, prev |-> obj[detail][i],
                          server |-> "sent", answer |-> Null, waiting |-> TRUE]
    <3>3. patch' = [patch EXCEPT ![n] = q]
      BY <1>4, <3>1 DEF HSendToggle, SendToggle
    <3>4. patch'[n] = q
      BY <1>0, <3>3 DEF Requests
    <3>5. value \in BOOLEAN /\ obj[detail][i] \in CoupledFlags
      BY <3>1, ListedFlags DEF Inv
    <3>. HIDE DEF value
    <3>6. Sound(q)
      BY <3>5 DEF Sound
    <3>7. q.id = i /\ q.prev = row[i] /\ q # Null
      BY <3>2, <3>6, NotNull
    <3>. HIDE DEF q
    <3>. QED
      BY <3>4, <3>7
  <2>5. ASSUME NEW m \in base', m # n
        PROVE  m \in Toggle /\ patch'[m] # Null /\ patch'[m].prev = row'[patch'[m].id]
    BY <1>1, <2>1, <2>5
  <2>. QED
    BY <2>1, <2>4, <2>5 DEF Based
<1>. QED
  BY ZenonT(40), <1>2, <1>3, <1>4, Writes
     DEF HVars, HNext, HGetPage, HLoadAnswer, HLoadFails, HToggleAnswer, HToggleError,
         HUpdate, HInsert, HDelete, HClose, Unwatched, Written, Update, Insert, Delete,
         GetPage, LoadAnswer, LoadFails, ToggleAnswer, ToggleError, Close, OpenCountry,
         Select, Lose, OnClusterClick, history, vars

LEMMA ReadStep ==
  ASSUME Inv, Read, [HNext]_HVars
  PROVE  Read'
<1>0. [Next]_vars /\ LoadedPages /\ Complete /\ Requests /\ Table
  BY OnlyWatches DEF Inv
<1>1. seen \in [Load -> SUBSET Id] /\ Function /\ \A n \in Load : Turns(n) \/ Opens(n)
  BY <1>0, LoadTurns DEF Read
<1>2. \/ UNCHANGED <<seen, row>>
      \/ \E i \in Id : /\ seen' = [n \in Load |-> seen[n] \ {i}]
                       /\ \A j \in Id : j # i => row'[j] = row[j]
      \/ row' = row /\ \E n \in Load :
           \/ seen' = [seen EXCEPT ![n] = {}]
           \/ load[n].at = "page" /\ seen' = [seen EXCEPT ![n] = @ \cup Page(Rows(load[n]))]
  <2>1. row' # row => \E i \in Id : /\ seen' = [n \in Load |-> seen[n] \ {i}]
                                    /\ \A j \in Id : j # i => row'[j] = row[j]
    BY Writes DEF Written
  <2>2. ASSUME row' = row
        PROVE  \/ UNCHANGED seen
               \/ \E i \in Id : /\ seen' = [n \in Load |-> seen[n] \ {i}]
                                /\ \A j \in Id : j # i => row'[j] = row[j]
               \/ \E n \in Load :
                    \/ seen' = [seen EXCEPT ![n] = {}]
                    \/ /\ load[n].at = "page"
                       /\ seen' = [seen EXCEPT ![n] = @ \cup Page(Rows(load[n]))]
    <3>1. ASSUME NEW n \in Toggle, HUpdate(n)
          PROVE  UNCHANGED seen \/ \E i \in Id : seen' = [m \in Load |-> seen[m] \ {i}]
      <4>1. Sound(patch[n])
        BY <1>0, <3>1 DEF HUpdate, Update, Requests
      <4>2. patch[n].id \in Id
        BY <4>1 DEF Sound
      <4>. QED
        BY <3>1, <4>2 DEF HUpdate, Written, history
    <3>. QED
      BY <2>2, <3>1
         DEF HVars, HNext, HGetPage, HLoadAnswer, HLoadFails, HSendToggle, HToggleAnswer,
             HToggleError, HInsert, HDelete, HClose, Unwatched, Written, GetPage, history
  <2>. QED
    BY <2>1, <2>2
<1>3. seen' \in [Load -> SUBSET Id]
  <2>1. \A n \in Load : Page(Rows(load[n])) \subseteq Id
    BY DEF Page, Rows
  <2>. QED
    BY <1>1, <1>2, <2>1
<1>4. ASSUME NEW n \in Load, NEW i \in Id, i \in seen'[n]
      PROVE  /\ row'[i] = row[i]
             /\ i \in seen[n] \/ (load[n].at = "page" /\ i \in Rows(load[n]))
  <2>1. ASSUME NEW m \in Load, seen' = [seen EXCEPT ![m] = @ \cup Page(Rows(load[m]))],
               load[m].at = "page"
        PROVE  i \in seen[n] \/ (load[n].at = "page" /\ i \in Rows(load[n]))
    <3>1. Page(Rows(load[m])) \subseteq Rows(load[m])
      BY DEF Page
    <3>2. seen'[n] = IF m = n THEN seen[n] \cup Page(Rows(load[m])) ELSE seen[n]
      BY <1>1, <2>1
    <3>. QED
      BY <1>4, <2>1, <3>1, <3>2
  <2>2. ASSUME NEW m \in Load, seen' = [seen EXCEPT ![m] = {}] PROVE i \in seen[n]
    BY <1>1, <1>4, <2>2
  <2>3. ASSUME NEW j \in Id, seen' = [m \in Load |-> seen[m] \ {j}]
        PROVE  i \in seen[n] /\ i # j
    BY <1>4, <2>3
  <2>. QED
    BY <1>2, <1>4, <2>1, <2>2, <2>3
<1>5. ASSUME NEW n \in Load, Loading(n)', NEW k \in DOMAIN load'[n].pages,
             NEW x \in load'[n].pages[k], x.id \in seen'[n]
      PROVE  x.flags = row'[x.id]
  <2>0. x.id \in Id
    BY <1>3, <1>5
  <2>1. CASE Opens(n)
    <3>1. load'[n].pages = <<>>
      BY <2>1 DEF Opens
    <3>. QED
      BY <1>5, <3>1
  <2>2. ASSUME Loading(n), NEW j \in DOMAIN load[n].pages, x \in load[n].pages[j]
        PROVE  x.flags = row'[x.id]
    <3>1. /\ row'[x.id] = row[x.id]
          /\ x.id \in seen[n] \/ (load[n].at = "page" /\ x.id \in Rows(load[n]))
      BY <1>4, <1>5, <2>0
    <3>2. x.id \in seen[n]
      <4>1. SUFFICES ASSUME load[n].at = "page", x.id \in Rows(load[n]) PROVE FALSE
        BY <3>1
      <4>2. Covers(load[n]) /\ load[n] \in LoadState
        BY <1>0, <2>2 DEF Complete, LoadedPages
      <4>3. load[n].cursor # Null
        BY <2>2, <4>1, <4>2 DEF Covers
      <4>4. x.id >= load[n].cursor /\ x.id < load[n].cursor
        BY <2>2, <4>1, <4>2, <4>3 DEF Covers, Rows
      <4>5. x.id \in Nat /\ load[n].cursor \in Nat
        BY <2>0, <4>2, <4>3, ReaderAssumption DEF LoadState, ReaderAssumption
      <4>. QED
        BY <4>4, <4>5
    <3>. QED
      BY <2>2, <3>1, <3>2 DEF Read
  <2>3. CASE Trims(n)
    <3>1. load'[n].pages = load[n].pages /\ Loading(n)
      BY <1>0, <2>3, Trimmed DEF Trims
    <3>. QED
      BY <1>5, <2>2, <3>1
  <2>4. CASE Grows(n)
    <3>1. load'[n].pages = Append(load[n].pages, NewPage(n)) /\ load[n].pages \in Pages
      BY <1>0, <2>4, Grown DEF LoadState
    <3>2. Loading(n) /\ row' = row
      BY <2>4 DEF Grows, Loading
    <3>3. \/ k \in DOMAIN load[n].pages /\ load'[n].pages[k] = load[n].pages[k]
          \/ load'[n].pages[k] = NewPage(n)
      BY <1>5, <3>1 DEF Pages
    <3>4. ASSUME x \in NewPage(n) PROVE x.flags = row[x.id]
      BY <3>4 DEF NewPage
    <3>. QED
      BY <1>5, <2>2, <3>2, <3>3, <3>4
  <2>. QED
    BY <1>1, <1>5, <2>1, <2>3, <2>4 DEF Turns, Rests, Ends, Loading
<1>. QED
  BY <1>3, <1>5 DEF Read

\* The answer of the request that wrote the row last is the row.
LEMMA AnsweredLast ==
  ASSUME NEW p, Sound(p), p.server = "done", NEW f \in CoupledFlags,
         NEW g, LastWrite(p, g)
  PROVE  Answered(f, p) = g
<1>. DEFINE to == Optimistic(f, p.flag, p.value)
<1>1. /\ p.flag \in Flag /\ p.value \in BOOLEAN /\ g \in Flags
      /\ g[p.flag] = p.value /\ p.answer = g[Other(p.flag)]
  BY CoupledParts DEF Sound, LastWrite
<1>2. p.answer # Null
  BY <1>1, ReaderAssumption DEF Flags, Flag, Other, ReaderAssumption
<1>3. to \in Flags
  BY <1>1, OptimisticCoupled, CoupledParts
<1>4. to[p.flag] = p.value
  BY <1>1 DEF Optimistic, Flag
<1>5. Answered(f, p) = [to EXCEPT ![Other(p.flag)] = p.answer]
  BY <1>2 DEF Answered
<1>. HIDE DEF to
<1>6. [to EXCEPT ![Other(p.flag)] = g[Other(p.flag)]] = g
  BY <1>1, <1>3, <1>4 DEF Flags, Flag, Other
<1>. QED
  BY <1>1, <1>5, <1>6, Zenon

\* The flags of one article of the list are replaced.
LEMMA ListReplaced ==
  ASSUME Shown, confirmed \subseteq Id, ConfirmedIsStored, row' = row, detail' = detail,
         NEW i \in Id, NEW to, Show(i, to),
         confirmed' \subseteq confirmed \cup {i}, i \in confirmed' => to = row[i]
  PROVE  ConfirmedIsStored'
<1>1. CASE ~Listed(i)
  <2>1. obj' = obj
    BY <1>1 DEF Show
  <2>. QED
    BY <1>1, <2>1 DEF ConfirmedIsStored, Listed
<1>2. CASE Listed(i)
  <2>1. obj' = [obj EXCEPT ![detail][i] = to] /\ detail \in Load /\ obj \in [Load -> Objs]
    BY <1>2 DEF Show, Shown, Listed
  <2>2. \A j \in Id : obj'[detail][j] = IF j = i THEN to ELSE obj[detail][j]
    BY <2>1 DEF Objs
  <2>. QED
    BY <2>2 DEF ConfirmedIsStored, Listed
<1>. QED
  BY <1>1, <1>2

LEMMA ConfirmedStep ==
  ASSUME Inv, HInv, [HNext]_HVars
  PROVE  confirmed' \subseteq Id /\ ConfirmedIsStored'
<1>0. [Next]_vars /\ Requests /\ Shown /\ LoadedPages
  BY OnlyWatches DEF Inv
<1>. DEFINE Goal == confirmed' \subseteq Id /\ ConfirmedIsStored'
<1>1. confirmed \subseteq Id /\ ConfirmedIsStored /\ Writers /\ Based /\ Read
  BY DEF HInv
<1>2. ASSUME NEW i \in Id, NEW by, Written(i, by), \A j \in Id : j # i => row'[j] = row[j],
             UNCHANGED <<obj, detail>>
      PROVE  Goal
  BY <1>1, <1>2 DEF Written, ConfirmedIsStored, Listed
<1>3. ASSUME UNCHANGED <<row, obj, detail, confirmed>> PROVE Goal
  BY <1>1, <1>3 DEF ConfirmedIsStored, Listed
<1>4. ASSUME confirmed' = {} PROVE Goal
  BY <1>4 DEF ConfirmedIsStored
<1>5. ASSUME OnClusterClick, UNCHANGED confirmed PROVE Goal
  <2>1. UNCHANGED <<row, detail>> /\ detail \in Load
    BY <1>0, <1>5 DEF OnClusterClick, Shown
  <2>2. obj'[detail] = obj[detail]
    BY <1>5, <2>1 DEF OnClusterClick, Keep
  <2>. QED
    BY <1>1, <1>5, <2>1, <2>2 DEF ConfirmedIsStored, Listed
<1>6. ASSUME NEW n \in Load, HLoadAnswer(n) PROVE Goal
  <2>1. CASE detail' # n
    BY <1>4, <1>6, <2>1 DEF HLoadAnswer
  <2>2. CASE detail' = n
    <3>1. Loading(n) /\ confirmed' = seen[n] /\ row' = row
      BY <1>6, <2>2 DEF HLoadAnswer, LoadAnswer, Loading
    <3>2. obj'[n] = Objects(Items(n))
      BY <1>0, <1>6, <2>2 DEF HLoadAnswer, LoadAnswer, Keep, Shown
    <3>3. ASSUME NEW i \in seen[n], i \in Id, Objects(Items(n))[i] # Null
          PROVE  Objects(Items(n))[i] = row[i]
      <4>1. \E x \in Items(n) : x.id = i
        BY <3>3 DEF Objects
      <4>. DEFINE y == CHOOSE x \in Items(n) : x.id = i
      <4>2. y \in Items(n) /\ y.id = i
        BY <4>1
      <4>3. Objects(Items(n))[i] = y.flags
        BY <3>3, <4>1 DEF Objects
      <4>. HIDE DEF y
      <4>4. PICK k \in DOMAIN load[n].pages : y \in load[n].pages[k]
        BY <4>2 DEF Items
      <4>5. y.flags = row[y.id]
        BY <1>1, <3>1, <3>3, <4>2, <4>4 DEF Read
      <4>. QED
        BY <4>2, <4>3, <4>5
    <3>4. seen[n] \subseteq Id
      BY <1>1 DEF Read
    <3>. QED
      BY <2>2, <3>1, <3>2, <3>3, <3>4 DEF ConfirmedIsStored, Listed
  <2>. QED
    BY <2>1, <2>2
<1>7. ASSUME NEW n \in Toggle, NEW i \in Id, NEW flag \in Flag, HSendToggle(n, i, flag)
      PROVE  Goal
  <2>1. PICK to : Show(i, to)
    BY <1>7 DEF HSendToggle, SendToggle
  <2>2. row' = row /\ detail' = detail /\ confirmed' = confirmed \ {i}
    BY <1>7 DEF HSendToggle, SendToggle
  <2>. QED
    BY <1>0, <1>1, <2>1, <2>2, ListReplaced
<1>8. ASSUME NEW n \in Toggle, HToggleAnswer(n) PROVE Goal
  <2>. DEFINE i == patch[n].id
  <2>1. /\ patch[n] # Null /\ patch[n].server = "done"
        /\ row' = row /\ detail' = detail /\ Replaced(n, writer[i] = n)
        /\ IF IsLast(n) /\ Listed(i) THEN Show(i, Answered(obj[detail][i], patch[n]))
                                     ELSE UNCHANGED <<obj, counts>>
    BY <1>8 DEF HToggleAnswer, ToggleAnswer
  <2>2. Sound(patch[n])
    BY <1>0, <2>1 DEF Requests
  <2>3. i \in Id
    BY <2>2 DEF Sound
  <2>4. CASE ~(IsLast(n) /\ Listed(i))
    BY <1>3, <2>1, <2>4 DEF Replaced
  <2>5. CASE IsLast(n) /\ Listed(i)
    <3>1. /\ confirmed' \subseteq confirmed \cup {i}
          /\ i \in confirmed' => writer[i] = n
      BY <2>1, <2>5 DEF Replaced
    <3>2. obj[detail][i] \in CoupledFlags
      BY <1>0, <2>3, <2>5, ListedFlags
    <3>3. writer[i] = n => Answered(obj[detail][i], patch[n]) = row[i]
      BY <1>1, <2>1, <2>2, <2>3, <3>2, AnsweredLast DEF Writers
    <3>4. PICK to : to = Answered(obj[detail][i], patch[n])
      OBVIOUS
    <3>5. Show(i, to)
      BY <2>1, <2>5, <3>4
    <3>. HIDE DEF i
    <3>. QED
      BY <1>0, <1>1, <2>1, <2>3, <3>1, <3>3, <3>4, <3>5, ListReplaced
  <2>. QED
    BY <2>4, <2>5
<1>9. ASSUME NEW n \in Toggle, HToggleError(n) PROVE Goal
  <2>. DEFINE i == patch[n].id
  <2>1. /\ patch[n] # Null /\ row' = row /\ detail' = detail /\ Replaced(n, n \in base)
        /\ IF IsLast(n) THEN Show(i, patch[n].prev) ELSE UNCHANGED <<obj, counts>>
    BY <1>9 DEF HToggleError, ToggleError, Rollback
  <2>2. Sound(patch[n])
    BY <1>0, <2>1 DEF Requests
  <2>3. i \in Id
    BY <2>2 DEF Sound
  <2>4. CASE ~(IsLast(n) /\ Listed(i))
    BY <1>3, <2>1, <2>4 DEF Replaced, Show
  <2>5. CASE IsLast(n) /\ Listed(i)
    <3>1. /\ confirmed' \subseteq confirmed \cup {i}
          /\ i \in confirmed' => n \in base
      BY <2>1, <2>5 DEF Replaced
    <3>2. n \in base => patch[n].prev = row[i]
      BY <1>1 DEF Based
    <3>3. Show(i, patch[n].prev)
      BY <2>1, <2>5
    <3>. HIDE DEF i
    <3>. QED
      BY <1>0, <1>1, <2>1, <2>3, <3>1, <3>2, <3>3, ListReplaced
  <2>. QED
    BY <2>4, <2>5
<1>10. ASSUME row' = row, NEW n \in Toggle, HUpdate(n) PROVE Goal
  <2>1. Sound(patch[n]) /\ UNCHANGED <<obj, detail>>
    BY <1>0, <1>10 DEF HUpdate, Update, Requests
  <2>2. patch[n].id \in Id
    BY <2>1 DEF Sound
  <2>. QED
    BY <1>2, <1>3, <1>10, <2>1, <2>2 DEF HUpdate, history
<1>11. ASSUME row' # row PROVE Goal
  BY <1>2, <1>11, Writes
<1>12. ASSUME row' = row, NEW i \in Id, HInsert(i) \/ HDelete(i) PROVE Goal
  BY <1>2, <1>12 DEF HInsert, HDelete, Insert, Delete
<1>13. Goal
  <2>. HIDE DEF Goal
  <2>1. CASE row' = row
    BY <1>3, <1>4, <1>5, <1>6, <1>7, <1>8, <1>9, <1>10, <1>12, <2>1
       DEF HVars, HNext, HGetPage, HLoadFails, HClose, Unwatched, GetPage, OpenCountry,
           Select, Lose, history, vars
  <2>. QED
    BY SMTT(30), <1>11, <2>1
<1>. QED
  BY <1>13

LEMMA InitHInv == HInit => HInv
<1>. SUFFICES ASSUME HInit PROVE HInv
  OBVIOUS
<1>1. \A n \in Load : ~Loading(n)
  BY DEF HInit, Init, Loading
<1>2. Null \notin Toggle
  BY ReaderAssumption DEF ReaderAssumption, Toggle
<1>. QED
  BY <1>1, <1>2 DEF HInit, HInv, Writers, Based, Read, ConfirmedIsStored

\* For any number of articles, loads and toggles, with no restriction on what
\* overlaps, fails or is late: flags that the list took after the last write of
\* their row, from the answer to that write, from a page read since, or by a
\* rollback to such flags, are the row's (main.py PATCH handlers,
\* state.service.ts toggleReadStatus, toggleSavedStatus and the loads).
THEOREM ConfirmedIsStoredHolds == HSpec => []ConfirmedIsStored
<1>1. HInit => Init
  BY DEF HInit
<1>2. ASSUME Inv, HInv, [HNext]_HVars PROVE HInv'
  BY <1>2, WritersStep, BasedStep, ReadStep, ConfirmedStep DEF HInv
<1>3. ASSUME Inv, [HNext]_HVars PROVE Inv'
  BY <1>3, OnlyWatches, TableStep, RequestsStep, PagesStep, CompleteStep, ShownStep,
     CountedStep, NewestStep, CleanStep DEF Inv
<1>4. HInv => ConfirmedIsStored
  BY DEF HInv
<1>. QED
  BY <1>1, <1>2, <1>3, <1>4, InitInv, InitHInv, PTL DEF HSpec, HVars

\* The history variables restrict nothing: what holds of every behaviour of
\* Reader holds of the behaviours they watch.
THEOREM WatchedIsReader == HSpec => Spec
<1>1. HInit => Init
  BY DEF HInit
<1>. QED
  BY <1>1, OnlyWatches, PTL DEF HSpec, Spec, HVars
=============================================================================
