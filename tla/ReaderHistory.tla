---------------------------- MODULE ReaderHistory ----------------------------
(***************************************************************************)
(* Where the flags that the list shows come from.  History variables watch *)
(* Reader, and change nothing of it: which request wrote a row last, and   *)
(* which copies of its flags were made since then, by a page of a load or  *)
(* by the answer to that request.                                          *)
(***************************************************************************)
EXTENDS Reader

VARIABLES
  writer,       \* toggle that wrote each row last, Null when it was none
  seen,         \* articles a load has read, their rows not written since
  confirmed,    \* listed articles whose flags were taken after the last write
  base          \* waiting toggles that would be rolled back to such flags

history == <<writer, seen, confirmed, base>>

HInit ==
  /\ Init
  /\ writer = [i \in Id |-> Null]
  /\ seen = [n \in Load |-> {}]
  /\ confirmed = {}
  /\ base = {}

-----------------------------------------------------------------------------
(* The table. *)

\* The row is written: what was known of it before is known no more.
Written(i, by) ==
  /\ writer' = [writer EXCEPT ![i] = by]
  /\ seen' = [n \in Load |-> seen[n] \ {i}]
  /\ confirmed' = confirmed \ {i}
  /\ base' = {n \in base : patch[n].id # i}

HUpdate(n) ==
  /\ Update(n)
  /\ IF Stored(patch[n].id) THEN Written(patch[n].id, n) ELSE UNCHANGED history

HInsert(i) == Insert(i) /\ Written(i, Null)

HDelete(i) == Delete(i) /\ Written(i, Null)

-----------------------------------------------------------------------------
(* The list. *)

HGetPage(n) ==
  /\ GetPage(n)
  /\ seen' = [seen EXCEPT ![n] = @ \cup Page(Rows(load[n]))]
  /\ UNCHANGED <<writer, confirmed, base>>

HLoadAnswer(n) ==
  /\ LoadAnswer(n)
  /\ confirmed' = IF detail' = n THEN seen[n] ELSE {}
  /\ seen' = [seen EXCEPT ![n] = {}]
  /\ UNCHANGED <<writer, base>>

HLoadFails(n) ==
  /\ LoadFails(n)
  /\ confirmed' = {}
  /\ seen' = [seen EXCEPT ![n] = {}]
  /\ UNCHANGED <<writer, base>>

HClose ==
  /\ Close
  /\ confirmed' = {}
  /\ UNCHANGED <<writer, seen, base>>

\* What the page shows before the answer is confirmed by nothing.
HSendToggle(n, i, flag) ==
  /\ SendToggle(n, i, flag)
  /\ base' = IF i \in confirmed /\ Listed(i) THEN base \cup {n} ELSE base
  /\ confirmed' = confirmed \ {i}
  /\ UNCHANGED <<writer, seen>>

\* The flags of the list are replaced by those of the answer or of the rollback,
\* which are confirmed or not.
Replaced(n, known) ==
  LET i == patch[n].id
  IN  confirmed' = IF ~(IsLast(n) /\ Listed(i)) THEN confirmed
                   ELSE IF known THEN confirmed \cup {i} ELSE confirmed \ {i}

HToggleAnswer(n) ==
  /\ ToggleAnswer(n)
  /\ Replaced(n, writer[patch[n].id] = n)
  /\ base' = base \ {n}
  /\ UNCHANGED <<writer, seen>>

HToggleError(n) ==
  /\ ToggleError(n)
  /\ Replaced(n, n \in base)
  /\ base' = base \ {n}
  /\ UNCHANGED <<writer, seen>>

-----------------------------------------------------------------------------
Unwatched ==
  /\ \/ \E n \in Load, c \in Country, s \in BOOLEAN : OpenCountry(n, c, s)
     \/ \E n \in Toggle : Select(n) \/ Lose(n)
     \/ OnClusterClick
  /\ UNCHANGED history

HNext ==
  \/ \E n \in Load : HGetPage(n) \/ HLoadAnswer(n) \/ HLoadFails(n)
  \/ \E n \in Toggle : \/ \E i \in Id, f \in Flag : HSendToggle(n, i, f)
                       \/ HToggleAnswer(n) \/ HToggleError(n) \/ HUpdate(n)
  \/ \E i \in Id : HInsert(i) \/ HDelete(i)
  \/ HClose \/ Unwatched

HSpec == HInit /\ [][HNext]_<<vars, history>>

-----------------------------------------------------------------------------
\* What the list shows of an article is its row, if it was taken after the row
\* was written last: from the answer to the request that wrote it, from a page
\* read since, or by a rollback to such flags.  No restriction on what overlaps:
\* requests for both flags of one article, whose UPDATEs and SELECTs interleave,
\* are answered or fail in any order, during loads, and after the list was
\* loaded again (main.py 299, state.service.ts 272-324 and 356-407).
ConfirmedIsStored ==
  \A i \in confirmed : Listed(i) => obj[detail][i] = row[i]
=============================================================================
