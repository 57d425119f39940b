---------------------------- MODULE Reservation ----------------------------
(***************************************************************************)
(* The protocol of a quota reservation as its users see it: reserve, call  *)
(* the provider at most once, settle.  A user has one reservation at a     *)
(* time; it may be left unsettled (a crash, a database error), never       *)
(* settled twice, and a call is never made without one.                    *)
(***************************************************************************)
CONSTANT Task

VARIABLES row,   \* the user's latest row: none, reserved or settled
          sent   \* the provider was called under that row

rvars == <<row, sent>>

Settled == {"completed", "failed", "released"}

Init == /\ row = [t \in Task |-> "none"]
        /\ sent = [t \in Task |-> FALSE]

\* New work: a row that was left unsettled stays so in the table.
Begin(t) == /\ row' = [row EXCEPT ![t] = "none"]
            /\ sent' = [sent EXCEPT ![t] = FALSE]

Reserve(t) == /\ row[t] # "reserved"
              /\ row' = [row EXCEPT ![t] = "reserved"]
              /\ sent' = [sent EXCEPT ![t] = FALSE]

Call(t) == /\ row[t] = "reserved"
           /\ ~sent[t]
           /\ sent' = [sent EXCEPT ![t] = TRUE]
           /\ UNCHANGED row

\* Only an answer completes a reservation, only an unsent one is given back.
Settle(t, s) == /\ row[t] = "reserved"
                /\ s = "completed" => sent[t]
                /\ s = "released" => ~sent[t]
                /\ row' = [row EXCEPT ![t] = s]
                /\ UNCHANGED sent

Next == \E t \in Task : \/ Begin(t)
                        \/ Reserve(t)
                        \/ Call(t)
                        \/ \E s \in Settled : Settle(t, s)

Spec == Init /\ [][Next]_rvars
=============================================================================
