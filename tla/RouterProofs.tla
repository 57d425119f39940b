---------------------------- MODULE RouterProofs ----------------------------
(***************************************************************************)
(* What holds of the classification for any number of consumers, any       *)
(* chains of models and any numbers of attempts.                           *)
(*                                                                         *)
(* The steps of a task are grouped by what they do to its reservation, its *)
(* place in the chain and its history (Does); each part of the invariant   *)
(* is about one task (Tidy, Placed, Tried, Cold, Paid), so that a step of  *)
(* another one leaves it alone, but for the cooldowns they share.          *)
(*                                                                         *)
(* That a chain holds configured models only (Offered) rests on what the   *)
(* recursive function of Distinct computes: OutExists shows that there is  *)
(* such a function, by the least length for which there would be none.     *)
(***************************************************************************)
EXTENDS Router, FiniteSetLemmas, TLAPS

-----------------------------------------------------------------------------
(* The invariant. *)

Lanes == {"SIMPLE", "BORDERLINE", "COMPLEX"}

Job(S, T, W) ==
  [lane : Lanes, todo : T, chain : Seq(S), pos : Nat \ {0},
   escalating : BOOLEAN, escalated : BOOLEAN, attempt : Nat \ {0}, fails : Nat,
   why : W]

Shaped ==
  /\ pc \in [Task -> PC]
  /\ job = [t \in Task |-> job[t]]
  /\ row \in [Task -> {"none", "reserved"} \cup R!Settled]
  /\ sent \in [Task -> BOOLEAN]
  /\ result \in [Task -> {"none", "article", "fallback", "raised"}]
  /\ hist = [t \in Task |-> hist[t]]
  /\ \A t \in Task : /\ \E S, T, W : job[t] \in Job(S, T, W)
                     /\ \E S, T : hist[t] \in [cold : S, tried : T, calls : Nat]

\* The reservation of a task, by the await it has reached.
Tidy(t) ==
  /\ pc[t] # "idle" => result[t] = "none"
  /\ pc[t] = "idle" /\ row[t] = "reserved" => result[t] = "raised"
  /\ pc[t] \in {"filter", "reserve", "parse", "cool", "next"} => row[t] # "reserved"
  /\ pc[t] = "call" => row[t] = "reserved" /\ ~sent[t]
  /\ pc[t] \in {"answer", "complete"} => row[t] = "reserved" /\ sent[t]
  /\ pc[t] = "fail" /\ row[t] = "reserved" => sent[t]

\* Its place in the chain.
Placed(t) ==
  /\ pc[t] \notin {"idle", "filter"} =>
       /\ job[t].pos <= Len(job[t].chain)
       /\ job[t].attempt <= Tries(t)
  /\ pc[t] \in {"idle", "filter"} =>
       /\ job[t].pos = 1 /\ job[t].attempt = 1 /\ ~job[t].escalating
       /\ ~job[t].escalated
  /\ job[t].escalating => job[t].escalated

\* The models before its place were tried, and the one there if it was left.
Tried(t) ==
  /\ \A i \in 1..Len(job[t].chain) :
       i < job[t].pos => job[t].chain[i] \in hist[t].tried
  /\ (\/ pc[t] \notin {"idle", "filter", "reserve"}
      \/ job[t].escalating \/ job[t].attempt > 1)
     => job[t].chain[job[t].pos] \in hist[t].tried

\* Its chain, and what it has still to filter, are models of the lanes.
Offered(t) == job[t].todo \in Seq(Refs) /\ job[t].chain \in Seq(Refs)

\* No model it may call cools down since it began.
Cold(t) ==
  /\ hist[t].cold \subseteq cooling
  /\ pc[t] # "idle" =>
       /\ \A i \in 1..Len(job[t].chain) : job[t].chain[i].model \notin hist[t].cold
       /\ job[t].escalating => Head(ComplexRefs).model \notin hist[t].cold

\* The attempts its present model was given.
Used(t) == IF pc[t] \in {"reserve", "call"} THEN job[t].attempt - 1 ELSE job[t].attempt

Paid(t) ==
  /\ pc[t] = "filter" => hist[t].calls = 0
  /\ pc[t] \notin {"idle", "filter"} =>
       hist[t].calls <= MaxAttempts * (job[t].pos - 1)
         + (IF job[t].escalating THEN MaxAttempts + Used(t)
            ELSE Used(t) + (IF job[t].escalated THEN EscalationAttempts ELSE 0))

Parts(t) ==
  Tidy(t) /\ Placed(t) /\ Offered(t) /\ Tried(t) /\ Cold(t) /\ Paid(t)

\* The settings are read once, and the models that cool down are known ones.
Known ==
  /\ config \in [complexity : BOOLEAN, shadow : BOOLEAN, escalate : BOOLEAN,
                 complexUp : BOOLEAN]
  /\ cooling \in SUBSET Model

Inv == Shaped /\ Known /\ \A t \in Task : Parts(t)

-----------------------------------------------------------------------------
(* The chains are made of the models of the two lanes. *)

\* What Distinct puts at position i, by what it put at the one before.
Out(out, refs, i) ==
  IF i = 0 THEN <<>>
  ELSE IF \E j \in DOMAIN out[i - 1] : SameIdentity(out[i - 1][j], refs[i])
       THEN out[i - 1]
       ELSE Append(out[i - 1], refs[i])

IsOut(out, refs, n) ==
  /\ out = [i \in 0..n |-> Out(out, refs, i)]
  /\ \A i \in 0..n : out[i] \in Seq(Refs)

LEMMA OutExists ==
  ASSUME NEW refs \in Seq(Refs)
  PROVE  \A n \in 0..Len(refs) : \E out : IsOut(out, refs, n)
<1>. DEFINE Bad == {n \in 0..Len(refs) : \A out : ~IsOut(out, refs, n)}
<1>0. Len(refs) \in Nat
  OBVIOUS
<1>1. ASSUME Bad # {} PROVE FALSE
  <2>1. PICK n \in Bad : \A m \in Bad : n <= m
    <3>1. Bad \subseteq Nat
      BY <1>0
    <3>. QED
      BY <1>1, <3>1, NatLeast
  <2>2. n \in 0..Len(refs) /\ n \in Nat
    BY <1>0
  <2>3. CASE n = 0
    <3>. DEFINE h == [i \in 0..n |-> <<>>]
    <3>1. h = [i \in 0..n |-> Out(h, refs, i)]
      BY <2>3 DEF Out
    <3>2. \A i \in 0..n : h[i] \in Seq(Refs)
      OBVIOUS
    <3>. QED
      BY <2>1, <3>1, <3>2 DEF IsOut
  <2>4. CASE n # 0
    <3>1. n - 1 \in 0..Len(refs) /\ ~(n <= n - 1) /\ n \in 1..Len(refs)
      BY <1>0, <2>2, <2>4
    <3>2. PICK g : IsOut(g, refs, n - 1)
      BY <2>1, <3>1
    <3>. DEFINE h == [i \in 0..n |-> IF i = n THEN Out(g, refs, n) ELSE g[i]]
    <3>3. ASSUME NEW i \in 0..n PROVE Out(h, refs, i) = Out(g, refs, i)
      <4>1. CASE i = 0
        BY <4>1 DEF Out
      <4>2. CASE i # 0
        <5>1. i - 1 \in 0..n /\ i - 1 # n
          BY <2>2, <4>2
        <5>2. h[i - 1] = g[i - 1]
          BY <5>1
        <5>. HIDE DEF h
        <5>. QED
          BY <5>2 DEF Out
      <4>. QED
        BY <4>1, <4>2
    <3>4. ASSUME NEW i \in 0..n PROVE h[i] = Out(g, refs, i)
      <4>1. CASE i = n
        BY <4>1
      <4>2. CASE i # n
        <5>1. i \in 0..(n - 1)
          BY <2>2, <4>2
        <5>2. g[i] = Out(g, refs, i)
          BY <3>2, <5>1 DEF IsOut
        <5>. QED
          BY <4>2, <5>2
      <4>. QED
        BY <4>1, <4>2
    <3>5. h = [i \in 0..n |-> Out(h, refs, i)]
      <4>1. \A i \in 0..n : h[i] = Out(h, refs, i)
        BY <3>3, <3>4
      <4>. QED
        BY <4>1
    <3>6. Out(g, refs, n) \in Seq(Refs)
      <4>1. n - 1 \in 0..(n - 1)
        BY <3>1
      <4>2. g[n - 1] \in Seq(Refs) /\ refs[n] \in Refs
        BY <3>1, <3>2, <4>1 DEF IsOut
      <4>. QED
        BY <4>2 DEF Out
    <3>7. \A i \in 0..n : h[i] \in Seq(Refs)
      <4>1. ASSUME NEW i \in 0..n, i # n PROVE i \in 0..(n - 1)
        BY <2>2, <4>1
      <4>. QED
        BY <3>2, <3>6, <4>1 DEF IsOut
    <3>. HIDE DEF h
    <3>. QED
      BY <2>1, <3>5, <3>7 DEF IsOut
  <2>. QED
    BY <2>3, <2>4
<1>. QED
  BY <1>1

LEMMA DistinctTyped ==
  ASSUME NEW refs \in Seq(Refs)
  PROVE  Distinct(refs) \in Seq(Refs)
<1>. DEFINE n == Len(refs)
            f == CHOOSE out : out = [i \in 0..n |-> Out(out, refs, i)]
<1>0. n \in Nat
  OBVIOUS
<1>1. f = [i \in 0..n |-> Out(f, refs, i)]
  <2>1. \E out : out = [i \in 0..n |-> Out(out, refs, i)]
    BY <1>0, OutExists DEF IsOut
  <2>. QED
    BY <2>1
<1>2. Distinct(refs) = f[n]
  BY DEF Distinct, Out
<1>. HIDE DEF f
<1>. DEFINE Bad == {i \in 0..n : f[i] \notin Seq(Refs)}
<1>3. ASSUME Bad # {} PROVE FALSE
  <2>1. PICK i \in Bad : \A m \in Bad : i <= m
    <3>1. Bad \subseteq Nat
      BY <1>0
    <3>. QED
      BY <1>3, <3>1, NatLeast
  <2>2. CASE i = 0
    BY <1>0, <1>1, <2>1, <2>2 DEF Out
  <2>3. CASE i # 0
    <3>1. i - 1 \in 0..n /\ ~(i <= i - 1) /\ i \in 1..n
      BY <1>0, <2>3
    <3>2. f[i - 1] \in Seq(Refs) /\ refs[i] \in Refs
      BY <2>1, <3>1
    <3>3. f[i] = Out(f, refs, i)
      BY <1>1
    <3>4. Out(f, refs, i) \in Seq(Refs)
      BY <2>3, <3>2 DEF Out
    <3>. QED
      BY <2>1, <3>3, <3>4
  <2>. QED
    BY <2>2, <2>3
<1>. QED
  BY <1>0, <1>2, <1>3

LEMMA ChainForTyped ==
  ASSUME NEW lane
  PROVE  ChainFor(lane) \in Seq(Refs)
<1>1. SimpleRefs \in Seq(Refs) /\ ComplexRefs \in Seq(Refs)
  BY RouterAssumption DEF RouterAssumption
<1>2. SimpleRefs \o ComplexRefs \in Seq(Refs) /\ ComplexRefs \o SimpleRefs \in Seq(Refs)
  BY <1>1
<1>. QED
  BY <1>1, <1>2, DistinctTyped DEF ChainFor, SimpleChain, ComplexChain

-----------------------------------------------------------------------------
(* The steps of a task, by what they do. *)

Keeps(t) == row'[t] = row[t] /\ sent'[t] = sent[t]

Closes(t, s) == /\ row'[t] = IF row[t] = "reserved" THEN s ELSE row[t]
                /\ sent'[t] = sent[t]

\* Nothing of the job changes but the reason to leave the model.
SameJob(t) == job'[t] = [job[t] EXCEPT !.why = job'[t].why]

SameHist(t) == hist'[t] = hist[t]

Moves(t, from, to) == pc[t] = from /\ pc'[t] = to /\ result'[t] = result[t]

Starts(t) ==
  /\ pc[t] = "idle" /\ pc'[t] = "filter"
  /\ job'[t] = [NoJob EXCEPT !.lane = job'[t].lane, !.todo = job'[t].todo]
  /\ job'[t].lane \in Lanes /\ job'[t].todo \in Seq(Refs)
  /\ row'[t] = "none" /\ sent'[t] = FALSE /\ result'[t] = "none"
  /\ hist'[t] = [cold |-> cooling, tried |-> {}, calls |-> 0]

Filters(t) ==
  /\ Moves(t, "filter", "filter") /\ Keeps(t) /\ SameHist(t)
  /\ job[t].todo # <<>> /\ job'[t].todo = Tail(job[t].todo)
  /\ LET r == Head(job[t].todo)
     IN  \/ job'[t] = [job[t] EXCEPT !.todo = job'[t].todo]
         \/ /\ r.model \notin cooling
            /\ job'[t] = [job[t] EXCEPT !.todo = job'[t].todo,
                                        !.chain = Append(@, r)]

Routes(t) ==
  /\ Moves(t, "filter", "reserve") /\ Keeps(t) /\ SameHist(t)
  /\ job[t].chain # <<>> /\ job'[t] = job[t]

Stops(t) ==
  /\ \/ pc[t] = "filter" /\ job[t].chain = <<>>
     \/ pc[t] = "next" /\ (FatalAuth(t) \/ job[t].pos = Len(job[t].chain))
  /\ pc'[t] = "idle" /\ result'[t] = "fallback" /\ job'[t] = NoJob
  /\ Keeps(t) /\ SameHist(t)

Escalates(t) ==
  /\ Moves(t, "next", "reserve") /\ Keeps(t) /\ SameHist(t)
  /\ ~job[t].escalating /\ ~job[t].escalated
  /\ Head(ComplexRefs).model \notin cooling
  /\ job'[t] = [job[t] EXCEPT !.escalating = TRUE, !.escalated = TRUE,
                              !.attempt = 1, !.fails = 0]

Advances(t) ==
  /\ Moves(t, "next", "reserve") /\ Keeps(t) /\ SameHist(t)
  /\ job[t].pos # Len(job[t].chain)
  /\ job'[t] = [job[t] EXCEPT !.pos = @ + 1, !.escalating = FALSE,
                              !.attempt = 1, !.fails = 0]

Reserves(t) ==
  /\ Moves(t, "reserve", "call")
  /\ row'[t] = "reserved" /\ sent'[t] = FALSE /\ job'[t] = job[t]
  /\ hist'[t] = [hist[t] EXCEPT !.tried = @ \cup {Ref(t)}]

Refused(t) ==
  /\ Moves(t, "reserve", "next") \/ Moves(t, "reserve", "cool")
  /\ Keeps(t) /\ SameJob(t)
  /\ hist'[t] = [hist[t] EXCEPT !.tried = @ \cup {Ref(t)}]

Sends(t) ==
  /\ Moves(t, "call", "answer")
  /\ row'[t] = row[t] /\ sent'[t] = TRUE /\ job'[t] = job[t]
  /\ hist'[t] = [hist[t] EXCEPT !.calls = @ + 1]

\* From the call to the end of the attempt.
Goes(t) ==
  /\ SameJob(t) /\ SameHist(t)
  /\ \/ Moves(t, "answer", "complete") /\ Keeps(t)
     \/ Moves(t, "answer", "fail") /\ Keeps(t)
     \/ Moves(t, "complete", "parse") /\ Closes(t, "completed")
     \/ Moves(t, "complete", "fail") /\ (Closes(t, "completed") \/ Keeps(t))
     \/ Moves(t, "parse", "fail") /\ Keeps(t)
     \/ Moves(t, "parse", "next") /\ Keeps(t)
     \/ Moves(t, "fail", "next") /\ Closes(t, "failed")
     \/ Moves(t, "fail", "cool") /\ Closes(t, "failed")
     \/ Moves(t, "cool", "next") /\ Keeps(t)

Retries(t) ==
  /\ \/ Moves(t, "parse", "reserve") /\ Keeps(t)
     \/ Moves(t, "fail", "reserve") /\ Closes(t, "failed")
  /\ SameHist(t) /\ ~LastTry(t)
  /\ job'[t] = [job[t] EXCEPT !.attempt = @ + 1, !.fails = job'[t].fails]
  /\ job'[t].fails \in Nat

Leaves(t) ==
  /\ pc[t] # "idle" /\ pc'[t] = "idle" /\ job'[t] = NoJob /\ SameHist(t)
  /\ \/ pc[t] = "parse" /\ result'[t] = "article" /\ Keeps(t)
     \/ /\ result'[t] = "raised"
        /\ \/ Keeps(t)
           \/ pc[t] \in {"call", "answer", "complete", "fail"} /\ Closes(t, "failed")

Does(t) ==
  \/ Starts(t) \/ Filters(t) \/ Routes(t) \/ Stops(t) \/ Escalates(t)
  \/ Advances(t) \/ Reserves(t) \/ Refused(t) \/ Sends(t) \/ Goes(t)
  \/ Retries(t) \/ Leaves(t)

Rests(t) == /\ pc'[t] = pc[t] /\ job'[t] = job[t] /\ result'[t] = result[t]
            /\ Keeps(t)

LEMMA LeaveDoes ==
  ASSUME Shaped, NEW t \in Task, NEW outcome, Leave(t, outcome)
  PROVE  SameJob(t) /\ pc'[t] = "next" /\ result'[t] = result[t]
BY DEF Leave, Goto, SameJob, Shaped, Job

\* The attempt is not the last one.
Retried(t, fails) ==
  /\ ~LastTry(t) /\ Goto(t, "reserve") /\ UNCHANGED result
  /\ job' = [job EXCEPT ![t].attempt = @ + 1, ![t].fails = fails]

LEMMA RetriedDoes ==
  ASSUME Shaped, NEW t \in Task, NEW fails \in Nat, Retried(t, fails)
  PROVE  /\ ~LastTry(t) /\ pc'[t] = "reserve" /\ result'[t] = result[t]
         /\ job'[t] = [job[t] EXCEPT !.attempt = @ + 1, !.fails = job'[t].fails]
         /\ job'[t].fails \in Nat
BY DEF Retried, Goto, Shaped, Job

\* Every step of a task is one of these, and the models that cool down stay so.
LEMMA StepDoes ==
  ASSUME Shaped, NEW t \in Task,
         (\E f \in SUBSET Families : Classify(t, f)) \/ Step(t) \/ Cancel(t)
  PROVE  Does(t)
<1>0. PICK S, T, W : job[t] \in Job(S, T, W)
  BY DEF Shaped
<1>00. PICK C, M : hist[t] \in [cold : C, tried : M, calls : Nat]
  BY DEF Shaped
<1>. USE DEF Shaped, Goto, shared, ledger, SameHist, Keeps, Moves
<1>1. ASSUME NEW f \in SUBSET Families, Classify(t, f) PROVE Does(t)
  <2>1. LaneOf(f) \in Lanes
    BY DEF LaneOf, Lanes
  <2>2. job'[t] = [NoJob EXCEPT !.lane = LaneOf(f), !.todo = ChainFor(LaneOf(f))]
    BY <1>1 DEF Classify
  <2>3. /\ job'[t] = [NoJob EXCEPT !.lane = job'[t].lane, !.todo = job'[t].todo]
        /\ job'[t].lane = LaneOf(f) /\ job'[t].todo = ChainFor(LaneOf(f))
    BY <2>2 DEF NoJob
  <2>4. hist'[t] = [cold |-> cooling, tried |-> {}, calls |-> 0]
    BY <1>1 DEF Classify, NoHist
  <2>6. job'[t].lane \in Lanes /\ job'[t].todo \in Seq(Refs)
    BY <2>1, <2>3, ChainForTyped
  <2>5. Starts(t)
    BY <1>1, <2>3, <2>4, <2>6 DEF Classify, Starts
  <2>. QED
    BY <2>5 DEF Does
<1>2. CASE Eligible(t)
  BY <1>0, <1>2 DEF Eligible, Does, Filters, Job
<1>3. CASE Route(t)
  BY <1>3 DEF Route, Finish, Does, Routes, Stops
<1>4. CASE Escalate(t)
  BY <1>4 DEF Escalate, CanEscalate, Does, Escalates
<1>5. CASE Advance(t)
  BY <1>5 DEF Advance, Finish, Does, Advances, Stops
<1>6. CASE Reserve(t)
  BY <1>6 DEF Reserve, SetRow, Try, Does, Reserves
<1>7. CASE OverBudget(t) \/ OverDay(t)
  <2>1. SameJob(t)
    <3>1. CASE OverBudget(t)
      BY <3>1, LeaveDoes DEF OverBudget
    <3>2. CASE OverDay(t)
      BY <1>0, <3>2 DEF OverDay, SameJob, Job
    <3>. QED
      BY <1>7, <3>1, <3>2
  <2>2. hist'[t] = [hist[t] EXCEPT !.tried = @ \cup {Ref(t)}]
    BY <1>7 DEF OverBudget, OverDay, Try
  <2>. QED
    BY <1>7, <2>1, <2>2 DEF OverBudget, OverDay, Leave, Does, Refused
<1>8. CASE Send(t)
  BY <1>8 DEF Send, Does, Sends
<1>9. CASE Answer(t)
  BY <1>0, <1>9 DEF Answer, Does, Goes, SameJob, Job
<1>10. CASE ProviderFails(t)
  <2>1. PICK e \in Errors(t) : job' = [job EXCEPT ![t].why = e]
    BY <1>10 DEF ProviderFails
  <2>2. SameJob(t)
    BY <1>0, <2>1 DEF SameJob, Job
  <2>. QED
    BY <1>10, <2>2 DEF ProviderFails, Does, Goes
<1>11. CASE Complete(t)
  BY <1>0, <1>11 DEF Complete, Close, SetRow, Does, Goes, Closes, SameJob, Job
<1>12. CASE CompleteFails(t)
  BY <1>0, <1>12 DEF CompleteFails, Close, SetRow, Does, Goes, Closes, SameJob, Job
<1>13. CASE Valid(t)
  BY <1>13 DEF Valid, Finish, Does, Leaves
<1>14. CASE Unreadable(t)
  BY <1>0, <1>14 DEF Unreadable, Does, Goes, SameJob, Job
<1>15. CASE Invalid(t)
  <2>1. job[t].fails + 1 \in Nat
    BY <1>0 DEF Job
  <2>2. \/ Leave(t, "escalate")
        \/ Leave(t, Ending(t, job[t].fails + 1))
        \/ Retried(t, job[t].fails + 1)
    BY <1>15 DEF Invalid, NextTry, Retried
  <2>3. pc[t] = "parse" /\ Keeps(t) /\ SameHist(t)
    BY <1>15 DEF Invalid
  <2>. QED
    BY <1>0, <2>1, <2>2, <2>3, LeaveDoes, RetriedDoes DEF Does, Goes, Retries
<1>16. CASE Fail(t)
  <2>1. job[t].fails \in Nat
    BY <1>0 DEF Job
  <2>2. \/ Leave(t, "fatal_auth")
        \/ Goto(t, "cool") /\ UNCHANGED <<job, result>>
        \/ Leave(t, Ending(t, job[t].fails))
        \/ Retried(t, job[t].fails)
    BY <1>16 DEF Fail, NextTry, Retried
  <2>3. pc[t] = "fail" /\ Closes(t, "failed") /\ SameHist(t)
    BY <1>16 DEF Fail, Close, SetRow, Closes
  <2>4. CASE Goto(t, "cool") /\ UNCHANGED <<job, result>>
    BY <1>0, <2>3, <2>4 DEF Does, Goes, SameJob, Job
  <2>. QED
    BY <1>0, <2>1, <2>2, <2>3, <2>4, LeaveDoes, RetriedDoes
       DEF Does, Goes, Retries
<1>17. CASE Cool(t)
  BY <1>0, <1>17 DEF Cool, SetCooldown, Leave, Does, Goes, SameJob, Job
<1>18. CASE DbError(t)
  BY <1>18 DEF DbError, SetCooldown, Close, SetRow, Finish, Does, Leaves, Closes
<1>19. CASE Cancel(t)
  BY <1>19 DEF Cancel, Close, SetRow, Finish, Does, Leaves, Closes
<1>. QED
  BY <1>1, <1>2, <1>3, <1>4, <1>5, <1>6, <1>7, <1>8, <1>9, <1>10, <1>11, <1>12,
     <1>13, <1>14, <1>15, <1>16, <1>17, <1>18, <1>19 DEF Step

\* It is a step of that task only, and ends no cooldown.
LEMMA StepOthers ==
  ASSUME Shaped, NEW t \in Task,
         (\E f \in SUBSET Families : Classify(t, f)) \/ Step(t) \/ Cancel(t)
  PROVE  /\ cooling \subseteq cooling'
         /\ \A u \in Task \ {t} : Rests(u) /\ SameHist(u)
<1>1. cooling \subseteq cooling'
  BY ZenonT(40) DEF Classify, Step, Eligible, Route, Escalate, Advance, Reserve, OverBudget,
         OverDay, Send, Answer, ProviderFails, Complete, CompleteFails, Valid,
         Unreadable, Invalid, Fail, Cool, DbError, SetCooldown, Cancel, shared
<1>2. \A u \in Task \ {t} : pc'[u] = pc[u] /\ job'[u] = job[u]
  BY ZenonT(40) DEF Classify, Step, Eligible, Route, Escalate, Advance, Reserve, OverBudget,
         OverDay, Send, Answer, ProviderFails, Complete, CompleteFails, Valid,
         Unreadable, Invalid, Fail, Cool, DbError, Cancel, Finish, Leave, NextTry,
         Goto, Shaped
<1>3. \A u \in Task \ {t} : result'[u] = result[u] /\ hist'[u] = hist[u]
  BY DEF Classify, Step, Eligible, Route, Escalate, Advance, Reserve, OverBudget,
         OverDay, Send, Answer, ProviderFails, Complete, CompleteFails, Valid,
         Unreadable, Invalid, Fail, Cool, DbError, Cancel, Finish, Leave, NextTry,
         Try, shared, Shaped
<1>4. \A u \in Task \ {t} : Keeps(u)
  BY ZenonT(40) DEF Classify, Step, Eligible, Route, Escalate, Advance, Reserve, OverBudget,
         OverDay, Send, Answer, ProviderFails, Complete, CompleteFails, Valid,
         Unreadable, Invalid, Fail, Cool, DbError, Cancel, Close, SetRow, ledger,
         Keeps, Shaped
<1>. QED
  BY SMTT(30), <1>1, <1>2, <1>3, <1>4 DEF Rests, SameHist

-----------------------------------------------------------------------------
(* The shape of the state. *)

\* The variables stay functions of the tasks.
LEMMA Functions ==
  ASSUME Shaped, [Next]_vars
  PROVE  /\ pc' = [t \in Task |-> pc'[t]] /\ job' = [t \in Task |-> job'[t]]
         /\ row' = [t \in Task |-> row'[t]] /\ sent' = [t \in Task |-> sent'[t]]
         /\ result' = [t \in Task |-> result'[t]]
         /\ hist' = [t \in Task |-> hist'[t]]
<1>0. pc' = [t \in Task |-> pc'[t]]
  BY ZenonT(40) DEF Next, Classify, Step, Eligible, Route, Escalate, Advance, Reserve,
         OverBudget, OverDay, Send, Answer, ProviderFails, Complete,
         CompleteFails, Valid, Unreadable, Invalid, Fail, Cool, DbError, Cancel,
         Expire, CoolByOthers, Finish, Leave, NextTry, Goto, Shaped, vars
<1>1. job' = [t \in Task |-> job'[t]]
  <2>1. ASSUME NEW u \in Task, Step(u) PROVE job' = [t \in Task |-> job'[t]]
    BY <2>1 DEF Step, Eligible, Route, Escalate,
       Advance, Reserve, OverBudget, OverDay, Send, Answer, ProviderFails,
       Complete, CompleteFails, Valid, Unreadable, Invalid, Fail, Cool, DbError,
       Goto, Finish, Leave, NextTry, Shaped
  <2>2. ASSUME NEW u \in Task, (\E f \in SUBSET Families : Classify(u, f)) \/ Cancel(u)
        PROVE  job' = [t \in Task |-> job'[t]]
    BY <2>2 DEF Classify, Cancel, Goto, Finish, Shaped
  <2>. QED
    BY <2>1, <2>2 DEF Next, Expire, CoolByOthers, Shaped, vars
<1>2. result' = [t \in Task |-> result'[t]]
  <2>1. ASSUME NEW u \in Task, Step(u) PROVE result' = [t \in Task |-> result'[t]]
    BY <2>1 DEF Step, Eligible, Route, Escalate,
       Advance, Reserve, OverBudget, OverDay, Send, Answer, ProviderFails,
       Complete, CompleteFails, Valid, Unreadable, Invalid, Fail, Cool, DbError,
       Goto, Finish, Leave, NextTry, Shaped
  <2>2. ASSUME NEW u \in Task, (\E f \in SUBSET Families : Classify(u, f)) \/ Cancel(u)
        PROVE  result' = [t \in Task |-> result'[t]]
    BY <2>2 DEF Classify, Cancel, Goto, Finish, Shaped
  <2>. QED
    BY <2>1, <2>2 DEF Next, Expire, CoolByOthers, Shaped, vars
<1>4. hist' = [t \in Task |-> hist'[t]]
  <2>1. ASSUME NEW u \in Task, Step(u) PROVE hist' = [t \in Task |-> hist'[t]]
    BY <2>1 DEF Step, Eligible, Route, Escalate,
       Advance, Reserve, OverBudget, OverDay, Send, Answer, ProviderFails,
       Complete, CompleteFails, Valid, Unreadable, Invalid, Fail, Cool, DbError,
       Try, shared, Finish, Leave, NextTry, Shaped
  <2>2. ASSUME NEW u \in Task, (\E f \in SUBSET Families : Classify(u, f)) \/ Cancel(u)
        PROVE  hist' = [t \in Task |-> hist'[t]]
    BY <2>2 DEF Classify, Cancel, Try, shared, Finish, Shaped
  <2>. QED
    BY <2>1, <2>2 DEF Next, Expire, CoolByOthers, Shaped, vars
<1>3. row' = [t \in Task |-> row'[t]] /\ sent' = [t \in Task |-> sent'[t]]
  BY ZenonT(40) DEF Next, Classify, Step, Eligible, Route, Escalate, Advance, Reserve,
         OverBudget, OverDay, Send, Answer, ProviderFails, Complete,
         CompleteFails, Valid, Unreadable, Invalid, Fail, Cool, DbError, Cancel,
         Expire, CoolByOthers, Close, SetRow, ledger, Shaped, vars
<1>. QED
  BY <1>0, <1>1, <1>2, <1>3, <1>4

\* A step of the system: of one task; or every task rests, and the cooldowns
\* that its history remembers are still there.
LEMMA Steps ==
  ASSUME Shaped, [Next]_vars
  PROVE  \/ \E t \in Task : /\ Does(t) /\ cooling \subseteq cooling'
                            /\ \A u \in Task \ {t} : Rests(u) /\ SameHist(u)
         \/ \A t \in Task :
              /\ Rests(t)
              /\ \/ hist'[t] = hist[t] /\ cooling \subseteq cooling'
                 \/ \E m : /\ hist'[t] = [hist[t] EXCEPT !.cold = @ \ {m}]
                           /\ cooling' = cooling \ {m}
<1>1. ASSUME NEW m \in Model, Expire(m)
      PROVE  \A t \in Task : /\ Rests(t) /\ cooling' = cooling \ {m}
                             /\ hist'[t] = [hist[t] EXCEPT !.cold = @ \ {m}]
  BY <1>1 DEF Expire, ledger, Rests, Keeps
<1>2. ASSUME NEW m \in Model, CoolByOthers(m)
      PROVE  \A t \in Task : Rests(t) /\ hist' = hist /\ cooling \subseteq cooling'
  BY <1>2 DEF CoolByOthers, ledger, Rests, Keeps
<1>3. ASSUME UNCHANGED vars
      PROVE  \A t \in Task : Rests(t) /\ hist' = hist /\ cooling \subseteq cooling'
  BY <1>3 DEF vars, Rests, Keeps
<1>. QED
  BY <1>1, <1>2, <1>3, StepDoes, StepOthers DEF Next

\* The local variables of a task after its step.
Shape(t) ==
  /\ pc'[t] \in PC
  /\ row'[t] \in {"none", "reserved"} \cup R!Settled
  /\ sent'[t] \in BOOLEAN
  /\ result'[t] \in {"none", "article", "fallback", "raised"}
  /\ \E S, T, W : job'[t] \in Job(S, T, W)
  /\ \E S, T : hist'[t] \in [cold : S, tried : T, calls : Nat]

LEMMA SeqWider ==
  ASSUME NEW S, NEW T, NEW s \in Seq(S), S \subseteq T
  PROVE  s \in Seq(T)
OBVIOUS

LEMMA JobFields ==
  ASSUME NEW S, NEW T, NEW W, NEW j \in Job(S, T, W)
  PROVE  /\ \A b \in BOOLEAN : /\ [j EXCEPT !.escalating = b] \in Job(S, T, W)
                               /\ [j EXCEPT !.escalated = b] \in Job(S, T, W)
         /\ \A n \in Nat \ {0} : /\ [j EXCEPT !.pos = n] \in Job(S, T, W)
                                 /\ [j EXCEPT !.attempt = n] \in Job(S, T, W)
         /\ [j EXCEPT !.attempt = 1] \in Job(S, T, W)
         /\ \A n \in Nat : [j EXCEPT !.fails = n] \in Job(S, T, W)
BY DEF Job

LEMMA NoJobIsJob == NoJob \in Job({}, {NoJob.todo}, {NoJob.why})
<1>1. <<>> \in Seq({})
  OBVIOUS
<1>. QED
  BY <1>1 DEF NoJob, Job, Lanes

LEMMA DoesShape == ASSUME Shaped, NEW t \in Task, Does(t) PROVE Shape(t)
<1>0. PICK S, T, W : job[t] \in Job(S, T, W)
  BY DEF Shaped
<1>1. PICK C, M : hist[t] \in [cold : C, tried : M, calls : Nat]
  BY DEF Shaped
<1>2. pc'[t] \in PC /\ result'[t] \in {"none", "article", "fallback", "raised"}
  BY DEF Does, Starts, Filters, Routes, Stops, Escalates, Advances, Reserves,
         Refused, Sends, Goes, Retries, Leaves, Moves, PC, Shaped
<1>5. /\ row'[t] \in {"none", "reserved"} \cup R!Settled
      /\ sent'[t] \in BOOLEAN
  <2>1. Keeps(t) => row'[t] = row[t] /\ sent'[t] = sent[t]
    BY DEF Keeps
  <2>2. Closes(t, "completed") \/ Closes(t, "failed") =>
          row'[t] \in {row[t], "completed", "failed"} /\ sent'[t] = sent[t]
    BY DEF Closes
  <2>3. \/ row'[t] \in {row[t], "completed", "failed", "none", "reserved"}
           /\ sent'[t] \in {sent[t], TRUE, FALSE}
    BY <2>1, <2>2 DEF Does, Starts, Filters, Routes, Stops, Escalates, Advances,
       Reserves, Refused, Sends, Goes, Retries, Leaves
  <2>. QED
    BY <2>3 DEF Shaped, R!Settled
<1>3. \E C1, M1 : hist'[t] \in [cold : C1, tried : M1, calls : Nat]
  <2>1. CASE SameHist(t)
    BY <1>1, <2>1 DEF SameHist
  <2>2. CASE Starts(t)
    <3>1. hist'[t] \in [cold : {cooling}, tried : {{}}, calls : Nat]
      BY <2>2 DEF Starts
    <3>. QED
      BY <3>1
  <2>3. CASE Reserves(t) \/ Refused(t)
    <3>1. hist'[t] \in [cold : C, tried : {hist[t].tried \cup {Ref(t)}}, calls : Nat]
      BY <1>1, <2>3 DEF Reserves, Refused
    <3>. QED
      BY <3>1
  <2>4. CASE Sends(t)
    <3>1. hist'[t] \in [cold : C, tried : M, calls : Nat]
      BY <1>1, <2>4 DEF Sends
    <3>. QED
      BY <3>1
  <2>. QED
    BY <2>1, <2>2, <2>3, <2>4
       DEF Does, Filters, Routes, Stops, Escalates, Advances, Goes, Retries, Leaves
<1>4. \E S1, T1, W1 : job'[t] \in Job(S1, T1, W1)
  <2>1. CASE job'[t] \in {job[t], NoJob}
    BY <1>0, <2>1, NoJobIsJob
  <2>2. CASE Starts(t)
    <3>1. <<>> \in Seq({})
      OBVIOUS
    <3>2. job'[t] = [lane |-> job'[t].lane, todo |-> job'[t].todo, chain |-> <<>>,
                     pos |-> 1, escalating |-> FALSE, escalated |-> FALSE,
                     attempt |-> 1, fails |-> 0, why |-> "none"]
      BY <2>2 DEF Starts, NoJob
    <3>3. job'[t].lane \in Lanes
      BY <2>2 DEF Starts
    <3>4. job'[t] \in Job({}, {job'[t].todo}, {"none"})
      <4>1. [lane |-> job'[t].lane, todo |-> job'[t].todo, chain |-> <<>>,
             pos |-> 1, escalating |-> FALSE, escalated |-> FALSE,
             attempt |-> 1, fails |-> 0, why |-> "none"]
            \in Job({}, {job'[t].todo}, {"none"})
        BY <3>1, <3>3 DEF Job
      <4>. QED
        BY <3>2, <4>1
    <3>. QED
      BY <3>4
  <2>3. CASE Filters(t)
    <3>. DEFINE r == Head(job[t].todo)
    <3>1. CASE job'[t] = [job[t] EXCEPT !.todo = job'[t].todo]
      <4>1. job'[t] \in Job(S, {job'[t].todo}, W)
        BY <1>0, <3>1 DEF Job
      <4>. QED
        BY <4>1
    <3>2. CASE job'[t] = [job[t] EXCEPT !.todo = job'[t].todo,
                                        !.chain = Append(@, r)]
      <4>1. job[t].chain \in Seq(S \cup {r})
        BY <1>0, SeqWider DEF Job
      <4>2. Append(job[t].chain, r) \in Seq(S \cup {r})
        BY <4>1
      <4>3. job'[t] \in Job(S \cup {r}, {job'[t].todo}, W)
        BY <1>0, <3>2, <4>2 DEF Job
      <4>. QED
        BY <4>3
    <3>. QED
      BY <2>3, <3>1, <3>2 DEF Filters
  <2>4. CASE Escalates(t) \/ Advances(t)
    <3>0. job[t].pos + 1 \in Nat \ {0}
      BY <1>0 DEF Job
    <3>1. job'[t] \in Job(S, T, W)
      <4>1. CASE Escalates(t)
        <5>. DEFINE a == [job[t] EXCEPT !.escalating = TRUE]
                    b == [a EXCEPT !.escalated = TRUE]
                    c == [b EXCEPT !.attempt = 1]
        <5>1. a \in Job(S, T, W)
          BY <1>0, JobFields
        <5>2. b \in Job(S, T, W)
          BY <5>1, JobFields
        <5>3. c \in Job(S, T, W)
          BY <5>2, JobFields
        <5>4. [c EXCEPT !.fails = 0] \in Job(S, T, W)
          BY <5>3, JobFields
        <5>. QED
          BY <4>1, <5>4 DEF Escalates
      <4>2. CASE Advances(t)
        <5>. DEFINE a == [job[t] EXCEPT !.pos = @ + 1]
                    b == [a EXCEPT !.escalating = FALSE]
                    c == [b EXCEPT !.attempt = 1]
        <5>1. a \in Job(S, T, W)
          BY <1>0, <3>0, JobFields
        <5>2. b \in Job(S, T, W)
          BY <5>1, JobFields
        <5>3. c \in Job(S, T, W)
          BY <5>2, JobFields
        <5>4. [c EXCEPT !.fails = 0] \in Job(S, T, W)
          BY <5>3, JobFields
        <5>. QED
          BY <4>2, <5>4 DEF Advances
      <4>. QED
        BY <2>4, <4>1, <4>2
    <3>. QED
      BY <3>1
  <2>5. CASE SameJob(t)
    <3>1. job'[t] \in Job(S, T, {job'[t].why})
      BY <1>0, <2>5 DEF SameJob, Job
    <3>. QED
      BY <3>1
  <2>6. CASE Retries(t)
    <3>0. job[t].attempt + 1 \in Nat \ {0} /\ job'[t].fails \in Nat
      BY <1>0, <2>6 DEF Retries, Job
    <3>1. job'[t] \in Job(S, T, W)
      BY <1>0, <2>6, <3>0 DEF Retries, Job
    <3>. QED
      BY <3>1
  <2>. QED
    BY <2>1, <2>2, <2>3, <2>4, <2>5, <2>6
       DEF Does, Routes, Stops, Reserves, Refused, Sends, Goes, Leaves
<1>. QED
  BY <1>2, <1>3, <1>4, <1>5 DEF Shape

LEMMA InvShaped == ASSUME Shaped, [Next]_vars PROVE Shaped'
<1>1. ASSUME NEW t \in Task, Rests(t), SameHist(t) PROVE Shape(t)
  BY <1>1 DEF Rests, SameHist, Keeps, Shape, Shaped
<1>2. ASSUME NEW t \in Task, Rests(t), NEW m,
             hist'[t] = [hist[t] EXCEPT !.cold = @ \ {m}]
      PROVE  Shape(t)
  <2>1. PICK C, M : hist[t] \in [cold : C, tried : M, calls : Nat]
    BY DEF Shaped
  <2>2. hist'[t] \in [cold : {hist[t].cold \ {m}}, tried : M, calls : Nat]
    BY <1>2, <2>1
  <2>3. \E S, T : hist'[t] \in [cold : S, tried : T, calls : Nat]
    BY <2>2
  <2>. QED
    BY <1>2, <2>3 DEF Rests, Keeps, Shape, Shaped
<1>3. \A t \in Task : Shape(t)
  BY <1>1, <1>2, Steps, DoesShape DEF SameHist
<1>. QED
  BY <1>3, Functions DEF Shape, Shaped

-----------------------------------------------------------------------------
(* The invariant is inductive: the parts of a task that moves. *)

LEMMA DoesTidy ==
  ASSUME Shaped, NEW t \in Task, Does(t), Tidy(t)
  PROVE  Tidy(t)'
<1>. USE DEF Tidy, Moves, Keeps
<1>0. row[t] \in {"none", "reserved"} \cup R!Settled /\ sent[t] \in BOOLEAN
  BY DEF Shaped
<1>1. CASE Starts(t) \/ Filters(t) \/ Routes(t) \/ Stops(t)
  BY <1>1 DEF Starts, Filters, Routes, Stops
<1>2. CASE Escalates(t) \/ Advances(t) \/ Reserves(t) \/ Refused(t) \/ Sends(t)
  BY <1>2 DEF Escalates, Advances, Reserves, Refused, Sends
<1>3. CASE Goes(t)
  BY <1>3 DEF Goes, Closes
<1>4. CASE Retries(t)
  BY <1>4 DEF Retries, Closes
<1>5. CASE Leaves(t)
  BY <1>5 DEF Leaves, Closes
<1>. QED
  BY <1>1, <1>2, <1>3, <1>4, <1>5 DEF Does

\* A step of the task is one of the reservation's protocol.
LEMMA DoesProtocol ==
  ASSUME Shaped, Shaped', NEW t \in Task, Does(t), Tidy(t),
         \A u \in Task \ {t} : Rests(u)
  PROVE  R!Next \/ UNCHANGED <<row, sent>>
<1>0. /\ row' = [row EXCEPT ![t] = row'[t]] /\ sent' = [sent EXCEPT ![t] = sent'[t]]
      /\ Keeps(t) => UNCHANGED <<row, sent>>
  BY DEF Shaped, Rests, Keeps
<1>1. CASE Keeps(t)
  BY <1>0, <1>1
<1>2. CASE Starts(t)
  <2>1. R!Begin(t)
    BY <1>0, <1>2 DEF Starts, R!Begin
  <2>. QED
    BY <2>1 DEF R!Next
<1>3. CASE Reserves(t)
  <2>1. R!Reserve(t)
    BY <1>0, <1>3 DEF Reserves, Moves, Tidy, R!Reserve
  <2>. QED
    BY <2>1 DEF R!Next
<1>4. CASE Sends(t)
  <2>1. row' = row
    BY <1>0, <1>4 DEF Sends, Shaped
  <2>2. R!Call(t)
    BY <1>0, <1>4, <2>1 DEF Sends, Moves, Tidy, R!Call
  <2>. QED
    BY <2>2 DEF R!Next
<1>5. ASSUME NEW s \in {"completed", "failed"}, Closes(t, s),
             s = "completed" => pc[t] = "complete"
      PROVE  R!Next \/ UNCHANGED <<row, sent>>
  <2>1. CASE row[t] # "reserved"
    BY <1>0, <1>5, <2>1 DEF Closes, Keeps
  <2>2. CASE row[t] = "reserved"
    <3>1. sent' = sent
      BY <1>0, <1>5 DEF Closes, Shaped
    <3>2. R!Settle(t, s)
      BY <1>0, <1>5, <2>2, <3>1 DEF Closes, Tidy, R!Settle
    <3>. QED
      BY <3>2 DEF R!Next, R!Settled
  <2>. QED
    BY <2>1, <2>2
<1>6. CASE Goes(t)
  BY <1>1, <1>5, <1>6 DEF Goes, Moves
<1>7. CASE Retries(t) \/ Leaves(t)
  BY <1>1, <1>5, <1>7 DEF Retries, Leaves
<1>. QED
  BY <1>1, <1>2, <1>3, <1>4, <1>6, <1>7
     DEF Does, Filters, Routes, Stops, Escalates, Advances, Refused

\* The job of a task that starts, or ends.
Fresh(t) ==
  /\ job'[t].chain = <<>> /\ job'[t].pos = 1 /\ job'[t].attempt = 1
  /\ ~job'[t].escalating /\ ~job'[t].escalated

LEMMA FreshJob ==
  ASSUME NEW t \in Task, Starts(t) \/ job'[t] = NoJob
  PROVE  Fresh(t)
<1>1. CASE job'[t] = NoJob
  BY <1>1 DEF NoJob, Fresh
<1>2. CASE Starts(t)
  BY <1>2 DEF Starts, NoJob, Fresh
<1>. QED
  BY <1>1, <1>2

LEMMA DoesPlaced ==
  ASSUME Shaped, NEW t \in Task, Does(t), Placed(t)
  PROVE  Placed(t)'
<1>. USE DEF Placed, Moves, Tries
<1>0. PICK S, T, W : job[t] \in Job(S, T, W)
  BY DEF Shaped
<1>00. /\ MaxAttempts \in Nat \ {0} /\ EscalationAttempts \in Nat \ {0}
       /\ job[t].pos \in Nat /\ job[t].attempt \in Nat /\ Len(job[t].chain) \in Nat
       /\ job[t].chain \in Seq(S)
  BY <1>0, RouterAssumption DEF RouterAssumption, Job
<1>1. CASE Starts(t) \/ (job'[t] = NoJob /\ pc'[t] = "idle")
  <2>1. Fresh(t) /\ pc'[t] \in {"idle", "filter"}
    BY <1>1, FreshJob DEF Starts
  <2>. QED
    BY <2>1 DEF Fresh
<1>2. CASE Filters(t)
  BY <1>0, <1>2 DEF Filters, Job
<1>3. CASE Routes(t)
  BY <1>00, <1>3 DEF Routes
<1>4. CASE Escalates(t)
  BY <1>0, <1>00, <1>4 DEF Escalates, Job
<1>5. CASE Advances(t)
  BY <1>0, <1>00, <1>5 DEF Advances, Job
<1>6. CASE Reserves(t) \/ Sends(t)
  BY <1>6 DEF Reserves, Sends
<1>7. CASE Refused(t) \/ Goes(t)
  BY <1>0, <1>7 DEF Refused, Goes, SameJob, Job
<1>8. CASE Retries(t)
  <2>1. /\ job'[t].chain = job[t].chain /\ job'[t].pos = job[t].pos
        /\ job'[t].escalating = job[t].escalating
        /\ job'[t].escalated = job[t].escalated
        /\ job'[t].attempt = job[t].attempt + 1
        /\ pc[t] \in {"parse", "fail"} /\ pc'[t] = "reserve"
    BY <1>0, <1>8 DEF Retries, Job
  <2>2. job[t].attempt # Tries(t) /\ job[t].attempt <= Tries(t)
    BY <1>8, <2>1 DEF Retries, LastTry
  <2>3. Tries(t) \in Nat
    BY <1>00
  <2>4. job[t].attempt + 1 <= Tries(t)
    BY <1>00, <2>2, <2>3
  <2>. QED
    BY <2>1, <2>4
<1>. QED
  BY <1>1, <1>2, <1>3, <1>4, <1>5, <1>6, <1>7, <1>8 DEF Does, Stops, Leaves

LEMMA DoesOffered ==
  ASSUME Shaped, NEW t \in Task, Does(t), Offered(t)
  PROVE  Offered(t)'
<1>0. PICK S, T, W : job[t] \in Job(S, T, W)
  BY DEF Shaped
<1>1. CASE Starts(t)
  <2>1. job'[t].chain = <<>>
    BY <1>1, FreshJob DEF Fresh
  <2>. QED
    BY <1>1, <2>1 DEF Starts, Offered
<1>2. CASE Filters(t)
  <2>0. job[t].todo \in Seq(Refs) /\ job[t].chain \in Seq(Refs)
    BY DEF Offered
  <2>1. job'[t].todo \in Seq(Refs) /\ Head(job[t].todo) \in Refs
    BY <1>2, <2>0 DEF Filters
  <2>2. job'[t].chain \in {job[t].chain, Append(job[t].chain, Head(job[t].todo))}
    BY <1>0, <1>2 DEF Filters, Job
  <2>3. Append(job[t].chain, Head(job[t].todo)) \in Seq(Refs)
    BY <2>0, <2>1
  <2>. QED
    BY <2>0, <2>1, <2>2, <2>3 DEF Offered
<1>3. CASE job'[t] = NoJob
  BY <1>3 DEF NoJob, Offered
<1>4. CASE \/ Routes(t) \/ Escalates(t) \/ Advances(t) \/ Reserves(t)
           \/ Refused(t) \/ Sends(t) \/ Goes(t) \/ Retries(t)
  <2>1. job'[t].todo = job[t].todo /\ job'[t].chain = job[t].chain
    BY <1>0, <1>4 DEF Routes, Escalates, Advances, Reserves, Refused, Sends,
       Goes, Retries, SameJob, Job
  <2>. QED
    BY <2>1 DEF Offered
<1>. QED
  BY <1>1, <1>2, <1>3, <1>4 DEF Does, Stops, Leaves

\* A model that is put on cooldown is one of a chain, or the escalation's.
LEMMA InvKnown ==
  ASSUME Shaped, Known, \A t \in Task : Placed(t) /\ Offered(t), [Next]_vars
  PROVE  Known'
<1>1. ASSUME NEW t \in Task, pc[t] = "cool" PROVE Ref(t).model \in Model
  <2>1. PICK S, T, W : job[t] \in Job(S, T, W)
    BY DEF Shaped
  <2>2. job[t].pos \in 1..Len(job[t].chain)
    <3>1. job[t].pos \in Nat \ {0} /\ Len(job[t].chain) \in Nat
      BY <2>1 DEF Job
    <3>. QED
      BY <1>1, <3>1 DEF Placed
  <2>3. job[t].chain[job[t].pos] \in Refs
    BY <2>2 DEF Offered
  <2>4. Head(ComplexRefs) \in Refs
    BY RouterAssumption DEF RouterAssumption
  <2>. QED
    BY <2>3, <2>4 DEF Ref, Model
<1>2. ASSUME NEW t \in Task, Step(t) PROVE cooling' \in SUBSET Model
  <2>1. cooling' = cooling \/ (pc[t] = "cool" /\ SetCooldown(t))
    BY <1>2 DEF Step, Eligible, Route, Escalate, Advance, Reserve, OverBudget,
       OverDay, Send, Answer, ProviderFails, Complete, CompleteFails, Valid,
       Unreadable, Invalid, Fail, Cool, DbError, shared
  <2>. QED
    BY <1>1, <2>1 DEF SetCooldown, Known
<1>3. cooling' \in SUBSET Model
  BY ZenonT(40), <1>2 DEF Next, Classify, Cancel, Expire, CoolByOthers, shared, vars, Known
<1>4. config' = config
  BY ZenonT(40) DEF Next, Classify, Step, Eligible, Route, Escalate, Advance, Reserve,
     OverBudget, OverDay, Send, Answer, ProviderFails, Complete, CompleteFails,
     Valid, Unreadable, Invalid, Fail, Cool, DbError, Cancel, Expire,
     CoolByOthers, shared, vars
<1>. QED
  BY <1>3, <1>4 DEF Known

LEMMA DoesTried ==
  ASSUME Shaped, NEW t \in Task, Does(t), Placed(t), Tried(t)
  PROVE  Tried(t)'
<1>. USE DEF Tried, Moves
<1>0. PICK S, T, W : job[t] \in Job(S, T, W)
  BY DEF Shaped
<1>00. PICK C, M : hist[t] \in [cold : C, tried : M, calls : Nat]
  BY DEF Shaped
<1>01. /\ job[t].pos \in Nat \ {0} /\ job[t].attempt \in Nat \ {0}
       /\ job[t].chain \in Seq(S) /\ Len(job[t].chain) \in Nat
  BY <1>0 DEF Job
<1>1. CASE Starts(t) \/ (job'[t] = NoJob /\ pc'[t] = "idle")
  <2>1. Fresh(t) /\ pc'[t] \in {"idle", "filter"}
    BY <1>1, FreshJob DEF Starts
  <2>. QED
    BY <2>1 DEF Fresh
<1>2. CASE Filters(t)
  <2>1. /\ job'[t].pos = 1 /\ job'[t].attempt = 1 /\ ~job'[t].escalating
        /\ pc'[t] = "filter"
    BY <1>0, <1>2 DEF Filters, Job, Placed
  <2>2. Len(job'[t].chain) \in Nat
    BY <1>01, <1>0, <1>2 DEF Filters, Job
  <2>. QED
    BY <2>1, <2>2
<1>3. CASE Routes(t)
  BY <1>3 DEF Routes, SameHist, Placed
<1>4. CASE Escalates(t)
  <2>1. /\ job'[t].pos = job[t].pos /\ job'[t].chain = job[t].chain
        /\ hist'[t] = hist[t] /\ pc[t] = "next"
    BY <1>0, <1>4 DEF Escalates, Job, SameHist
  <2>. QED
    BY <2>1
<1>5. CASE Advances(t)
  <2>1. /\ job'[t].pos = job[t].pos + 1 /\ job'[t].chain = job[t].chain
        /\ hist'[t] = hist[t] /\ pc[t] = "next" /\ pc'[t] = "reserve"
        /\ ~job'[t].escalating /\ job'[t].attempt = 1
    BY <1>0, <1>5 DEF Advances, Job, SameHist
  <2>2. ASSUME NEW i \in 1..Len(job[t].chain), i < job[t].pos + 1
        PROVE  job[t].chain[i] \in hist[t].tried
    <3>1. i < job[t].pos \/ i = job[t].pos
      BY <1>01, <2>2
    <3>. QED
      BY <2>1, <3>1
  <2>. QED
    BY <2>1, <2>2
<1>6. CASE Reserves(t) \/ Refused(t)
  <2>1. /\ job'[t].pos = job[t].pos /\ job'[t].chain = job[t].chain
        /\ job'[t].escalating = job[t].escalating /\ pc[t] = "reserve"
        /\ job'[t].attempt = job[t].attempt
    BY <1>0, <1>6 DEF Reserves, Refused, SameJob, Job
  <2>2. hist'[t].tried = hist[t].tried \cup {Ref(t)}
    BY <1>00, <1>6 DEF Reserves, Refused
  <2>3. job[t].escalating \/ Ref(t) = job[t].chain[job[t].pos]
    BY DEF Ref
  <2>. QED
    BY <2>1, <2>2, <2>3
<1>7. CASE Sends(t) \/ Goes(t) \/ Retries(t)
  <2>1. /\ job'[t].pos = job[t].pos /\ job'[t].chain = job[t].chain
        /\ pc[t] \notin {"idle", "filter", "reserve"}
    BY <1>0, <1>7 DEF Sends, Goes, Retries, SameJob, Job
  <2>2. hist'[t].tried = hist[t].tried
    BY <1>00, <1>7 DEF Sends, Goes, Retries, SameHist
  <2>. QED
    BY <2>1, <2>2
<1>. QED
  BY <1>1, <1>2, <1>3, <1>4, <1>5, <1>6, <1>7 DEF Does, Stops, Leaves

LEMMA DoesCold ==
  ASSUME Shaped, NEW t \in Task, Does(t), cooling \subseteq cooling', Cold(t)
  PROVE  Cold(t)'
<1>. USE DEF Cold, Moves
<1>0. PICK S, T, W : job[t] \in Job(S, T, W)
  BY DEF Shaped
<1>00. PICK C, M : hist[t] \in [cold : C, tried : M, calls : Nat]
  BY DEF Shaped
<1>1. CASE Starts(t)
  <2>1. Fresh(t)
    BY <1>1, FreshJob
  <2>2. hist'[t].cold = cooling
    BY <1>1 DEF Starts
  <2>. QED
    BY <2>1, <2>2 DEF Fresh
<1>2. ASSUME ~Starts(t) PROVE hist'[t].cold = hist[t].cold
  BY <1>00, <1>2 DEF Does, Filters, Routes, Stops, Escalates, Advances, Reserves,
     Refused, Sends, Goes, Retries, Leaves, SameHist
<1>3. CASE Filters(t)
  <2>1. /\ job'[t].escalating = job[t].escalating /\ pc[t] # "idle"
        /\ hist'[t].cold = hist[t].cold
    BY <1>0, <1>2, <1>3 DEF Filters, Job, Starts
  <2>2. CASE job'[t].chain = job[t].chain
    BY <2>1, <2>2
  <2>3. CASE job'[t].chain # job[t].chain
    <3>. DEFINE r == Head(job[t].todo)
    <3>1. job'[t].chain = Append(job[t].chain, r) /\ r.model \notin cooling
      BY <1>0, <1>3, <2>3 DEF Filters, Job
    <3>2. job[t].chain \in Seq(S \cup {r})
      BY <1>0, SeqWider DEF Job
    <3>3. ASSUME NEW i \in 1..Len(job'[t].chain)
          PROVE  job'[t].chain[i] = r \/
                 (i \in 1..Len(job[t].chain) /\ job'[t].chain[i] = job[t].chain[i])
      BY <3>1, <3>2, <3>3
    <3>4. r.model \notin hist[t].cold
      BY <3>1
    <3>. QED
      BY <2>1, <3>3, <3>4
  <2>. QED
    BY <2>2, <2>3
<1>4. CASE Escalates(t)
  <2>1. /\ job'[t].chain = job[t].chain /\ hist'[t].cold = hist[t].cold
        /\ Head(ComplexRefs).model \notin cooling /\ pc[t] # "idle"
    BY <1>0, <1>2, <1>4 DEF Escalates, Job, Starts
  <2>. QED
    BY <2>1
<1>5. CASE \/ Routes(t) \/ Advances(t) \/ Reserves(t) \/ Refused(t)
           \/ Sends(t) \/ Goes(t) \/ Retries(t)
  <2>1. /\ job'[t].chain = job[t].chain /\ hist'[t].cold = hist[t].cold
        /\ job'[t].escalating => job[t].escalating
        /\ pc[t] # "idle"
    BY <1>0, <1>2, <1>5 DEF Routes, Advances, Reserves, Refused, Sends, Goes,
       Retries, SameJob, Job, Starts
  <2>. QED
    BY <2>1
<1>6. CASE Stops(t) \/ Leaves(t)
  BY <1>2, <1>6 DEF Stops, Leaves, Starts
<1>. QED
  BY <1>1, <1>3, <1>4, <1>5, <1>6 DEF Does

\* One model more is MaxAttempts calls more.
LEMMA Times ==
  ASSUME NEW a \in Nat, NEW b \in Nat
  PROVE  a * b \in Nat /\ a * (b + 1) = a * b + a
OBVIOUS

LEMMA TimesMonotonic ==
  ASSUME NEW a \in Nat, NEW b \in Nat, NEW c \in Nat, b <= c
  PROVE  a * b <= a * c
<1>1. PICK d \in Nat : c = b + d
  BY c - b \in Nat, c = b + (c - b)
<1>2. a * (b + d) = a * b + a * d /\ a * d \in Nat /\ a * b \in Nat
  OBVIOUS
<1>. QED
  BY <1>1, <1>2

LEMMA DoesPaid ==
  ASSUME Shaped, NEW t \in Task, Does(t), Placed(t), Paid(t)
  PROVE  Paid(t)'
<1>. USE DEF Moves
<1>0. PICK S, T, W : job[t] \in Job(S, T, W)
  BY DEF Shaped
<1>00. PICK C, M : hist[t] \in [cold : C, tried : M, calls : Nat]
  BY DEF Shaped
<1>. DEFINE p == job[t].pos - 1
            base == MaxAttempts * p
<1>01. /\ job[t].pos \in Nat \ {0} /\ job[t].attempt \in Nat \ {0}
       /\ hist[t].calls \in Nat /\ p \in Nat /\ job[t].pos = p + 1
       /\ MaxAttempts \in Nat \ {0} /\ EscalationAttempts \in Nat \ {0}
       /\ job[t].escalating \in BOOLEAN /\ job[t].escalated \in BOOLEAN
  BY <1>0, <1>00, RouterAssumption DEF RouterAssumption, Job
<1>02. base \in Nat /\ MaxAttempts * job[t].pos = base + MaxAttempts
  BY <1>01, Times
<1>. HIDE DEF p, base
<1>1. CASE Starts(t) \/ (job'[t] = NoJob /\ pc'[t] = "idle")
  BY <1>1 DEF Starts, Paid
<1>2. CASE Filters(t)
  BY <1>2 DEF Filters, Paid, SameHist
<1>3. CASE Routes(t)
  <2>1. /\ job'[t].pos = 1 /\ job'[t].attempt = 1 /\ ~job'[t].escalating
        /\ ~job'[t].escalated /\ hist'[t].calls = 0 /\ pc'[t] = "reserve"
    BY <1>3 DEF Routes, Placed, Paid, SameHist
  <2>2. MaxAttempts * (1 - 1) = 0
    BY <1>01
  <2>. QED
    BY <2>1, <2>2 DEF Paid, Used
\* The bound before the step.
<1>4. ASSUME pc[t] \notin {"idle", "filter"}
      PROVE  /\ hist[t].calls <= base + (IF job[t].escalating
                THEN MaxAttempts + Used(t)
                ELSE Used(t) + (IF job[t].escalated THEN EscalationAttempts ELSE 0))
             /\ Used(t) \in Nat /\ Used(t) <= job[t].attempt
             /\ job[t].escalating => job[t].escalated
             /\ job[t].attempt <= IF job[t].escalating THEN EscalationAttempts
                                                      ELSE MaxAttempts
  BY <1>01, <1>4 DEF Paid, Placed, Tries, Used, p, base
<1>5. CASE Escalates(t)
  <2>1. /\ job'[t].pos = job[t].pos /\ job'[t].attempt = 1 /\ job'[t].escalating
        /\ ~job[t].escalating /\ ~job[t].escalated
        /\ hist'[t] = hist[t] /\ pc[t] = "next" /\ pc'[t] = "reserve"
    BY <1>0, <1>5 DEF Escalates, Job, SameHist
  <2>2. Used(t)' = 0
    BY <2>1 DEF Used
  <2>3. hist[t].calls <= base + MaxAttempts
    BY <1>01, <1>02, <1>4, <2>1
  <2>4. hist'[t].calls <= base + (MaxAttempts + Used(t)')
    BY <1>01, <1>02, <2>1, <2>2, <2>3
  <2>. QED
    BY <2>1, <2>4 DEF Paid, p, base
<1>6. CASE Advances(t)
  <2>1. /\ job'[t].pos = job[t].pos + 1 /\ job'[t].attempt = 1
        /\ job'[t].escalated = job[t].escalated /\ ~job'[t].escalating
        /\ hist'[t] = hist[t] /\ pc[t] = "next" /\ pc'[t] = "reserve"
    BY <1>0, <1>6 DEF Advances, Job, SameHist
  <2>2. Used(t)' = 0 /\ job'[t].pos - 1 = job[t].pos
    BY <1>01, <2>1 DEF Used
  <2>3. hist[t].calls <= (base + MaxAttempts)
          + (IF job[t].escalated THEN EscalationAttempts ELSE 0)
    BY <1>01, <1>02, <1>4, <2>1
  <2>. QED
    BY <1>01, <1>02, <2>1, <2>2, <2>3 DEF Paid
<1>7. CASE Sends(t)
  <2>1. /\ job'[t] = job[t] /\ hist'[t].calls = hist[t].calls + 1
        /\ pc[t] = "call" /\ pc'[t] = "answer"
    BY <1>00, <1>7 DEF Sends
  <2>2. Used(t)' = Used(t) + 1
    BY <1>01, <2>1 DEF Used
  <2>3. hist'[t].calls <= base + (IF job[t].escalating
           THEN MaxAttempts + Used(t)'
           ELSE Used(t)' + (IF job[t].escalated THEN EscalationAttempts ELSE 0))
    BY <1>01, <1>02, <1>4, <2>1, <2>2
  <2>. QED
    BY <2>1, <2>3 DEF Paid, p, base
<1>8. CASE Reserves(t) \/ Refused(t) \/ Goes(t) \/ Retries(t)
  <2>1. /\ job'[t].pos = job[t].pos /\ job'[t].escalating = job[t].escalating
        /\ job'[t].escalated = job[t].escalated
        /\ pc[t] \notin {"idle", "filter"} /\ pc'[t] \notin {"idle", "filter"}
    BY <1>0, <1>8 DEF Reserves, Refused, Goes, Retries, SameJob, Job
  <2>2. hist'[t].calls = hist[t].calls
    BY <1>00, <1>8 DEF Reserves, Refused, Goes, Retries, SameHist
  <2>3. Used(t)' \in Nat /\ Used(t)' >= Used(t)
    <3>1. CASE Retries(t)
      <4>1. /\ job'[t].attempt = job[t].attempt + 1 /\ pc'[t] = "reserve"
            /\ pc[t] \in {"parse", "fail"}
        BY <1>0, <3>1 DEF Retries, Job
      <4>. QED
        BY <1>01, <4>1 DEF Used
    <3>2. CASE ~Retries(t)
      <4>1. /\ job'[t].attempt = job[t].attempt
            /\ pc[t] = "call" => pc'[t] = "call"
            /\ pc'[t] \in {"reserve", "call"} => pc[t] \in {"reserve", "call"}
        BY <1>0, <1>8, <3>2 DEF Reserves, Refused, Goes, SameJob, Job
      <4>. QED
        BY <1>01, <4>1 DEF Used
    <3>. QED
      BY <3>1, <3>2
  <2>4. hist'[t].calls <= base + (IF job[t].escalating
           THEN MaxAttempts + Used(t)'
           ELSE Used(t)' + (IF job[t].escalated THEN EscalationAttempts ELSE 0))
    BY <1>01, <1>02, <1>4, <2>1, <2>2, <2>3
  <2>. QED
    BY <2>1, <2>4 DEF Paid, p, base
<1>. QED
  BY <1>1, <1>2, <1>3, <1>5, <1>6, <1>7, <1>8 DEF Does, Stops, Leaves

-----------------------------------------------------------------------------
(* The whole invariant. *)

LEMMA InitInv == Init => Inv
<1>. SUFFICES ASSUME Init PROVE Inv
  OBVIOUS
<1>1. \A t \in Task : /\ job[t] = NoJob /\ hist[t] = NoHist /\ pc[t] = "idle"
                      /\ row[t] = "none"
  BY DEF Init
<1>2. NoHist \in [cold : {{}}, tried : {{}}, calls : Nat]
  BY DEF NoHist
<1>3. \A t \in Task : /\ \E S, T, W : job[t] \in Job(S, T, W)
                      /\ \E S, T : hist[t] \in [cold : S, tried : T, calls : Nat]
  <2>1. \E S, T, W : NoJob \in Job(S, T, W)
    BY NoJobIsJob
  <2>2. \E S, T : NoHist \in [cold : S, tried : T, calls : Nat]
    BY <1>2
  <2>. QED
    BY <1>1, <2>1, <2>2
<1>4. Shaped
  BY <1>3 DEF Init, Shaped, PC
<1>5. ASSUME NEW t \in Task PROVE Parts(t)
  <2>1. Tidy(t) /\ Paid(t)
    BY <1>1 DEF Tidy, Paid
  <2>2. /\ job[t].pos = 1 /\ job[t].attempt = 1 /\ ~job[t].escalating
        /\ ~job[t].escalated /\ job[t].chain = <<>> /\ hist[t].cold = {}
    BY <1>1 DEF NoJob, NoHist
  <2>3. Placed(t) /\ Cold(t)
    BY <1>1, <2>2 DEF Placed, Cold
  <2>5. Offered(t)
    <3>1. job[t].todo = <<>> /\ job[t].chain = <<>> /\ <<>> \in Seq(Refs)
      BY <1>1 DEF NoJob
    <3>. QED
      BY <3>1 DEF Offered
  <2>4. Tried(t)
    BY <1>1, <2>2 DEF Tried
  <2>. QED
    BY <2>1, <2>3, <2>4, <2>5 DEF Parts
<1>6. Known
  BY DEF Init, Known
<1>. QED
  BY <1>4, <1>5, <1>6 DEF Inv

\* A task that rests keeps its part, also when a cooldown ends or begins.
LEMMA RestsParts ==
  ASSUME Shaped, NEW t \in Task, Rests(t),
         Parts(t),
         \/ hist'[t] = hist[t] /\ cooling \subseteq cooling'
         \/ \E m : /\ hist'[t] = [hist[t] EXCEPT !.cold = @ \ {m}]
                   /\ cooling' = cooling \ {m}
  PROVE  Parts(t)'
<1>. USE DEF Parts
<1>1. PICK C, M : hist[t] \in [cold : C, tried : M, calls : Nat]
  BY DEF Shaped
<1>2. /\ hist'[t].tried = hist[t].tried /\ hist'[t].calls = hist[t].calls
      /\ hist'[t].cold \subseteq hist[t].cold /\ hist'[t].cold \subseteq cooling'
  BY <1>1 DEF Cold
<1>3. Tidy(t)'
  BY DEF Tidy, Rests, Keeps
<1>4. Placed(t)'
  BY DEF Placed, Tries, Rests
<1>5. Tried(t)'
  BY <1>2 DEF Tried, Rests
<1>6. Cold(t)'
  BY <1>2 DEF Cold, Rests
<1>7. Paid(t)'
  BY <1>2 DEF Paid, Used, Rests
<1>8. Offered(t)'
  BY DEF Offered, Rests
<1>. QED
  BY <1>3, <1>4, <1>5, <1>6, <1>7, <1>8 DEF Parts

LEMMA Inductive == ASSUME Inv, [Next]_vars PROVE Inv'
<1>0. Shaped /\ Shaped'
  BY InvShaped DEF Inv
<1>1. ASSUME NEW t \in Task
      PROVE  Parts(t)'
  <2>0. Parts(t)
    BY DEF Inv
  <2>1. ASSUME Does(t), cooling \subseteq cooling'
        PROVE  Parts(t)'
    BY <1>0, <2>0, <2>1, DoesTidy, DoesPlaced, DoesOffered, DoesTried, DoesCold,
       DoesPaid DEF Parts
  <2>2. \/ Does(t) /\ cooling \subseteq cooling'
        \/ /\ Rests(t)
           /\ \/ hist'[t] = hist[t] /\ cooling \subseteq cooling'
              \/ \E m : /\ hist'[t] = [hist[t] EXCEPT !.cold = @ \ {m}]
                        /\ cooling' = cooling \ {m}
    BY <1>0, Steps DEF SameHist
  <2>. QED
    BY <1>0, <2>0, <2>1, <2>2, RestsParts
<1>2. Known'
  BY <1>0, InvKnown DEF Inv, Parts
<1>. QED
  BY <1>0, <1>1, <1>2 DEF Inv

\* Inv holds in every reachable state.
THEOREM Invariant == Spec => []Inv
BY InitInv, Inductive, PTL DEF Spec

-----------------------------------------------------------------------------
(* The properties. *)

\* For any number of consumers, chains and attempts: a task that left the
\* filter is at a model of its chain and within its attempts, and a model that
\* cools down is one of the lanes' (client.py _chain_for, _eligible, 543-614).
THEOREM TypeCorrect == Spec => []TypeOK
<1>1. ASSUME Inv PROVE TypeOK
  <2>1. ASSUME NEW t \in Task
        PROVE  /\ job[t].lane \in Lanes
               /\ pc[t] \notin {"idle", "filter"} => job[t].pos \in DOMAIN job[t].chain
               /\ job[t].attempt \in 1..Tries(t)
    <3>1. PICK S, T, W : job[t] \in Job(S, T, W)
      BY <1>1 DEF Inv, Shaped
    <3>2. /\ job[t].lane \in Lanes /\ job[t].pos \in Nat \ {0}
          /\ job[t].attempt \in Nat \ {0} /\ job[t].escalating \in BOOLEAN
          /\ job[t].chain \in Seq(S) /\ Len(job[t].chain) \in Nat
      BY <3>1 DEF Job
    <3>3. Tries(t) \in Nat \ {0}
      BY RouterAssumption DEF RouterAssumption, Tries
    <3>4. Placed(t)
      BY <1>1 DEF Inv, Parts
    <3>5. job[t].attempt <= Tries(t)
      BY <3>2, <3>3, <3>4 DEF Placed
    <3>6. pc[t] \notin {"idle", "filter"} => job[t].pos \in 1..Len(job[t].chain)
      BY <3>2, <3>4 DEF Placed
    <3>. QED
      BY <3>2, <3>3, <3>5, <3>6
  <2>2. {"none", "reserved"} \cup R!Settled
          \subseteq {"none", "reserved", "completed", "failed", "released"}
    BY DEF R!Settled
  <2>3. row \in [Task -> {"none", "reserved", "completed", "failed", "released"}]
    BY <1>1, <2>2 DEF Inv, Shaped
  <2>. QED
    BY <1>1, <2>1, <2>3 DEF Inv, Shaped, Known, TypeOK, Lanes
<1>. QED
  BY Invariant, <1>1, PTL

\* For any number of consumers, chains and attempts: each call is made under a
\* reservation of its own and settled once at most (client.py
\* _run_model_attempts uses quota.py by the protocol of Reservation).
THEOREM RefinesReservation == Spec => UsesReservations
<1>1. Init => R!Init
  BY DEF Init, R!Init
<1>2. ASSUME Inv, [Next]_vars PROVE [R!Next]_(R!rvars)
  <2>0. Shaped /\ Shaped' /\ \A t \in Task : Tidy(t)
    BY <1>2, InvShaped DEF Inv, Parts
  <2>1. CASE \A t \in Task : Rests(t)
    BY <2>0, <2>1 DEF Rests, Keeps, Shaped, R!rvars
  <2>2. ASSUME NEW t \in Task, Does(t), \A u \in Task \ {t} : Rests(u)
        PROVE  [R!Next]_(R!rvars)
    BY <2>0, <2>2, DoesProtocol DEF R!rvars
  <2>. QED
    BY <1>2, <2>0, <2>1, <2>2, Steps
<1>. QED
  BY <1>1, <1>2, Invariant, PTL DEF Spec, UsesReservations, R!Spec

\* Only an exception or a cancellation leaves a row reserved: no path from a
\* call to another attempt, model or result does (client.py
\* _run_model_attempts, _settle_failed_or_released).
THEOREM NothingLeftOpenHolds == Spec => []NothingLeftOpen
<1>1. ASSUME Inv PROVE NothingLeftOpen
  <2>1. ASSUME NEW t \in Task, row[t] = "reserved"
        PROVE  pc[t] \in {"call", "answer", "complete", "fail"} \/ result[t] = "raised"
    BY <1>1, <2>1 DEF Inv, Parts, Tidy, Shaped, PC
  <2>. QED
    BY <2>1 DEF NothingLeftOpen
<1>. QED
  BY <1>1, Invariant, PTL

\* Whatever the numbers of models and attempts, an article costs no more calls
\* than MaxAttempts for each model of its chain and one escalation.
THEOREM CallsBoundedHolds == Spec => []CallsBounded
<1>1. ASSUME Inv, NEW t \in Task, pc[t] # "idle"
      PROVE  hist[t].calls <= MaxAttempts * Len(job[t].chain) + EscalationAttempts
  <2>. DEFINE p == job[t].pos - 1
              len == Len(job[t].chain)
  <2>0. PICK S, T, W : job[t] \in Job(S, T, W)
    BY <1>1 DEF Inv, Parts, Shaped
  <2>00. PICK C, M : hist[t] \in [cold : C, tried : M, calls : Nat]
    BY <1>1 DEF Inv, Parts, Shaped
  <2>01. /\ job[t].pos \in Nat \ {0} /\ job[t].attempt \in Nat \ {0}
         /\ hist[t].calls \in Nat /\ p \in Nat /\ p + 1 = job[t].pos /\ len \in Nat
         /\ MaxAttempts \in Nat \ {0} /\ EscalationAttempts \in Nat \ {0}
         /\ job[t].escalating \in BOOLEAN /\ job[t].escalated \in BOOLEAN
    BY <2>0, <2>00, RouterAssumption DEF RouterAssumption, Job
  <2>1. CASE pc[t] = "filter"
    <3>1. hist[t].calls = 0 /\ MaxAttempts * len \in Nat
      BY <1>1, <2>1, <2>01, Times DEF Inv, Parts, Paid
    <3>. QED
      BY <2>01, <3>1
  <2>2. CASE pc[t] # "filter"
    <3>1. MaxAttempts * (p + 1) <= MaxAttempts * len
      <4>1. p + 1 <= len
        BY <1>1, <2>2, <2>01 DEF Inv, Parts, Placed
      <4>. QED
        BY <2>01, <4>1, TimesMonotonic, p + 1 \in Nat
    <3>2. /\ MaxAttempts * (p + 1) = MaxAttempts * p + MaxAttempts
          /\ MaxAttempts * p \in Nat /\ MaxAttempts * len \in Nat
      BY <2>01, Times
    <3>3. hist[t].calls <= MaxAttempts * p
            + (IF job[t].escalating THEN MaxAttempts + Used(t)
               ELSE Used(t) + (IF job[t].escalated THEN EscalationAttempts ELSE 0))
      BY <1>1, <2>2 DEF Inv, Parts, Paid
    <3>4. /\ job[t].attempt <= IF job[t].escalating THEN EscalationAttempts
                                                   ELSE MaxAttempts
          /\ Used(t) \in Nat /\ Used(t) <= job[t].attempt
      BY <1>1, <2>2, <2>01 DEF Inv, Parts, Placed, Tries, Used
    <3>. HIDE DEF p, len
    <3>5. hist[t].calls <= MaxAttempts * len + EscalationAttempts
      <4>1. CASE job[t].escalating
        BY <2>01, <3>1, <3>2, <3>3, <3>4, <4>1
      <4>2. CASE ~job[t].escalating
        BY <2>01, <3>1, <3>2, <3>3, <3>4, <4>2
      <4>. QED
        BY <2>01, <4>1, <4>2
    <3>. QED
      BY <3>5 DEF len
  <2>. QED
    BY <2>1, <2>2
<1>2. Inv => CallsBounded
  BY <1>1 DEF CallsBounded
<1>. QED
  BY <1>2, Invariant, PTL

\* A call goes to no model that cools down since before the article came
\* (cooldown.py is_cooling_down, asked by the filter and by the escalation).
THEOREM RespectsCooldownHolds == Spec => []RespectsCooldown
<1>1. ASSUME Inv, NEW t \in Task, pc[t] = "answer"
      PROVE  Ref(t).model \notin hist[t].cold
  <2>0. PICK S, T, W : job[t] \in Job(S, T, W)
    BY <1>1 DEF Inv, Parts, Shaped
  <2>1. job[t].pos \in 1..Len(job[t].chain)
    BY <1>1, <2>0 DEF Inv, Parts, Placed, Job
  <2>2. /\ \A i \in 1..Len(job[t].chain) : job[t].chain[i].model \notin hist[t].cold
        /\ job[t].escalating => Head(ComplexRefs).model \notin hist[t].cold
    BY <1>1 DEF Inv, Parts, Cold
  <2>. QED
    BY <2>1, <2>2 DEF Ref
<1>2. Inv => RespectsCooldown
  BY <1>1 DEF RespectsCooldown
<1>. QED
  BY <1>2, Invariant, PTL

\* The fallback article is returned when every model that was eligible has
\* been tried, or a key was refused, and never before (classify_article).
THEOREM FallbackIsLastHolds == Spec => FallbackIsLast
<1>. DEFINE AllTried == \A t \in Task : pc[t] # "idle" /\ result'[t] = "fallback" =>
                      FatalAuth(t) \/ ToSet(job[t].chain) \subseteq hist[t].tried
<1>1. ASSUME Inv, [Next]_vars PROVE AllTried
  <2>. SUFFICES ASSUME NEW t \in Task, pc[t] # "idle", result'[t] = "fallback",
                       ~FatalAuth(t)
                PROVE  ToSet(job[t].chain) \subseteq hist[t].tried
    OBVIOUS
  <2>0. PICK S, T, W : job[t] \in Job(S, T, W)
    BY <1>1 DEF Inv, Parts, Shaped
  <2>1. result[t] = "none" /\ Tried(t)
    BY <1>1 DEF Inv, Parts, Tidy
  <2>2. Does(t)
    BY <1>1, <2>1, Steps DEF Inv, Parts, Rests
  <2>3. Stops(t)
    BY <2>1, <2>2 DEF Does, Starts, Filters, Routes, Escalates, Advances,
       Reserves, Refused, Sends, Goes, Retries, Leaves, Moves
  <2>4. \A i \in 1..Len(job[t].chain) : job[t].chain[i] \in hist[t].tried
    <3>1. CASE job[t].chain = <<>>
      BY <3>1
    <3>2. CASE pc[t] = "next" /\ job[t].pos = Len(job[t].chain)
      <4>1. job[t].pos \in Nat \ {0} /\ Len(job[t].chain) \in Nat
        BY <2>0 DEF Job
      <4>2. ASSUME NEW i \in 1..Len(job[t].chain)
            PROVE  i < job[t].pos \/ i = job[t].pos
        BY <3>2, <4>1, <4>2
      <4>. QED
        BY <2>1, <3>2, <4>2 DEF Tried
    <3>. QED
      BY <2>3, <3>1, <3>2 DEF Stops
  <2>5. job[t].chain \in Seq(S)
    BY <2>0 DEF Job
  <2>. QED
    BY <2>4, <2>5 DEF ToSet
<1>. QED
  BY Invariant, <1>1, PTL DEF Spec, FallbackIsLast
=============================================================================
