------------------------------- MODULE Router -------------------------------
(***************************************************************************)
(* The classification of an article (classification/client.py,             *)
(* complexity.py, cooldown.py, deepseek.py): the lane chosen for it, the   *)
(* chain of models, the models skipped because they cool down, at most     *)
(* MaxAttempts attempts on each, every one under a reservation of its own, *)
(* the escalation to the COMPLEX model, and the fallback article.          *)
(*                                                                         *)
(* Several consumers classify at once; they share the table of cooldowns   *)
(* only, so CoolByOthers stands for those that are not in Task.  The       *)
(* ledger answers as QuotaLedger allows: a row, no budget left, no         *)
(* requests left today, or an exception.                                   *)
(*                                                                         *)
(* Abstractions: prompts and answers are what the parser makes of them     *)
(* (valid or not); an HTTP status is the class classify_provider_error     *)
(* puts it in; backoff and Retry-After only delay the next attempt.  A     *)
(* model of a lane that has no key never gets into a chain, because        *)
(* complexUp is then FALSE (client.py 418-440).                            *)
(***************************************************************************)
EXTENDS Naturals, Sequences, SequencesExt

CONSTANTS
  Task,           \* consumer coroutines
  SimpleRefs,     \* models of LLM_SIMPLE, then its fallbacks
  ComplexRefs,    \* models of LLM_COMPLEX, then its fallbacks
  Gemini,         \* models called through the Gemini SDK, not over HTTP
  MaxAttempts,    \* _MAX_ATTEMPTS
  EscalationAttempts

Refs == ToSet(SimpleRefs) \cup ToSet(ComplexRefs)

Model == {r.model : r \in Refs}

ASSUME RouterAssumption ==
  /\ SimpleRefs \in Seq(Refs) /\ SimpleRefs # <<>>
  /\ ComplexRefs \in Seq(Refs) /\ ComplexRefs # <<>>
  /\ \A r \in Refs : r.lane \in {"simple", "complex"}
  /\ Gemini \subseteq Model
  /\ MaxAttempts \in Nat \ {0} /\ EscalationAttempts \in Nat \ {0}

VARIABLES
  config,       \* routing settings, read once
  cooling,      \* models with until_ts in the future
  pc,           \* the await a task has reached
  job,          \* local variables of classify_article, _run_model_attempts
  row, sent,    \* the task's latest reservation, and whether it was used
  result,       \* what the task's latest classification ended with
  hist          \* history of it: the models that cool down since it began,
                \* the models tried, the calls made

vars == <<config, cooling, pc, job, row, sent, result, hist>>

PC == {"idle", "filter", "reserve", "call", "answer", "complete", "parse",
       "fail", "cool", "next"}

-----------------------------------------------------------------------------
(* Which models an article is offered to. *)

Families == {"G", "E", "L", "X"}

\* score_complexity: length alone is no risk; one of geography, entities and
\* script is borderline; two families are complex.
LaneOf(families) ==
  CASE Cardinality(families) >= 2     -> "COMPLEX"
    [] families \in {{"G"}, {"E"}, {"X"}} -> "BORDERLINE"
    [] OTHER                          -> "SIMPLE"

SameIdentity(r, s) == r.model = s.model /\ r.effort = s.effort

\* Primary and residual models in order, without those whose identity came before.
Distinct(refs) ==
  LET out[i \in 0..Len(refs)] ==
        IF i = 0 THEN <<>>
        ELSE IF \E j \in DOMAIN out[i - 1] : SameIdentity(out[i - 1][j], refs[i])
             THEN out[i - 1]
             ELSE Append(out[i - 1], refs[i])
  IN  out[Len(refs)]

SimpleChain ==
  IF config.complexity /\ config.complexUp
       /\ ~SameIdentity(Head(SimpleRefs), Head(ComplexRefs))
  THEN Distinct(SimpleRefs \o ComplexRefs)
  ELSE SimpleRefs

ComplexChain == Distinct(ComplexRefs \o SimpleRefs)

ForceSimple(lane) ==
  \/ ~config.complexity
  \/ config.shadow
  \/ lane # "SIMPLE" /\ ~config.complexUp

ChainFor(lane) ==
  IF ForceSimple(lane) \/ lane = "SIMPLE" THEN SimpleChain ELSE ComplexChain

-----------------------------------------------------------------------------
NoJob == [lane |-> "SIMPLE", todo |-> <<>>, chain |-> <<>>, pos |-> 1,
          escalating |-> FALSE, escalated |-> FALSE, attempt |-> 1,
          fails |-> 0, why |-> "none"]

NoHist == [cold |-> {}, tried |-> {}, calls |-> 0]

Init ==
  /\ config \in [complexity : BOOLEAN, shadow : BOOLEAN, escalate : BOOLEAN,
                 complexUp : BOOLEAN]
  /\ cooling \in SUBSET Model
  /\ pc = [t \in Task |-> "idle"]
  /\ job = [t \in Task |-> NoJob]
  /\ row = [t \in Task |-> "none"]
  /\ sent = [t \in Task |-> FALSE]
  /\ result = [t \in Task |-> "none"]
  /\ hist = [t \in Task |-> NoHist]

\* The model being tried: of the chain, or the escalation's.
Ref(t) == IF job[t].escalating THEN Head(ComplexRefs)
                               ELSE job[t].chain[job[t].pos]

Tries(t) == IF job[t].escalating THEN EscalationAttempts ELSE MaxAttempts

LastTry(t) == job[t].attempt = Tries(t)

Goto(t, next) == pc' = [pc EXCEPT ![t] = next]

ledger == <<row, sent>>
shared == <<config, cooling, hist>>

Finish(t, r) ==
  /\ Goto(t, "idle")
  /\ result' = [result EXCEPT ![t] = r]
  /\ job' = [job EXCEPT ![t] = NoJob]

\* _run_model_attempts returns no article.
Leave(t, outcome) ==
  /\ Goto(t, "next")
  /\ job' = [job EXCEPT ![t].why = outcome]
  /\ UNCHANGED result

-----------------------------------------------------------------------------
(* classify_article *)

Classify(t, families) ==
  /\ pc[t] = "idle"
  /\ Goto(t, "filter")
  /\ job' = [job EXCEPT ![t] = [NoJob EXCEPT
                !.lane = LaneOf(families), !.todo = ChainFor(LaneOf(families))]]
  /\ row' = [row EXCEPT ![t] = "none"]
  /\ sent' = [sent EXCEPT ![t] = FALSE]
  /\ result' = [result EXCEPT ![t] = "none"]
  /\ hist' = [hist EXCEPT ![t] = [NoHist EXCEPT !.cold = cooling]]
  /\ UNCHANGED <<config, cooling>>

\* Mutant of Eligible: the cooldown is not looked up.
EligibleAny(t) ==
  /\ pc[t] = "filter" /\ job[t].todo # <<>>
  /\ job' = [job EXCEPT ![t].todo = Tail(@),
                        ![t].chain = Append(@, Head(job[t].todo))]
  /\ UNCHANGED <<pc, ledger, result, shared>>

\* One query per model.
Eligible(t) ==
  /\ pc[t] = "filter" /\ job[t].todo # <<>>
  /\ LET r == Head(job[t].todo)
     IN  job' = [job EXCEPT ![t].todo = Tail(@),
                   ![t].chain = IF r.model \in cooling THEN @ ELSE Append(@, r)]
  /\ UNCHANGED <<pc, ledger, result, shared>>

Route(t) ==
  /\ pc[t] = "filter" /\ job[t].todo = <<>>
  /\ IF job[t].chain = <<>>
     THEN Finish(t, "fallback")
     ELSE Goto(t, "reserve") /\ UNCHANGED <<job, result>>
  /\ UNCHANGED <<ledger, shared>>

\* is_cooling_down is asked again before an escalation.
CanEscalate(t) ==
  /\ job[t].why = "escalate" /\ ~job[t].escalating /\ ~job[t].escalated
  /\ config.escalate /\ ~ForceSimple(job[t].lane) /\ config.complexUp
  /\ ~SameIdentity(Ref(t), Head(ComplexRefs))
  /\ Head(ComplexRefs).model \notin cooling

\* Mutant of Escalate: escalated is not remembered and the escalated model
\* is asked for another escalation.
EscalateAgain(t) ==
  /\ pc[t] = "next" /\ CanEscalate(t)
  /\ Goto(t, "reserve")
  /\ job' = [job EXCEPT ![t].escalating = TRUE, ![t].attempt = 1]
  /\ UNCHANGED <<ledger, result, shared>>

Escalate(t) ==
  /\ pc[t] = "next" /\ CanEscalate(t)
  /\ Goto(t, "reserve")
  /\ job' = [job EXCEPT ![t].escalating = TRUE, ![t].escalated = TRUE,
                        ![t].attempt = 1, ![t].fails = 0]
  /\ UNCHANGED <<ledger, result, shared>>

\* An outcome of the escalation itself is ignored, a fatal one included.
FatalAuth(t) == ~job[t].escalating /\ job[t].why = "fatal_auth"

\* Mutant of Advance: a failed escalation gives up.
AdvanceOrQuit(t) ==
  /\ pc[t] = "next" /\ ~CanEscalate(t)
  /\ IF FatalAuth(t) \/ job[t].escalating \/ job[t].pos = Len(job[t].chain)
     THEN Finish(t, "fallback")
     ELSE /\ Goto(t, "reserve")
          /\ job' = [job EXCEPT ![t].pos = @ + 1, ![t].attempt = 1,
                                ![t].fails = 0]
          /\ UNCHANGED result
  /\ UNCHANGED <<ledger, shared>>

\* Mutant of Advance: after the last model, the first again.
AdvanceRound(t) ==
  /\ pc[t] = "next" /\ ~CanEscalate(t)
  /\ IF FatalAuth(t)
     THEN Finish(t, "fallback")
     ELSE /\ Goto(t, "reserve")
          /\ job' = [job EXCEPT ![t].pos = (@ % Len(job[t].chain)) + 1,
                                ![t].escalating = FALSE, ![t].attempt = 1,
                                ![t].fails = 0]
          /\ UNCHANGED result
  /\ UNCHANGED <<ledger, shared>>

Advance(t) ==
  /\ pc[t] = "next" /\ ~CanEscalate(t)
  /\ IF FatalAuth(t) \/ job[t].pos = Len(job[t].chain)
     THEN Finish(t, "fallback")
     ELSE /\ Goto(t, "reserve")
          /\ job' = [job EXCEPT ![t].pos = @ + 1, ![t].escalating = FALSE,
                                ![t].attempt = 1, ![t].fails = 0]
          /\ UNCHANGED result
  /\ UNCHANGED <<ledger, shared>>

-----------------------------------------------------------------------------
(* _run_model_attempts *)

Try(t) == hist' = [hist EXCEPT ![t].tried = @ \cup {Ref(t)}]

SetRow(t, status) == row' = [row EXCEPT ![t] = status]

\* complete and fail change a reserved row only.
Close(t, status) == IF row[t] = "reserved" THEN SetRow(t, status) ELSE UNCHANGED row

Reserve(t) ==
  /\ pc[t] = "reserve"
  /\ SetRow(t, "reserved")
  /\ sent' = [sent EXCEPT ![t] = FALSE]
  /\ Try(t)
  /\ Goto(t, "call")
  /\ UNCHANGED <<config, cooling, job, result>>

\* QuotaBudgetExceeded
OverBudget(t) ==
  /\ pc[t] = "reserve"
  /\ Try(t)
  /\ Leave(t, "exhausted")
  /\ UNCHANGED <<config, cooling, ledger>>

\* QuotaDailyExceeded
OverDay(t) ==
  /\ pc[t] = "reserve"
  /\ Try(t)
  /\ Goto(t, "cool")
  /\ UNCHANGED <<config, cooling, job, result, ledger>>

\* The Gemini semaphore, when there is one, is waited for before the call.
Send(t) ==
  /\ pc[t] = "call"
  /\ sent' = [sent EXCEPT ![t] = TRUE]
  /\ hist' = [hist EXCEPT ![t].calls = @ + 1]
  /\ Goto(t, "answer")
  /\ UNCHANGED <<config, cooling, job, row, result>>

Answer(t) ==
  /\ pc[t] = "answer"
  /\ Goto(t, "complete")
  /\ UNCHANGED <<job, result, ledger, shared>>

\* Error classes: a 5xx of an HTTP model is "hard", of a Gemini model "server".
Errors(t) == {"fatal", "hard", "retryable"}
               \cup (IF Ref(t).model \in Gemini THEN {"server"} ELSE {})

ProviderFails(t) ==
  /\ pc[t] = "answer"
  /\ \E e \in Errors(t) : job' = [job EXCEPT ![t].why = e]
  /\ Goto(t, "fail")
  /\ UNCHANGED <<result, ledger, shared>>

Complete(t) ==
  /\ pc[t] = "complete"
  /\ Close(t, "completed")
  /\ Goto(t, "parse")
  /\ UNCHANGED <<job, sent, result, shared>>

\* The UPDATE raises, with or without effect: the answer is paid and lost.
CompleteFails(t) ==
  /\ pc[t] = "complete"
  /\ Close(t, "completed") \/ UNCHANGED row
  /\ Goto(t, "fail")
  /\ job' = [job EXCEPT ![t].why = "retryable"]
  /\ UNCHANGED <<sent, result, shared>>

Valid(t) ==
  /\ pc[t] = "parse"
  /\ Finish(t, "article")
  /\ UNCHANGED <<ledger, shared>>

\* The normalisation raises: text that is digits to isdigit and not to int.
Unreadable(t) ==
  /\ pc[t] = "parse"
  /\ Goto(t, "fail")
  /\ job' = [job EXCEPT ![t].why = "retryable"]
  /\ UNCHANGED <<result, ledger, shared>>

\* After the last attempt a SIMPLE article with a validation error escalates.
Ending(t, fails) ==
  IF job[t].lane = "SIMPLE" /\ config.escalate /\ fails > 0 /\ Ref(t).lane = "simple"
  THEN "escalate" ELSE "exhausted"

\* Mutant of NextTry: one attempt too many.
OneTryMore(t, fails) ==
  IF job[t].attempt > Tries(t)
  THEN Leave(t, Ending(t, fails))
  ELSE /\ Goto(t, "reserve")
       /\ job' = [job EXCEPT ![t].attempt = @ + 1, ![t].fails = fails]
       /\ UNCHANGED result

NextTry(t, fails) ==
  IF LastTry(t)
  THEN Leave(t, Ending(t, fails))
  ELSE /\ Goto(t, "reserve")
       /\ job' = [job EXCEPT ![t].attempt = @ + 1, ![t].fails = fails]
       /\ UNCHANGED result

\* ValidationError: the row is completed already.
Invalid(t) ==
  /\ pc[t] = "parse"
  /\ LET fails == job[t].fails + 1
     IN  IF job[t].lane = "BORDERLINE" /\ config.escalate /\ fails >= 2
         THEN Leave(t, "escalate")
         ELSE NextTry(t, fails)
  /\ UNCHANGED <<ledger, shared>>

\* Mutant of Fail: the row is left as it is.
FailUnsettled(t) ==
  /\ pc[t] = "fail"
  /\ CASE job[t].why = "fatal" -> Leave(t, "fatal_auth")
       [] job[t].why = "hard"  -> Goto(t, "cool") /\ UNCHANGED <<job, result>>
       [] OTHER                -> NextTry(t, job[t].fails)
  /\ UNCHANGED <<ledger, shared>>

Fail(t) ==
  /\ pc[t] = "fail"
  /\ Close(t, "failed")
  /\ CASE job[t].why = "fatal" -> Leave(t, "fatal_auth")
       [] \/ job[t].why = "hard"
          \/ job[t].why = "server" /\ LastTry(t)
            -> Goto(t, "cool") /\ UNCHANGED <<job, result>>
       [] OTHER -> NextTry(t, job[t].fails)
  /\ UNCHANGED <<sent, shared>>

SetCooldown(t) == cooling' = cooling \cup {Ref(t).model}

Cool(t) ==
  /\ pc[t] = "cool"
  /\ SetCooldown(t)
  /\ Leave(t, "hard_cooldown")
  /\ UNCHANGED <<config, hist, ledger>>

\* A database call raises out of classify_article: of the filter, of reserve,
\* of fail or of set_cooldown; the last two may have taken effect.
DbError(t) ==
  /\ \/ pc[t] \in {"filter", "reserve", "next"} /\ UNCHANGED <<row, cooling>>
     \/ pc[t] = "fail" /\ (Close(t, "failed") \/ UNCHANGED row) /\ UNCHANGED cooling
     \/ pc[t] = "cool" /\ (SetCooldown(t) \/ UNCHANGED cooling) /\ UNCHANGED row
  /\ Finish(t, "raised")
  /\ UNCHANGED <<config, hist, sent>>

\* Mutant of Cancel: a task that waits for its answer gives its row back.
CancelReleases(t) ==
  /\ pc[t] \notin {"idle", "parse"}
  /\ IF pc[t] \in {"call", "answer", "complete"}
     THEN Close(t, "released") ELSE UNCHANGED row
  /\ Finish(t, "raised")
  /\ UNCHANGED <<sent, shared>>

\* Shutdown cancels the consumer at an await.  provider_started is TRUE from
\* before the wait for the semaphore: the row is failed, unless that raises.
Cancel(t) ==
  /\ pc[t] \notin {"idle", "parse"}
  /\ IF pc[t] \in {"call", "answer", "complete", "fail"}
     THEN Close(t, "failed") \/ UNCHANGED row
     ELSE UNCHANGED row
  /\ Finish(t, "raised")
  /\ UNCHANGED <<sent, shared>>

\* until_ts passes, or the requeue script empties the table.
Expire(m) ==
  /\ m \in cooling
  /\ cooling' = cooling \ {m}
  /\ hist' = [t \in Task |-> [hist[t] EXCEPT !.cold = @ \ {m}]]
  /\ UNCHANGED <<config, pc, job, ledger, result>>

\* A consumer that is not in Task puts a model on cooldown.
CoolByOthers(m) ==
  /\ cooling' = cooling \cup {m}
  /\ UNCHANGED <<config, pc, job, ledger, result, hist>>

-----------------------------------------------------------------------------
\* What a task does without being cancelled.
Step(t) ==
  \/ Eligible(t) \/ Route(t) \/ Escalate(t) \/ Advance(t)
  \/ Reserve(t) \/ OverBudget(t) \/ OverDay(t) \/ Send(t)
  \/ Answer(t) \/ ProviderFails(t) \/ Complete(t) \/ CompleteFails(t)
  \/ Valid(t) \/ Unreadable(t) \/ Invalid(t) \/ Fail(t) \/ Cool(t) \/ DbError(t)

Next ==
  \/ \E t \in Task : \/ \E f \in SUBSET Families : Classify(t, f)
                     \/ Step(t)
                     \/ Cancel(t)
  \/ \E m \in Model : Expire(m) \/ CoolByOthers(m)

Spec == Init /\ [][Next]_vars

\* Every await ends: reserve has an estimate below TPM, provider calls have a
\* timeout, database calls have command_timeout.
FairSpec == Spec /\ \A t \in Task : WF_vars(Step(t))

-----------------------------------------------------------------------------
(* Properties. *)

TypeOK ==
  /\ config \in [complexity : BOOLEAN, shadow : BOOLEAN, escalate : BOOLEAN,
                 complexUp : BOOLEAN]
  /\ cooling \in SUBSET Model
  /\ pc \in [Task -> PC]
  /\ row \in [Task -> {"none", "reserved", "completed", "failed", "released"}]
  /\ sent \in [Task -> BOOLEAN]
  /\ result \in [Task -> {"none", "article", "fallback", "raised"}]
  /\ \A t \in Task :
       /\ job[t].lane \in {"SIMPLE", "BORDERLINE", "COMPLEX"}
       /\ pc[t] \notin {"idle", "filter"} => job[t].pos \in DOMAIN job[t].chain
       /\ job[t].attempt \in 1..Tries(t)

\* The ledger is used as its protocol says: every call has a row of its own,
\* reserved before it and settled after it, whatever fails or is cancelled.
R == INSTANCE Reservation
UsesReservations == R!Spec

\* A row is left unsettled by an exception or a cancellation only: a task that
\* goes on, or ends with an article or the fallback, has closed it, though six
\* paths lead from a call to the next attempt.
NothingLeftOpen ==
  \A t \in Task : row[t] = "reserved" =>
    \/ pc[t] \in {"call", "answer", "complete", "fail"}
    \/ result[t] = "raised"

\* Retries, corrections, residual models and the escalation multiply; an
\* article costs no more calls than its chain and one escalation allow.
CallsBounded ==
  \A t \in Task : pc[t] # "idle" =>
    hist[t].calls <= MaxAttempts * Len(job[t].chain) + EscalationAttempts

\* A model that cools down since before the article came is not called for it,
\* neither from the chain nor by the escalation.
RespectsCooldown ==
  \A t \in Task : pc[t] = "answer" => Ref(t).model \notin hist[t].cold

\* The fallback article replaces an article for good: it is only returned when
\* every eligible model was tried, or one refused the key.
FallbackIsLast ==
  [][\A t \in Task : pc[t] # "idle" /\ result'[t] = "fallback" =>
       FatalAuth(t) \/ ToSet(job[t].chain) \subseteq hist[t].tried]_vars

\* No classification runs for ever, though each error path goes back to another
\* attempt, model or escalation.
Ends == \A t \in Task : pc[t] # "idle" ~> pc[t] = "idle"
=============================================================================
