------------------------------ MODULE LlmBudget ------------------------------
(***************************************************************************)
(* The per-user budget of model calls (server/llm.py). One user action can *)
(* be many calls, made on any of the app's threads. _charge_llm_budget     *)
(* reads the day before it takes its lock; _invoke_chat charges once and   *)
(* may call the model twice for it.                                        *)
(***************************************************************************)
EXTENDS Integers

CONSTANTS
    LlmUsers,       \* users
    LlmThreads,     \* threads that call the model
    LlmMax,         \* LLM_MAX_CALLS_PER_USER_PER_DAY
    MaxDays         \* bound: days

ASSUME LlmBounds == LlmMax \in Nat /\ MaxDays \in Nat \ {0}

VARIABLES
    day,            \* the date
    llmDay,         \* _llm_budget_day
    llmCalls,       \* _llm_calls
    llmCall,        \* each thread's call
    charged,        \* history: calls charged to each user on each day
    late            \* history: a charge dated before the day it was made

llmVars == <<day, llmDay, llmCalls, llmCall, charged, late>>

NoLlmCall == [at |-> "idle", user |-> "nobody", today |-> 0]

LlmBudgetInit ==
    /\ day = 1 /\ llmDay = 0 /\ late = FALSE
    /\ llmCalls = [u \in LlmUsers |-> 0]
    /\ llmCall = [t \in LlmThreads |-> NoLlmCall]
    /\ charged = [u \in LlmUsers |-> [d \in 1..MaxDays |-> 0]]

\* _charge_llm_budget up to its lock: who calls, and which day it is.
AskModel(t, u) ==
    /\ llmCall[t].at = "idle"
    /\ llmCall' = [llmCall EXCEPT ![t] = [at |-> "charge", user |-> u, today |-> day]]
    /\ UNCHANGED <<day, llmDay, llmCalls, charged, late>>

\* The counters of a day, the ones of the day before kept.
CallsKept(today) == llmCalls

\* Another day empties the counters, whichever of the two came first.
CallsOn(today) == IF llmDay = today THEN llmCalls ELSE [v \in LlmUsers |-> 0]

Spent(used) == used >= LlmMax

\* Under the lock: the counters of the day it read, and a refusal or one more call.
Charge(t) ==
    /\ llmCall[t].at = "charge"
    /\ llmDay' = llmCall[t].today
    /\ late' = (late \/ llmCall[t].today < day)
    /\ LET u == llmCall[t].user
           calls == CallsOn(llmCall[t].today)
       IN  IF Spent(calls[u])
           THEN /\ llmCalls' = calls
                /\ llmCall' = [llmCall EXCEPT ![t].at = "refused"]
                /\ UNCHANGED charged
           ELSE /\ llmCalls' = [calls EXCEPT ![u] = @ + 1]
                /\ llmCall' = [llmCall EXCEPT ![t].at = "model"]
                /\ charged' = [charged EXCEPT ![u][llmCall[t].today] = @ + 1]
    /\ UNCHANGED day

\* The model refuses a parameter of the first call: once more without it.
RefuseParameter(t) ==
    /\ llmCall[t].at = "model"
    /\ llmCall' = [llmCall EXCEPT ![t].at = "again"]
    /\ UNCHANGED <<day, llmDay, llmCalls, charged, late>>

\* The answer, the model's error or the LLMBudgetError reaches the caller.
LlmReturn(t) ==
    /\ llmCall[t].at \in {"model", "again", "refused"}
    /\ llmCall' = [llmCall EXCEPT ![t] = NoLlmCall]
    /\ UNCHANGED <<day, llmDay, llmCalls, charged, late>>

Midnight == day < MaxDays /\ day' = day + 1
                /\ UNCHANGED <<llmDay, llmCalls, llmCall, charged, late>>

LlmBudgetNext ==
    \/ Midnight
    \/ \E t \in LlmThreads : \/ Charge(t) \/ RefuseParameter(t) \/ LlmReturn(t)
                             \/ \E u \in LlmUsers : AskModel(t, u)

LlmBudgetSpec == LlmBudgetInit /\ [][LlmBudgetNext]_llmVars

-----------------------------------------------------------------------------
LlmBudgetTypeOK ==
    /\ day \in 1..MaxDays /\ llmDay \in 0..day
    /\ llmCalls \in [LlmUsers -> Nat]
    /\ \A t \in LlmThreads : llmCall[t].today \in 0..day

\* "You have used the daily limit": no user is charged more calls in a day than
\* the limit, on however many threads, as long as no charge is dated before the
\* day it was made: such a charge empties the counters of the new day.
LlmLimitHolds ==
    late \/ \A u \in LlmUsers, d \in 1..MaxDays : charged[u][d] <= LlmMax

\* "It resets at midnight": who is refused was charged the limit on that very day,
\* whatever the calls of other days were.
RefusedWhenSpent ==
    \A t \in LlmThreads : llmCall[t].at = "refused" =>
        charged[llmCall[t].user][llmCall[t].today] >= LlmMax

\* The daily limit is kept both ways: nobody calls more, nobody is refused early.
DailyLimitExact == LlmLimitHolds /\ RefusedWhenSpent

=============================================================================
