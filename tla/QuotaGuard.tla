----------------------------- MODULE QuotaGuard -----------------------------
(***************************************************************************)
(* The guard every authenticated route of the backend calls first          *)
(* (main.py _authentication, quota_guard.py consume): an App Check token   *)
(* is spent once on the routes that change something, and each user has a  *)
(* budget of requests per route and fixed window.  The guard keeps one     *)
(* table row per token and one per user, route and window; requests of     *)
(* any number of clients and function instances interleave row operation   *)
(* by row operation, and a row operation may be applied although its call  *)
(* raised.                                                                 *)
(***************************************************************************)
EXTENDS Integers

CONSTANTS
    Requests,   \* requests that may be in flight together
    Tokens,     \* App Check tokens, by digest
    Budgets,    \* pairs of a user and a route
    ExpiresAt,  \* when each token expires
    Limit,      \* rate_limit
    Window,     \* window_seconds
    LastSecond  \* bound: the last moment the model looks at

ASSUME ExpiryAssumption == ExpiresAt \in [Tokens -> Nat]
ASSUME LimitAssumption == Limit \in Nat \ {0}
ASSUME WindowAssumption == Window \in Nat \ {0}
ASSUME LastSecondAssumption == LastSecond \in Nat

VARIABLES
    second,    \* the second it is
    spent,     \* tokens with a replay row
    rate,      \* the count of each rate row; 0: no row
    req,       \* what each request is about to do
    admitted,  \* history: requests let through, per budget and window
    used       \* history: requests let through on a token they had to spend

guardVars == <<second, spent, rate, req, admitted, used>>

NoRequest == [pc |-> "idle"]

WindowStart(t) == t - (t % Window)

Windows == {WindowStart(t) : t \in 0..LastSecond}

Request == [pc : {"spend", "create", "increment"}, token : Tokens, key : Budgets,
            enforce : BOOLEAN, at : 0..LastSecond]

(* The row the request counts in: its user, its route and the window of    *)
(* the second in which it was authenticated.                               *)
Row(r) == <<req[r].key, WindowStart(req[r].at)>>

GuardInit ==
    /\ second = 0
    /\ spent = {}
    /\ rate = [row \in Budgets \X Windows |-> 0]
    /\ req = [r \in Requests |-> NoRequest]
    /\ admitted = [row \in Budgets \X Windows |-> 0]
    /\ used = [t \in Tokens |-> 0]

Goto(r, pc) == req' = [req EXCEPT ![r].pc = pc]

Finish(r) == req' = [req EXCEPT ![r] = NoRequest]

(* A verified request reaches the guard: its App Check token has not       *)
(* expired; reads do not spend it.                                         *)
Arrive(r, t, k, enforce) ==
    /\ req[r] = NoRequest
    /\ ExpiresAt[t] > second
    /\ req' = [req EXCEPT ![r] =
                  [pc |-> IF enforce THEN "spend" ELSE "create",
                   token |-> t, key |-> k, enforce |-> enforce, at |-> second]]
    /\ UNCHANGED <<second, spent, rate, admitted, used>>

(* A mutant: the replay row is upserted, which never answers 409.          *)
SpendTokenUpsert(r) ==
    /\ req[r].pc = "spend"
    /\ Goto(r, "create")
    /\ spent' = spent \union {req[r].token}
    /\ UNCHANGED <<second, rate, admitted, used>>

(* The replay row is created, or its creation answers 409.                 *)
SpendToken(r) ==
    /\ req[r].pc = "spend"
    /\ IF req[r].token \in spent
       THEN Finish(r) /\ UNCHANGED spent
       ELSE Goto(r, "create") /\ spent' = spent \union {req[r].token}
    /\ UNCHANGED <<second, rate, admitted, used>>

(* A mutant: the guard lets pass what the increment's max lets pass.       *)
DecideByMax(r, count) ==
    /\ Finish(r)
    /\ IF count > Limit + 1
       THEN UNCHANGED <<admitted, used>>
       ELSE /\ admitted' = [admitted EXCEPT ![Row(r)] = @ + 1]
            /\ used' = IF req[r].enforce
                       THEN [used EXCEPT ![req[r].token] = @ + 1]
                       ELSE used

(* The count the row answered decides.                                     *)
Decide(r, count) ==
    /\ Finish(r)
    /\ IF count > Limit
       THEN UNCHANGED <<admitted, used>>
       ELSE /\ admitted' = [admitted EXCEPT ![Row(r)] = @ + 1]
            /\ used' = IF req[r].enforce
                       THEN [used EXCEPT ![req[r].token] = @ + 1]
                       ELSE used

(* The first request of a window creates the row; the others are told 409. *)
CreateRow(r) ==
    /\ req[r].pc = "create"
    /\ IF rate[Row(r)] = 0
       THEN rate' = [rate EXCEPT ![Row(r)] = 1] /\ Decide(r, 1)
       ELSE Goto(r, "increment") /\ UNCHANGED <<rate, admitted, used>>
    /\ UNCHANGED <<second, spent>>

(* The increment stops at one more than the limit: the table refuses the   *)
(* next with 409, which the guard answers as the limit exceeded.           *)
Increment(r) ==
    /\ req[r].pc = "increment"
    /\ IF rate[Row(r)] > Limit
       THEN Finish(r) /\ UNCHANGED <<rate, admitted, used>>
       ELSE /\ rate' = [rate EXCEPT ![Row(r)] = @ + 1]
            /\ Decide(r, rate[Row(r)] + 1)
    /\ UNCHANGED <<second, spent>>

(* A row operation raises something else than 409 and the request is       *)
(* answered as unavailable; the operation may have been applied.           *)
StoreFails(r) ==
    /\ req[r] # NoRequest
    /\ \/ UNCHANGED <<spent, rate>>
       \/ /\ req[r].pc = "spend"
          /\ spent' = spent \union {req[r].token}
          /\ UNCHANGED rate
       \/ /\ req[r].pc = "create" /\ rate[Row(r)] = 0
          /\ rate' = [rate EXCEPT ![Row(r)] = 1]
          /\ UNCHANGED spent
       \/ /\ req[r].pc = "increment" /\ rate[Row(r)] \in 1..Limit
          /\ rate' = [rate EXCEPT ![Row(r)] = @ + 1]
          /\ UNCHANGED spent
    /\ Finish(r)
    /\ UNCHANGED <<second, admitted, used>>

NextSecond ==
    /\ second < LastSecond
    /\ second' = second + 1
    /\ UNCHANGED <<spent, rate, req, admitted, used>>

GuardNext ==
    \/ \E r \in Requests :
         \/ \E t \in Tokens, k \in Budgets, e \in BOOLEAN : Arrive(r, t, k, e)
         \/ SpendToken(r)
         \/ CreateRow(r)
         \/ Increment(r)
         \/ StoreFails(r)
    \/ NextSecond

GuardSpec == GuardInit /\ [][GuardNext]_guardVars

-----------------------------------------------------------------------------

GuardTypeOK ==
    /\ second \in 0..LastSecond
    /\ spent \in SUBSET Tokens
    /\ rate \in [Budgets \X Windows -> 0..(Limit + 1)]
    /\ req \in [Requests -> Request \union {NoRequest}]
    /\ admitted \in [Budgets \X Windows -> Nat]
    /\ used \in [Tokens -> Nat]

(* quota_guard.py consume: however requests race to create or increment    *)
(* the row, and whichever answers are lost, no user gets more than the     *)
(* limit of requests of one route through in a window.                     *)
WithinBudget == \A row \in Budgets \X Windows : admitted[row] <= Limit

(* quota_guard.py consume: a token that must be spent lets one request     *)
(* through, whatever is retried with it after whichever failure.           *)
TokenSpentOnce == \A t \in Tokens : used[t] <= 1

(* A request past the replay row.                                          *)
Spender(r) == req[r] # NoRequest /\ req[r].pc # "spend" /\ req[r].enforce

(* What makes the two inductive: the count of a row never falls behind the *)
(* requests it let through, and a request past the replay row is the only  *)
(* one there with its token, which let nothing through yet.                *)
Guarded == /\ \A row \in Budgets \X Windows : admitted[row] <= rate[row]
           /\ \A t \in Tokens : used[t] > 0 => t \in spent
           /\ \A r \in Requests : Spender(r) =>
                 /\ req[r].token \in spent
                 /\ used[req[r].token] = 0
                 /\ \A s \in Requests \ {r} :
                       Spender(s) => req[s].token # req[r].token

=============================================================================
