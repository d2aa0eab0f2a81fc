--------------------------- MODULE Access_proofs ---------------------------
(***************************************************************************)
(* What the rows beside an authenticated request keep, for any number of   *)
(* invocations.  The guard's (QuotaGuard): budgets, because the count of a *)
(* row never falls behind what it let through, and tokens, because one     *)
(* request is past a token's replay row.  The two credential stores'       *)
(* (Credentials): a synchronisation presents one session, a disconnection  *)
(* lasts, and a credential is only lost for a reason.                      *)
(***************************************************************************)
EXTENDS QuotaGuard, Credentials, TLAPS

-----------------------------------------------------------------------------
Guard == GuardTypeOK /\ WithinBudget /\ TokenSpentOnce /\ Guarded

(* The second a request was authenticated in falls in one window, and the  *)
(* row it counts in is a row of the table.                                 *)
LEMMA RowExists ==
    ASSUME GuardTypeOK, NEW r \in Requests, req[r] # NoRequest
    PROVE  /\ req[r] \in Request
           /\ Row(r) \in Budgets \X Windows
           /\ rate[Row(r)] \in 0..(Limit + 1)
           /\ admitted[Row(r)] \in Nat
<1>1. req[r] \in Request
  BY DEF GuardTypeOK
<1>2. req[r].key \in Budgets /\ req[r].at \in 0..LastSecond
  BY <1>1 DEF Request
<1>3. Row(r) \in Budgets \X Windows
  BY <1>2 DEF Row, Windows
<1> QED
  BY <1>1, <1>3 DEF GuardTypeOK

LEMMA NoRequestIsNone == NoRequest \notin Request
BY DEF NoRequest, Request

LEMMA GuardFromStart == GuardInit => Guard
<1> SUFFICES ASSUME GuardInit PROVE Guard
  OBVIOUS
<1>1. GuardTypeOK
  BY LimitAssumption, LastSecondAssumption DEF GuardInit, GuardTypeOK
<1>2. WithinBudget
  BY LimitAssumption DEF GuardInit, WithinBudget
<1>3. TokenSpentOnce
  BY DEF GuardInit, TokenSpentOnce
<1>4. Guarded
  BY DEF GuardInit, Guarded, Spender
<1> QED
  BY <1>1, <1>2, <1>3, <1>4 DEF Guard

(* Letting a request through keeps every part: its row counts it, and its  *)
(* token, if it had to be spent, let nothing through before.               *)
LEMMA DecideKeeps ==
    ASSUME Guard, NEW r \in Requests, NEW count \in 1..(Limit + 1),
           req[r] # NoRequest, req[r].pc # "spend",
           rate[Row(r)] = count - 1,
           rate' = [rate EXCEPT ![Row(r)] = count],
           Decide(r, count), UNCHANGED <<second, spent>>
    PROVE  Guard'
<1>1. /\ req[r] \in Request /\ Row(r) \in Budgets \X Windows
      /\ admitted[Row(r)] \in Nat
  BY RowExists DEF Guard
<1>2. req' = [req EXCEPT ![r] = NoRequest]
  BY DEF Decide, Finish
<1>3. \A s \in Requests : Spender(s)' => s # r /\ Spender(s) /\ req'[s] = req[s]
  BY <1>2 DEF Guard, GuardTypeOK, Spender
<1>4. CASE count > Limit
  <2>1. admitted' = admitted /\ used' = used
    BY <1>4 DEF Decide
  <2>2. GuardTypeOK'
    BY <1>1, <1>2, <2>1, LimitAssumption DEF Guard, GuardTypeOK
  <2>3. WithinBudget' /\ TokenSpentOnce'
    BY <2>1 DEF Guard, WithinBudget, TokenSpentOnce
  <2>4. \A row \in Budgets \X Windows : admitted'[row] <= rate'[row]
    BY <1>1, <2>1, LimitAssumption DEF Guard, Guarded, GuardTypeOK
  <2>5. Guarded'
    BY <1>3, <2>1, <2>4 DEF Guard, Guarded
  <2> QED
    BY <2>2, <2>3, <2>5 DEF Guard
<1>5. CASE ~(count > Limit)
  <2>1. admitted' = [admitted EXCEPT ![Row(r)] = @ + 1]
    BY <1>5 DEF Decide
  <2>2. req[r].token \in Tokens /\ req[r].enforce \in BOOLEAN
    BY <1>1 DEF Request
  <2>3. \A row \in Budgets \X Windows : admitted'[row] <= rate'[row]
    BY <1>1, <2>1, LimitAssumption DEF Guard, Guarded, GuardTypeOK
  <2>4. WithinBudget'
    <3>1. admitted[Row(r)] <= count - 1
      BY <1>1 DEF Guard, Guarded
    <3>2. admitted'[Row(r)] <= Limit
      BY <1>1, <1>5, <2>1, <3>1, LimitAssumption DEF Guard, GuardTypeOK
    <3> QED
      BY <1>1, <2>1, <3>2 DEF Guard, WithinBudget, GuardTypeOK
  <2>5. CASE req[r].enforce
    <3>1. used' = [used EXCEPT ![req[r].token] = @ + 1]
      BY <1>5, <2>5 DEF Decide
    <3>2. Spender(r)
      BY <2>5 DEF Spender
    <3>3. used[req[r].token] = 0 /\ req[r].token \in spent
      BY <3>2 DEF Guard, Guarded
    <3>4. GuardTypeOK'
      BY <1>1, <1>2, <2>1, <2>2, <3>1, LimitAssumption DEF Guard, GuardTypeOK
    <3>5. TokenSpentOnce'
      BY <2>2, <3>1, <3>3 DEF Guard, TokenSpentOnce, GuardTypeOK
    <3>6. \A t \in Tokens : used'[t] > 0 => t \in spent'
      BY <2>2, <3>1, <3>3 DEF Guard, Guarded, GuardTypeOK
    <3>7. \A s \in Requests : Spender(s)' => used'[req'[s].token] = 0
      <4> SUFFICES ASSUME NEW s \in Requests, Spender(s)'
                   PROVE  used'[req'[s].token] = 0
        OBVIOUS
      <4>1. s # r /\ Spender(s) /\ req'[s] = req[s]
        BY <1>3
      <4>2. req[s].token # req[r].token /\ used[req[s].token] = 0
        BY <4>1, <3>2 DEF Guard, Guarded
      <4>3. req[s].token \in Tokens
        BY <4>1 DEF Guard, GuardTypeOK, Spender, Request
      <4> QED
        BY <4>1, <4>2, <4>3, <3>1, <2>2 DEF Guard, GuardTypeOK
    <3>8. Guarded'
      BY <1>3, <2>3, <3>6, <3>7 DEF Guard, Guarded
    <3> QED
      BY <2>4, <3>4, <3>5, <3>8 DEF Guard
  <2>6. CASE ~req[r].enforce
    <3>1. used' = used
      BY <1>5, <2>6 DEF Decide
    <3>2. GuardTypeOK'
      BY <1>1, <1>2, <2>1, <3>1, LimitAssumption DEF Guard, GuardTypeOK
    <3>3. TokenSpentOnce' /\ Guarded'
      BY <1>3, <2>3, <3>1 DEF Guard, TokenSpentOnce, Guarded
    <3> QED
      BY <2>4, <3>2, <3>3 DEF Guard
  <2> QED
    BY <2>5, <2>6
<1> QED
  BY <1>4, <1>5

(* A request that ends without being let through, whatever its lost write  *)
(* did.                                                                    *)
LEMMA GivesUpKeeps ==
    ASSUME Guard, NEW r \in Requests, Finish(r),
           spent \subseteq spent', spent' \subseteq Tokens,
           rate' \in [Budgets \X Windows -> 0..(Limit + 1)],
           \A row \in Budgets \X Windows : rate[row] <= rate'[row],
           UNCHANGED <<second, admitted, used>>
    PROVE  Guard'
<1>1. GuardTypeOK'
  BY DEF Guard, GuardTypeOK, Finish
<1>2. \A s \in Requests : Spender(s)' => Spender(s) /\ req'[s] = req[s]
  BY DEF Guard, GuardTypeOK, Spender, Finish
<1>3. \A row \in Budgets \X Windows : admitted'[row] <= rate'[row]
  <2> SUFFICES ASSUME NEW row \in Budgets \X Windows
               PROVE  admitted'[row] <= rate'[row]
    OBVIOUS
  <2>1. admitted[row] \in Nat /\ rate[row] \in Nat /\ rate'[row] \in Nat
    BY LimitAssumption DEF Guard, GuardTypeOK
  <2> QED
    BY <2>1 DEF Guard, Guarded
<1>4. Guarded'
  BY <1>2, <1>3 DEF Guard, Guarded
<1> QED
  BY <1>1, <1>4 DEF Guard, WithinBudget, TokenSpentOnce

LEMMA NextInv == Guard /\ [GuardNext]_guardVars => Guard'
<1> SUFFICES ASSUME Guard, [GuardNext]_guardVars PROVE Guard'
  OBVIOUS
<1> USE NoRequestIsNone
<1>1. ASSUME NEW r \in Requests, NEW t \in Tokens, NEW k \in Budgets,
             NEW e \in BOOLEAN, Arrive(r, t, k, e)
      PROVE  Guard'
  <2> DEFINE new == [pc |-> IF e THEN "spend" ELSE "create", token |-> t,
                     key |-> k, enforce |-> e, at |-> second]
  <2>1. req' = [req EXCEPT ![r] = new]
    BY <1>1 DEF Arrive
  <2>2. new \in Request
    BY DEF Guard, GuardTypeOK, Request
  <2>3. GuardTypeOK'
    BY <1>1, <2>1, <2>2 DEF Guard, GuardTypeOK, Arrive
  <2>4. ~(new.pc # "spend" /\ new.enforce)
    OBVIOUS
  <2>5. \A s \in Requests : Spender(s)' => Spender(s) /\ req'[s] = req[s]
    <3> SUFFICES ASSUME NEW s \in Requests, Spender(s)'
                 PROVE  Spender(s) /\ req'[s] = req[s]
      OBVIOUS
    <3>1. req'[r] = new
      BY <2>1 DEF Guard, GuardTypeOK
    <3>2. s # r
      BY <3>1, <2>4 DEF Spender
    <3> QED
      BY <2>1, <3>2 DEF Spender, Guard, GuardTypeOK
  <2>6. Guarded'
    BY <1>1, <2>5 DEF Guard, Guarded, Arrive
  <2> QED
    BY <1>1, <2>3, <2>6 DEF Guard, WithinBudget, TokenSpentOnce, Arrive
<1>2. ASSUME NEW r \in Requests, SpendToken(r)
      PROVE  Guard'
  <2>1. req[r] # NoRequest
    BY <1>2 DEF SpendToken, NoRequest
  <2>2. req[r] \in Request /\ req[r].token \in Tokens
    BY <2>1, RowExists DEF Guard, Request
  <2>3. CASE req[r].token \in spent
    <3>1. Finish(r) /\ UNCHANGED <<second, spent, rate, admitted, used>>
      BY <1>2, <2>3 DEF SpendToken
    <3>2. \A row \in Budgets \X Windows : rate[row] <= rate'[row]
      BY <3>1 DEF Guard, GuardTypeOK
    <3> QED
      BY <3>1, <3>2, GivesUpKeeps DEF Guard, GuardTypeOK
  <2>4. CASE req[r].token \notin spent
    <3>1. /\ req' = [req EXCEPT ![r].pc = "create"]
          /\ spent' = spent \union {req[r].token}
          /\ UNCHANGED <<second, rate, admitted, used>>
      BY <1>2, <2>4 DEF SpendToken, Goto
    <3> DEFINE n == [req[r] EXCEPT !.pc = "create"]
    <3>2. n \in Request /\ n.token = req[r].token
      BY <2>2 DEF Request
    <3>3. req' = [req EXCEPT ![r] = n]
      BY <3>1
    <3> HIDE DEF n
    <3>4. GuardTypeOK'
      BY <3>1, <3>2, <3>3, <2>2 DEF Guard, GuardTypeOK
    <3>5. used[req[r].token] = 0
      BY <2>2, <2>4 DEF Guard, Guarded, GuardTypeOK
    <3>6. \A s \in Requests \ {r} :
             Spender(s)' => /\ Spender(s) /\ req'[s] = req[s]
                            /\ req[s].token # req[r].token
      BY <3>3, <2>4 DEF Spender, Guard, GuardTypeOK, Guarded
    <3>7. req'[r].token = req[r].token
      BY <3>2, <3>3 DEF Guard, GuardTypeOK
    <3>8. \A s \in Requests : Spender(s)' =>
             /\ req'[s].token \in spent'
             /\ used'[req'[s].token] = 0
             /\ \A o \in Requests \ {s} :
                   Spender(o)' => req'[o].token # req'[s].token
      <4> SUFFICES ASSUME NEW s \in Requests, Spender(s)'
                   PROVE  /\ req'[s].token \in spent'
                          /\ used'[req'[s].token] = 0
                          /\ \A o \in Requests \ {s} :
                                Spender(o)' => req'[o].token # req'[s].token
        OBVIOUS
      <4>1. CASE s = r
        BY <4>1, <3>1, <3>5, <3>6, <3>7
      <4>2. CASE s # r
        <5>1. Spender(s) /\ req'[s] = req[s] /\ req[s].token # req[r].token
          BY <4>2, <3>6
        <5>2. req[s].token \in spent /\ used[req[s].token] = 0
          BY <5>1 DEF Guard, Guarded
        <5>3. ASSUME NEW o \in Requests \ {s}, Spender(o)'
              PROVE  req'[o].token # req'[s].token
          <6>1. CASE o = r
            BY <6>1, <5>1, <3>7
          <6>2. CASE o # r
            BY <6>2, <5>1, <5>3, <3>6 DEF Guard, Guarded
          <6> QED
            BY <6>1, <6>2
        <5> QED
          BY <5>1, <5>2, <5>3, <3>1
      <4> QED
        BY <4>1, <4>2
    <3>9. Guarded'
      BY <3>1, <3>8 DEF Guard, Guarded
    <3> QED
      BY <3>1, <3>4, <3>9 DEF Guard, WithinBudget, TokenSpentOnce
  <2> QED
    BY <2>3, <2>4
<1>3. ASSUME NEW r \in Requests, req[r] # NoRequest, req[r].pc # "spend",
             Goto(r, "increment"),
             UNCHANGED <<second, spent, rate, admitted, used>>
      PROVE  Guard'
  <2>1. req[r] \in Request
    BY <1>3, RowExists DEF Guard
  <2> DEFINE n == [req[r] EXCEPT !.pc = "increment"]
  <2>2. /\ n \in Request /\ n.token = req[r].token
        /\ n.enforce = req[r].enforce
    BY <2>1 DEF Request
  <2>3. req' = [req EXCEPT ![r] = n]
    BY <1>3 DEF Goto
  <2> HIDE DEF n
  <2>4. \A s \in Requests : Spender(s)' => Spender(s)
    BY <1>3, <2>2, <2>3 DEF Spender, Guard, GuardTypeOK
  <2>5. \A s \in Requests : Spender(s)' => req'[s].token = req[s].token
    BY <2>2, <2>3 DEF Guard, GuardTypeOK
  <2>6. GuardTypeOK'
    BY <1>3, <2>2, <2>3 DEF Guard, GuardTypeOK
  <2>7. Guarded'
    BY <1>3, <2>4, <2>5 DEF Guard, Guarded
  <2> QED
    BY <1>3, <2>6, <2>7 DEF Guard, WithinBudget, TokenSpentOnce
<1>4. ASSUME NEW r \in Requests, CreateRow(r)
      PROVE  Guard'
  <2>1. req[r] # NoRequest /\ req[r].pc # "spend"
    BY <1>4 DEF CreateRow, NoRequest
  <2>2. CASE rate[Row(r)] = 0
    <3>1. /\ rate' = [rate EXCEPT ![Row(r)] = 1] /\ Decide(r, 1)
          /\ UNCHANGED <<second, spent>>
      BY <1>4, <2>2 DEF CreateRow
    <3>2. 1 \in 1..(Limit + 1) /\ rate[Row(r)] = 1 - 1
      BY <2>2, LimitAssumption
    <3> QED
      BY <2>1, <3>1, <3>2, DecideKeeps
  <2>3. CASE rate[Row(r)] # 0
    BY <1>3, <1>4, <2>1, <2>3 DEF CreateRow
  <2> QED
    BY <2>2, <2>3
<1>5. ASSUME NEW r \in Requests, Increment(r)
      PROVE  Guard'
  <2>1. req[r] # NoRequest /\ req[r].pc # "spend"
    BY <1>5 DEF Increment, NoRequest
  <2>2. rate[Row(r)] \in 0..(Limit + 1)
    BY <2>1, RowExists DEF Guard
  <2>3. CASE rate[Row(r)] > Limit
    <3>1. Finish(r) /\ UNCHANGED <<second, spent, rate, admitted, used>>
      BY <1>5, <2>3 DEF Increment
    <3>2. \A row \in Budgets \X Windows : rate[row] <= rate'[row]
      BY <3>1 DEF Guard, GuardTypeOK
    <3> QED
      BY <3>1, <3>2, GivesUpKeeps DEF Guard, GuardTypeOK
  <2>4. CASE ~(rate[Row(r)] > Limit)
    <3> DEFINE count == rate[Row(r)] + 1
    <3>1. /\ rate' = [rate EXCEPT ![Row(r)] = count] /\ Decide(r, count)
          /\ UNCHANGED <<second, spent>>
      BY <1>5, <2>4 DEF Increment
    <3>2. count \in 1..(Limit + 1) /\ rate[Row(r)] = count - 1
      BY <2>2, <2>4, LimitAssumption
    <3> HIDE DEF count
    <3> QED
      BY <2>1, <3>1, <3>2, DecideKeeps
  <2> QED
    BY <2>3, <2>4
<1>6. ASSUME NEW r \in Requests, StoreFails(r)
      PROVE  Guard'
  <2>1. req[r] # NoRequest /\ Finish(r) /\ UNCHANGED <<second, admitted, used>>
    BY <1>6 DEF StoreFails
  <2>2. /\ req[r].token \in Tokens /\ Row(r) \in Budgets \X Windows
        /\ rate[Row(r)] \in 0..(Limit + 1)
    BY <2>1, RowExists DEF Guard, Request
  <2>3. spent \subseteq spent' /\ spent' \subseteq Tokens
    BY <1>6, <2>2 DEF StoreFails, Guard, GuardTypeOK
  <2>4. \/ rate' = rate
        \/ rate[Row(r)] = 0 /\ rate' = [rate EXCEPT ![Row(r)] = 1]
        \/ /\ rate[Row(r)] \in 1..Limit
           /\ rate' = [rate EXCEPT ![Row(r)] = @ + 1]
    BY <1>6 DEF StoreFails
  <2>5. /\ rate' \in [Budgets \X Windows -> 0..(Limit + 1)]
        /\ \A row \in Budgets \X Windows : rate[row] <= rate'[row]
    BY <2>2, <2>4, LimitAssumption DEF Guard, GuardTypeOK
  <2> QED
    BY <2>1, <2>3, <2>5, GivesUpKeeps
<1>7. CASE NextSecond
  <2>1. GuardTypeOK'
    BY <1>7, LastSecondAssumption DEF Guard, GuardTypeOK, NextSecond
  <2>2. \A s \in Requests : Spender(s)' <=> Spender(s)
    BY <1>7 DEF NextSecond, Spender
  <2> QED
    BY <1>7, <2>1, <2>2 DEF Guard, WithinBudget, TokenSpentOnce, Guarded, NextSecond
<1>8. CASE UNCHANGED guardVars
  BY <1>8 DEF Guard, GuardTypeOK, WithinBudget, TokenSpentOnce, Guarded, Spender, guardVars
<1> QED
  BY <1>1, <1>2, <1>4, <1>5, <1>6, <1>7, <1>8 DEF GuardNext

(* The inductive invariant.                                                *)
THEOREM GuardInvariant == GuardSpec => []Guard
BY GuardFromStart, NextInv, PTL DEF GuardSpec

(* No window of a user and route lets more than the limit through.         *)
THEOREM BudgetKept == GuardSpec => []WithinBudget
<1>1. Guard => WithinBudget
  BY DEF Guard
<1> QED
  BY <1>1, GuardInvariant, PTL

(* A token that must be spent lets at most one request through.            *)
THEOREM TokensSpentOnce == GuardSpec => []TokenSpentOnce
<1>1. Guard => TokenSpentOnce
  BY DEF Guard
<1> QED
  BY <1>1, GuardInvariant, PTL

-----------------------------------------------------------------------------
Locals == [pc : PCs, route : Routes, ring : Deployments, at : Time, stage : 1..6,
           hand : [Tables -> Maybe], cache : Maybe, shown : SUBSET Ids,
           found : [Tables -> Maybe], calm : BOOLEAN]

LEMMA IdleIsNoCall == Idle \notin Locals
BY DEF Idle, Locals, PCs

LEMMA LocalsOf ==
    ASSUME TypeOK, NEW c \in Calls, call[c] # Idle
    PROVE  call[c] \in Locals
BY DEF TypeOK, Locals

LEMMA Busy ==
    ASSUME NEW c \in Calls, call[c].pc \in PCs
    PROVE  call[c] # Idle
BY DEF Idle, PCs

(* A route has one to six stages.                                          *)
LEMMA StagesLength ==
    ASSUME NEW route
    PROVE  Len(Stages(route)) \in 1..6
BY DEF Stages

(* What becomes of a call that goes on to its next stage, or ends.         *)
Same(r, s) ==
    /\ s.route = r.route /\ s.ring = r.ring /\ s.at = r.at /\ s.found = r.found
    /\ s.calm = r.calm

Rests(r, s) ==
    \/ s = Idle
    \/ /\ s \in Locals /\ Same(r, s) /\ s.pc = "session"
       /\ s.hand = r.hand /\ s.cache = r.cache /\ s.shown = r.shown

LEMMA NextStageRests ==
    ASSUME NEW r \in Locals
    PROVE  Rests(r, NextStage(r))
<1>1. CASE r.stage < Len(Stages(r.route))
  <2> DEFINE s == [r EXCEPT !.pc = "session", !.stage = @ + 1]
  <2>1. NextStage(r) = s
    BY <1>1 DEF NextStage
  <2>2. r.stage + 1 \in 1..6
    <3> DEFINE n == Len(Stages(r.route))
    <3>1. n \in 1..6 /\ r.stage \in 1..6
      BY StagesLength DEF Locals
    <3>2. r.stage < n
      BY <1>1
    <3> HIDE DEF n
    <3> QED
      BY <3>1, <3>2
  <2>3. s \in Locals /\ s.pc = "session"
    BY <2>2 DEF Locals, PCs
  <2>4. Same(r, s) /\ s.hand = r.hand /\ s.cache = r.cache /\ s.shown = r.shown
    BY DEF Same, Locals
  <2> HIDE DEF s
  <2> QED
    BY <2>1, <2>3, <2>4 DEF Rests
<1>2. CASE ~(r.stage < Len(Stages(r.route)))
  BY <1>2 DEF NextStage, Rests
<1> QED
  BY <1>1, <1>2

LEMMA RaisedRests ==
    ASSUME NEW r \in Locals, NEW error
    PROVE  Rests(r, Raised(r, error))
<1>1. CASE Swallowed(r, error)
  BY <1>1, NextStageRests DEF Raised
<1>2. CASE ~Swallowed(r, error)
  BY <1>2 DEF Raised, Rests
<1> QED
  BY <1>1, <1>2

(* A call that will present the session it has in hand.                    *)
Presents(r) == \/ r.pc \in {"use", "authorize"}
               \/ r.pc \in {"tokens", "dropTokens"} /\ r.route \notin {"files", "saved"}

Own(r) ==
    /\ r.pc = "put" => r.hand["session"] \in Ids
    /\ r.pc = "putTokens" => r.hand["tokens"] \in Ids
    /\ Presents(r) => r.hand["session"] \in Ids
    /\ Presents(r) /\ r.route = "sync" => r.hand["session"] = r.cache
    /\ r.route = "sync" => \A x \in r.shown : x = r.cache
    /\ r.pc \in {"leave", "leaveTokens"} => r.route = "disconnect"

(* The row that was there when the call began still is: then it is the one *)
(* the call has met since.                                                 *)
Kept(r, rs, t) == rs[t] # None /\ r.found[t] = rs[t].id

LinkedSession(r, rs) ==
    Kept(r, rs, "session") =>
        /\ r.cache # None => r.cache = rs["session"].id
        /\ Presents(r) \/ r.pc = "rejected" => r.hand["session"] = rs["session"].id
        /\ r.pc = "dropSession" => ~OpensSession(r, rs["session"])

LinkedTokens(r, rs) ==
    Kept(r, rs, "tokens") =>
        /\ r.pc \in {"useTokens", "rejectedTokens"} => r.hand["tokens"] = rs["tokens"].id
        /\ r.pc = "dropTokens" => ~OpensTokens(r, rs["tokens"])
        /\ r.pc \in {"authorize", "clearTokens"} =>
              \/ ~OpensTokens(r, rs["tokens"])
              \/ Term(rs["tokens"].at) # Term(r.at)

(* What a call knows was issued before. *)
Early(r, n) ==
    /\ r.cache # None => r.cache <= n
    /\ \A t \in Tables : /\ r.hand[t] # None => r.hand[t] <= n
                         /\ r.found[t] # None => r.found[t] <= n

Sound(r, rs, n) == Own(r) /\ LinkedSession(r, rs) /\ LinkedTokens(r, rs) /\ Early(r, n)

(* Nobody has met the credential that a call is about to store.            *)
Fresh(cl, rs, c, t) ==
    /\ rs[t] # None => rs[t].id # cl[c].hand[t]
    /\ \A d \in Calls : cl[d] # Idle =>
          /\ cl[d].found[t] # cl[c].hand[t]
          /\ d # c /\ Puts(cl[d].pc) = t => cl[d].hand[t] # cl[c].hand[t]

(* A call that began after a disconnection has nothing to store.           *)
Harmless(r) ==
    /\ r.cache = None
    /\ \/ r.pc \in {"session", "leave", "leaveTokens"}
       \/ r.pc = "tokens" /\ r.route \in {"files", "saved"}

AllSound == \A c \in Calls : call[c] # Idle => Sound(call[c], rows, issued)
RowsEarly == \A t \in Tables : rows[t] # None => rows[t].id <= issued
AllFresh == \A c \in Calls, t \in Tables :
    call[c] # Idle /\ Puts(call[c].pc) = t => Fresh(call, rows, c, t)
Leaving == \A c \in Calls :
    call[c] # Idle /\ call[c].pc = "leaveTokens" /\ call[c].calm => rows["session"] = None
Gone == left => /\ \A t \in Tables : rows[t] = None
                /\ \A c \in Calls \ old : call[c] # Idle => Harmless(call[c])

Inv == TypeOK /\ AllSound /\ RowsEarly /\ AllFresh /\ Leaving /\ Gone

LEMMA InitInv == Init => Inv
<1> SUFFICES ASSUME Init PROVE Inv
  OBVIOUS
<1>1. TypeOK
  <2>1. now \in Time /\ issued \in 0..MaxIssued
    BY BoundsAssumption DEF Init, Time
  <2>2. rows \in [Tables -> Rows \union {None}]
    BY DEF Init
  <2>3. call \in [Calls -> {Idle} \union Locals]
    BY DEF Init
  <2>4. left \in BOOLEAN /\ old \subseteq {c \in Calls : call[c] # Idle}
    BY DEF Init
  <2> QED
    BY <2>1, <2>2, <2>3, <2>4 DEF TypeOK, Locals
<1>2. AllSound /\ AllFresh /\ Leaving
  BY DEF Init, AllSound, AllFresh, Leaving
<1>3. RowsEarly /\ Gone
  BY DEF Init, RowsEarly, Gone
<1> QED
  BY <1>1, <1>2, <1>3 DEF Inv

(* A step of one call: it may take rows away and issue a credential.       *)
Turns(c, s) ==
    /\ call' = [call EXCEPT ![c] = s]
    /\ now' = now
    /\ \A t \in Tables : rows'[t] = rows[t] \/ rows'[t] = None
    /\ rows' \in [Tables -> Rows \union {None}]
    /\ issued' \in {issued, issued + 1} /\ issued' <= MaxIssued

Fits(c, s) ==
    \/ s = Idle
    \/ /\ s \in Locals
       /\ Same(call[c], s)
       /\ Sound(s, rows', issued')
       /\ \A t \in Tables : Puts(s.pc) = t => s.hand[t] = issued + 1
       /\ s.pc = "leaveTokens" => rows'["session"] = None
       /\ left /\ c \notin old => Harmless(s)

LEMMA PutsTables ==
    ASSUME NEW pc, NEW t \in Tables, Puts(pc) = t
    PROVE  (t = "session" /\ pc = "put") \/ (t = "tokens" /\ pc = "putTokens")
<1>1. CASE pc = "put"
  <2>1. t = "session"
    BY <1>1 DEF Puts
  <2> QED
    BY <2>1, <1>1
<1>2. CASE pc = "putTokens"
  <2>1. t = "tokens"
    BY <1>2 DEF Puts
  <2> QED
    BY <2>1, <1>2
<1>3. CASE pc # "put" /\ pc # "putTokens"
  <2>1. Puts(pc) = "none"
    BY <1>3 DEF Puts
  <2> QED
    BY <2>1 DEF Tables
<1> QED
  BY <1>1, <1>2, <1>3

LEMMA TurnKeeps ==
    ASSUME Inv, NEW c \in Calls, NEW s, call[c] # Idle, Turns(c, s), Fits(c, s),
           left' \in BOOLEAN, old' \subseteq {d \in Calls : call'[d] # Idle}, Gone'
    PROVE  Inv'
<1>1. call \in [Calls -> {Idle} \union Locals] /\ call[c] \in Locals
  BY LocalsOf DEF Inv, TypeOK, Locals
<1>2. s \in {Idle} \union Locals
  BY DEF Fits
<1>3. \A d \in Calls : call'[d] = IF d = c THEN s ELSE call[d]
  BY <1>1 DEF Turns
<1>4. call' \in [Calls -> {Idle} \union Locals]
  BY <1>1, <1>2 DEF Turns
<1>6. issued \in 0..MaxIssued /\ issued' \in 0..MaxIssued /\ issued <= issued'
  BY BoundsAssumption DEF Inv, TypeOK, Turns
<1>7. TypeOK'
  BY <1>4, <1>6 DEF Inv, TypeOK, Turns, Locals, Time
<1>8. AllSound'
  <2> SUFFICES ASSUME NEW d \in Calls, call'[d] # Idle
               PROVE  Sound(call'[d], rows', issued')
    BY DEF AllSound
  <2>1. CASE d = c
    BY <2>1, <1>3 DEF Fits
  <2>2. CASE d # c
    <3>1. call'[d] = call[d] /\ call[d] # Idle /\ call[d] \in Locals
      BY <2>2, <1>3, LocalsOf DEF Inv
    <3>2. Sound(call[d], rows, issued)
      BY <3>1 DEF Inv, AllSound
    <3>3. \A t \in Tables : Kept(call[d], rows', t) => rows'[t] = rows[t] /\ Kept(call[d], rows, t)
      BY DEF Turns, Kept
    <3>4. LinkedSession(call[d], rows')
      BY <3>2, <3>3 DEF Sound, LinkedSession, Tables
    <3>5. LinkedTokens(call[d], rows')
      BY <3>2, <3>3 DEF Sound, LinkedTokens, Tables
    <3>6. Early(call[d], issued')
      BY <3>1, <3>2, <1>6 DEF Sound, Early, Locals, Maybe, Ids
    <3> QED
      BY <3>1, <3>2, <3>4, <3>5, <3>6 DEF Sound
  <2> QED
    BY <2>1, <2>2
<1>9. RowsEarly'
  <2> SUFFICES ASSUME NEW t \in Tables, rows'[t] # None
               PROVE  rows'[t].id <= issued'
    BY DEF RowsEarly
  <2>1. rows'[t] = rows[t] /\ rows[t] # None /\ rows[t] \in Rows
    BY DEF Turns, Inv, TypeOK
  <2>2. rows[t].id \in 1..MaxIssued /\ rows[t].id <= issued
    BY <2>1 DEF Inv, RowsEarly, Rows, Ids
  <2> QED
    BY <2>1, <2>2, <1>6, BoundsAssumption
<1>10. AllFresh'
  <2> SUFFICES ASSUME NEW d \in Calls, NEW t \in Tables, call'[d] # Idle, Puts(call'[d].pc) = t
               PROVE  Fresh(call', rows', d, t)
    BY DEF AllFresh
  <2>1. CASE d = c
    <3>1. call'[d].hand[t] = issued + 1 /\ s # Idle
      BY <2>1, <1>3 DEF Fits
    <3>2. rows'[t] # None => rows'[t].id # issued + 1
      <4>1. CASE rows'[t] = None
        BY <4>1
      <4>2. CASE rows'[t] # None
        <5>1. rows'[t] = rows[t] /\ rows[t] # None /\ rows[t] \in Rows
          BY <4>2 DEF Turns, Inv, TypeOK
        <5>2. rows[t].id \in 1..MaxIssued /\ rows[t].id <= issued
          BY <5>1 DEF Inv, RowsEarly, Rows, Ids
        <5> QED
          BY <5>1, <5>2, <1>6
      <4> QED
        BY <4>1, <4>2
    <3>3. ASSUME NEW e \in Calls, call'[e] # Idle
          PROVE  /\ call'[e].found[t] # issued + 1
                 /\ e # d /\ Puts(call'[e].pc) = t => call'[e].hand[t] # issued + 1
      <4>1. call[e] # Idle /\ call[e] \in Locals /\ Early(call[e], issued)
        BY <3>3, <1>1, <1>3, LocalsOf, <2>1 DEF Inv, AllSound, Sound
      <4>2. call'[e].found = call[e].found /\ (e # d => call'[e].hand = call[e].hand)
        BY <1>3, <2>1, <3>1, <4>1 DEF Fits, Same
      <4>3. /\ call[e].found[t] \in Maybe /\ call[e].hand[t] \in Maybe
            /\ call[e].found[t] # None => call[e].found[t] <= issued
            /\ call[e].hand[t] # None => call[e].hand[t] <= issued
        BY <4>1 DEF Locals, Early
      <4>4. None # issued + 1
        <5>1. issued + 1 \in 1..MaxIssued
          BY <2>1, <3>1, <1>3, PutsTables DEF Fits, Sound, Own, Ids
        <5> QED
          BY <5>1, NoneAssumption
      <4> QED
        BY <4>2, <4>3, <4>4, <1>6 DEF Maybe, Ids
    <3> QED
      BY <3>1, <3>2, <3>3 DEF Fresh
  <2>2. CASE d # c
    <3>1. call'[d] = call[d] /\ call[d] # Idle /\ Puts(call[d].pc) = t
      BY <2>2, <1>3
    <3>2. Fresh(call, rows, d, t)
      BY <3>1 DEF Inv, AllFresh
    <3>3. rows'[t] # None => rows'[t].id # call[d].hand[t]
      BY <3>2 DEF Turns, Fresh
    <3>4. ASSUME NEW e \in Calls, call'[e] # Idle
          PROVE  /\ call'[e].found[t] # call[d].hand[t]
                 /\ e # d /\ Puts(call'[e].pc) = t => call'[e].hand[t] # call[d].hand[t]
      <4>1. CASE e = c
        <5>1. call'[e] = s /\ s # Idle
          BY <4>1, <3>4, <1>3
        <5>2. s.found = call[c].found
          BY <5>1 DEF Fits, Same
        <5>3. Puts(s.pc) = t => s.hand[t] = issued + 1
          BY <5>1 DEF Fits
        <5>4. call[c].found[t] # call[d].hand[t]
          BY <3>2 DEF Fresh
        <5>5. call[d].hand[t] # issued + 1
          <6>1. Sound(call[d], rows, issued) /\ call[d] \in Locals
            BY <3>1, LocalsOf DEF Inv, AllSound
          <6>2. call[d].hand[t] \in Ids
            BY <3>1, <6>1, PutsTables DEF Sound, Own
          <6>3. call[d].hand[t] <= issued
            BY <6>1, <6>2, NoneAssumption DEF Sound, Early, Ids
          <6> QED
            BY <6>2, <6>3, <1>6 DEF Ids
        <5> QED
          BY <4>1, <5>1, <5>2, <5>3, <5>4, <5>5
      <4>2. CASE e # c
        BY <4>2, <3>2, <3>4, <1>3 DEF Fresh
      <4> QED
        BY <4>1, <4>2
    <3> QED
      BY <3>1, <3>3, <3>4 DEF Fresh
  <2> QED
    BY <2>1, <2>2
<1>11. Leaving'
  BY <1>3 DEF Inv, Leaving, Fits, Turns, Tables
<1> QED
  BY <1>7, <1>8, <1>9, <1>10, <1>11 DEF Inv


(* A call that goes on, or ends, after it did what leaves it with r.       *)
LEMMA RestFits ==
    ASSUME Inv, NEW c \in Calls, call[c] # Idle, NEW r \in Locals, NEW s,
           Same(call[c], r), r.hand = call[c].hand, r.cache = call[c].cache,
           r.route = "sync" => \A x \in r.shown : x = r.cache,
           Rests(r, s),
           \A t \in Tables : rows'[t] = rows[t] \/ rows'[t] = None,
           issued' = issued
    PROVE  Fits(c, s)
<1> SUFFICES ASSUME s # Idle PROVE Fits(c, s)
  BY DEF Fits
<1>1. /\ s \in Locals /\ Same(call[c], s) /\ s.pc = "session"
      /\ s.hand = call[c].hand /\ s.cache = call[c].cache /\ s.shown = r.shown
  BY DEF Rests, Same
<1>2. Sound(call[c], rows, issued)
  BY DEF Inv, AllSound
<1>3. Own(s)
  BY <1>1 DEF Own, Presents, Same
<1>4. \A t \in Tables : Kept(s, rows', t) => rows'[t] = rows[t] /\ Kept(call[c], rows, t)
  BY <1>1 DEF Kept, Same
<1>5. LinkedSession(s, rows')
  BY <1>1, <1>2, <1>4 DEF Sound, LinkedSession, Tables, Presents
<1>6. LinkedTokens(s, rows')
  BY <1>1 DEF LinkedTokens
<1>7. Early(s, issued')
  BY <1>1, <1>2 DEF Sound, Early, Same
<1>8. \A t \in Tables : Puts(s.pc) # t
  BY <1>1, PutsTables
<1>9. left /\ c \notin old => Harmless(s)
  BY <1>1 DEF Inv, Gone, Harmless
<1> QED
  BY <1>1, <1>3, <1>5, <1>6, <1>7, <1>8, <1>9 DEF Fits, Sound

(* The same, of a call that only goes on.                                  *)
LEMMA RestsFits ==
    ASSUME Inv, NEW c \in Calls, call[c] # Idle, NEW s, Rests(call[c], s),
           \A t \in Tables : rows'[t] = rows[t] \/ rows'[t] = None,
           issued' = issued
    PROVE  Fits(c, s)
<1>1. call[c] \in Locals
  BY LocalsOf DEF Inv
<1>2. call[c].route = "sync" => \A x \in call[c].shown : x = call[c].cache
  BY DEF Inv, AllSound, Sound, Own
<1>3. Same(call[c], call[c])
  BY DEF Same
<1> QED
  BY <1>1, <1>2, <1>3, RestFits

(* A call that moves to another pc with nothing else changed.              *)
LEMMA MoveFits ==
    ASSUME Inv, NEW c \in Calls, call[c] # Idle, NEW pc \in PCs,
           pc \notin {"put", "putTokens"},
           LET s == [call[c] EXCEPT !.pc = pc] IN
             /\ Own(s) /\ LinkedSession(s, rows') /\ LinkedTokens(s, rows')
             /\ pc = "leaveTokens" => rows'["session"] = None
             /\ left /\ c \notin old => Harmless(s),
           issued' = issued
    PROVE  Fits(c, [call[c] EXCEPT !.pc = pc])
<1> DEFINE s == [call[c] EXCEPT !.pc = pc]
<1>1. call[c] \in Locals
  BY LocalsOf DEF Inv
<1>2. s \in Locals /\ Same(call[c], s) /\ s.pc = pc /\ s.hand = call[c].hand /\ s.cache = call[c].cache
  BY <1>1 DEF Same, Locals
<1>3. Early(s, issued')
  BY <1>2 DEF Inv, AllSound, Sound, Early, Same
<1>4. \A t \in Tables : Puts(s.pc) # t
  BY <1>2, PutsTables
<1> HIDE DEF s
<1> QED
  BY <1>2, <1>3, <1>4 DEF Fits, Sound, s

(* Every action of a call but Begin and the ones that store ends this way. *)
LEMMA Settled ==
    ASSUME Inv, NEW c \in Calls, NEW s, call[c] # Idle, Become(c, s), UNCHANGED <<now, left>>,
           \A t \in Tables : rows'[t] = rows[t] \/ rows'[t] = None,
           rows' \in [Tables -> Rows \union {None}],
           issued' \in {issued, issued + 1}, issued' <= MaxIssued, Fits(c, s)
    PROVE  Inv'
<1>1. Turns(c, s)
  BY DEF Become, Turns
<1>2. \A d \in Calls : call'[d] = IF d = c THEN s ELSE call[d]
  BY DEF Become, Inv, TypeOK
<1>3. old' = IF s = Idle THEN old \ {c} ELSE old
  BY DEF Become
<1>4. left' \in BOOLEAN /\ old' \subseteq {d \in Calls : call'[d] # Idle}
  BY <1>2, <1>3 DEF Inv, TypeOK
<1>5. Gone'
  BY <1>2, <1>3 DEF Inv, Gone, Fits
<1> QED
  BY <1>1, <1>4, <1>5, TurnKeeps

LEMMA InvBounds ==
    ASSUME Inv
    PROVE  issued <= MaxIssued /\ issued \in Nat /\ rows \in [Tables -> Rows \union {None}]
BY BoundsAssumption DEF Inv, TypeOK

(* The row that is there is known by a number issued before.               *)
LEMMA RowIds ==
    ASSUME Inv, NEW t \in Tables, rows[t] # None
    PROVE  rows[t] \in Rows /\ rows[t].id \in Ids /\ rows[t].id <= issued
BY DEF Inv, TypeOK, RowsEarly, Rows

(* What is left of a disconnected user's calls has no row to meet.         *)
LEMMA HarmlessOf ==
    ASSUME Inv, NEW c \in Calls, call[c] # Idle, left, c \notin old
    PROVE  Harmless(call[c]) /\ \A t \in Tables : rows[t] = None
BY DEF Inv, Gone

LEMMA SoundOf ==
    ASSUME Inv, NEW c \in Calls, call[c] # Idle
    PROVE  /\ call[c] \in Locals /\ Own(call[c]) /\ LinkedSession(call[c], rows)
           /\ LinkedTokens(call[c], rows) /\ Early(call[c], issued)
BY LocalsOf DEF Inv, AllSound, Sound

LEMMA WithSessionFits ==
    ASSUME Inv, NEW c \in Calls, call[c] # Idle, call[c].pc = "session", NEW id \in Ids,
           call[c].cache # None => id = call[c].cache,
           Kept(call[c], rows, "session") => id = rows["session"].id,
           ~(left /\ c \notin old), id <= issued, UNCHANGED <<rows, issued>>
    PROVE  Fits(c, WithSession(call[c], id))
<1>1. CASE call[c].route = "status"
  BY <1>1 DEF WithSession, Fits
<1>2. CASE call[c].route # "status"
  <2> DEFINE pc == IF Stage(call[c]) = "probe" THEN "tokens" ELSE "use"
             k == IF call[c].route = "sync" THEN id ELSE None
             s == [call[c] EXCEPT !.pc = pc, !.hand["session"] = id, !.cache = k]
  <2>1. WithSession(call[c], id) = s
    BY <1>2 DEF WithSession
  <2>2. pc \in {"tokens", "use"} /\ k \in Maybe
    BY DEF Maybe
  <2>3. k = id \/ k = None
    OBVIOUS
  <2>4. call[c].route = "sync" => k = id
    OBVIOUS
  <2>5. call[c] \in Locals /\ Own(call[c]) /\ Early(call[c], issued)
    BY SoundOf
  <2> HIDE DEF pc, k
  <2>6. /\ s \in Locals /\ Same(call[c], s) /\ s.pc = pc /\ s.cache = k
        /\ s.hand["session"] = id /\ s.hand["tokens"] = call[c].hand["tokens"]
        /\ s.shown = call[c].shown
    BY <2>2, <2>5 DEF Locals, Same, PCs, Tables, Maybe
  <2> HIDE DEF s
  <2>7. \A x \in s.shown : s.route = "sync" => x = id
    BY <2>5, <2>6, NoneAssumption DEF Own, Same, Locals, Ids
  <2>8. Own(s)
    BY <2>2, <2>4, <2>6, <2>7 DEF Own, Same
  <2>9. LinkedSession(s, rows') /\ LinkedTokens(s, rows')
    BY <2>2, <2>3, <2>6 DEF LinkedSession, LinkedTokens, Kept, Same
  <2>10. Early(s, issued')
    BY <2>3, <2>5, <2>6 DEF Early, Same, Tables
  <2>11. \A t \in Tables : Puts(s.pc) # t
    BY <2>2, <2>6, PutsTables
  <2> QED
    BY <2>1, <2>2, <2>6, <2>8, <2>9, <2>10, <2>11 DEF Fits, Sound
<1> QED
  BY <1>1, <1>2

LEMMA LoadSessionKeeps ==
    ASSUME Inv, NEW c \in Calls, LoadSession(c)
    PROVE  Inv'
<1>1. call[c].pc = "session" /\ UNCHANGED <<now, issued, rows, left>>
  BY DEF LoadSession
<1>2. call[c] # Idle
  BY <1>1, Busy DEF PCs
<1>3. \A s : Become(c, s) /\ Fits(c, s) => Inv'
  BY <1>1, <1>2, InvBounds, Settled
<1>4. /\ call[c] \in Locals /\ Own(call[c]) /\ LinkedSession(call[c], rows)
      /\ LinkedTokens(call[c], rows) /\ Early(call[c], issued)
  BY <1>2, SoundOf
<1>5. CASE call[c].cache # None
  <2>1. call[c].cache \in Ids /\ call[c].cache <= issued
    BY <1>4, <1>5 DEF Locals, Maybe, Early
  <2>2. Kept(call[c], rows, "session") => call[c].cache = rows["session"].id
    BY <1>4, <1>5 DEF LinkedSession
  <2>3. ~(left /\ c \notin old)
    BY <1>2, <1>5, HarmlessOf DEF Harmless
  <2>4. Fits(c, WithSession(call[c], call[c].cache))
    BY <1>1, <1>2, <2>1, <2>2, <2>3, WithSessionFits
  <2>5. Become(c, WithSession(call[c], call[c].cache))
    BY <1>5 DEF LoadSession
  <2> QED
    BY <1>3, <2>4, <2>5
<1>6. CASE call[c].cache = None /\ rows["session"] = None
  <2>1. Become(c, Raised(call[c], "reauth"))
    BY <1>6 DEF LoadSession
  <2>2. Rests(call[c], Raised(call[c], "reauth"))
    BY <1>4, RaisedRests
  <2>3. Fits(c, Raised(call[c], "reauth"))
    BY <1>1, <1>2, <2>2, RestsFits
  <2> QED
    BY <1>3, <2>1, <2>3
<1>7. CASE call[c].cache = None /\ rows["session"] # None /\ Opens(c, "session")
  <2>1. rows["session"].id \in Ids /\ rows["session"].id <= issued
    BY <1>7, RowIds DEF Tables
  <2>2. ~(left /\ c \notin old)
    BY <1>2, <1>7, HarmlessOf DEF Tables
  <2>3. Fits(c, WithSession(call[c], rows["session"].id))
    BY <1>1, <1>2, <1>7, <2>1, <2>2, WithSessionFits
  <2>4. Become(c, WithSession(call[c], rows["session"].id))
    BY <1>7 DEF LoadSession
  <2> QED
    BY <1>3, <2>3, <2>4
<1>8. CASE call[c].cache = None /\ rows["session"] # None /\ ~Opens(c, "session")
  <2> DEFINE s == [call[c] EXCEPT !.pc = "dropSession"]
  <2>1. Become(c, s)
    BY <1>8 DEF LoadSession
  <2>2. s.pc = "dropSession" /\ Same(call[c], s) /\ s.hand = call[c].hand
        /\ s.cache = call[c].cache /\ s.shown = call[c].shown
    BY <1>4 DEF Locals, Same
  <2>3. ~OpensSession(s, rows["session"])
    BY <1>8, <2>2 DEF Opens, OpensSession, Same
  <2>4. ~(left /\ c \notin old)
    BY <1>2, <1>8, HarmlessOf DEF Tables
  <2> HIDE DEF s
  <2>5. Own(s) /\ LinkedSession(s, rows') /\ LinkedTokens(s, rows')
    BY <1>1, <1>4, <1>8, <2>2, <2>3 DEF Own, Presents, Same, LinkedSession, LinkedTokens, Kept
  <2>6. Fits(c, s)
    BY <1>1, <1>2, <2>4, <2>5, MoveFits DEF PCs, s
  <2> QED
    BY <1>3, <2>1, <2>6
<1> QED
  BY <1>5, <1>6, <1>7, <1>8

(* A call that looked for tokens, or deleted those it could not open, and  *)
(* authorises a download with the session in hand.                         *)
LEMMA AuthorizeFits ==
    ASSUME Inv, NEW c \in Calls, call[c] # Idle, call[c].pc \in {"tokens", "dropTokens"},
           call[c].route \notin {"files", "saved"},
           rows'["session"] = rows["session"], issued' = issued,
           Kept(call[c], rows', "tokens") =>
              \/ ~OpensTokens(call[c], rows'["tokens"])
              \/ Term(rows'["tokens"].at) # Term(call[c].at)
    PROVE  Fits(c, [call[c] EXCEPT !.pc = "authorize"])
<1> DEFINE s == [call[c] EXCEPT !.pc = "authorize"]
<1>1. /\ call[c] \in Locals /\ Own(call[c]) /\ LinkedSession(call[c], rows)
      /\ Early(call[c], issued)
  BY SoundOf
<1>2. /\ s.pc = "authorize" /\ Same(call[c], s) /\ s.hand = call[c].hand
      /\ s.cache = call[c].cache /\ s.shown = call[c].shown
  BY <1>1 DEF Locals, Same
<1>3. Presents(call[c]) /\ Presents(s)
  BY <1>2 DEF Presents
<1>4. OpensTokens(s, rows'["tokens"]) = OpensTokens(call[c], rows'["tokens"])
  BY <1>2 DEF OpensTokens, Same
<1>5. ~(left /\ c \notin old)
  BY HarmlessOf DEF Harmless
<1> HIDE DEF s
<1>6. Own(s)
  BY <1>1, <1>2, <1>3 DEF Own, Same
<1>7. LinkedSession(s, rows')
  BY <1>1, <1>2, <1>3 DEF LinkedSession, Kept, Same
<1>8. LinkedTokens(s, rows')
  BY <1>2, <1>4 DEF LinkedTokens, Kept, Same
<1> QED
  BY <1>5, <1>6, <1>7, <1>8, MoveFits DEF PCs, s

LEMMA WithoutTokensFits ==
    ASSUME Inv, NEW c \in Calls, call[c] # Idle, call[c].pc \in {"tokens", "dropTokens"},
           rows'["session"] = rows["session"], rows'["tokens"] = None, issued' = issued
    PROVE  Fits(c, WithoutTokens(call[c]))
<1>1. CASE call[c].route \in {"files", "saved"}
  BY <1>1 DEF WithoutTokens, Fits
<1>2. CASE call[c].route \notin {"files", "saved"}
  <2>1. WithoutTokens(call[c]) = [call[c] EXCEPT !.pc = "authorize"]
    BY <1>2 DEF WithoutTokens
  <2>2. ~Kept(call[c], rows', "tokens")
    BY DEF Kept
  <2> QED
    BY <1>2, <2>1, <2>2, AuthorizeFits
<1> QED
  BY <1>1, <1>2

LEMMA UsesTokensFits ==
    ASSUME Inv, NEW c \in Calls, call[c] # Idle, rows["tokens"] # None,
           call[c].route = "files", UNCHANGED <<rows, issued>>
    PROVE  Fits(c, [call[c] EXCEPT !.pc = "useTokens", !.hand["tokens"] = rows["tokens"].id])
<1> DEFINE id == rows["tokens"].id
           s == [call[c] EXCEPT !.pc = "useTokens", !.hand["tokens"] = id]
<1>1. id \in Ids /\ id <= issued
  BY RowIds DEF Tables
<1>2. /\ call[c] \in Locals /\ Own(call[c]) /\ LinkedSession(call[c], rows)
      /\ Early(call[c], issued)
  BY SoundOf
<1>3. ~(left /\ c \notin old)
  BY HarmlessOf DEF Tables
<1> HIDE DEF id
<1>4. /\ s \in Locals /\ Same(call[c], s) /\ s.pc = "useTokens" /\ s.cache = call[c].cache
      /\ s.hand["session"] = call[c].hand["session"] /\ s.hand["tokens"] = id
      /\ s.shown = call[c].shown
  BY <1>1, <1>2 DEF Locals, Same, PCs, Tables, Maybe
<1> HIDE DEF s
<1>5. Own(s)
  BY <1>2, <1>4 DEF Own, Same, Presents
<1>6. LinkedSession(s, rows')
  BY <1>2, <1>4 DEF LinkedSession, Kept, Same, Presents
<1>7. LinkedTokens(s, rows')
  BY <1>4 DEF LinkedTokens, id
<1>8. Early(s, issued')
  BY <1>1, <1>2, <1>4 DEF Early, Same, Tables
<1>9. \A t \in Tables : Puts(s.pc) # t
  BY <1>4, PutsTables
<1> QED
  BY <1>3, <1>4, <1>5, <1>6, <1>7, <1>8, <1>9 DEF Fits, Sound, s, id

LEMMA WithTokensFits ==
    ASSUME Inv, NEW c \in Calls, call[c] # Idle, call[c].pc = "tokens",
           rows["tokens"] # None, NEW s \in WithTokens(call[c], rows["tokens"]),
           UNCHANGED <<rows, issued>>
    PROVE  Fits(c, s)
<1>1. CASE call[c].route = "files"
  <2>1. s \in {Idle, [call[c] EXCEPT !.pc = "useTokens", !.hand["tokens"] = rows["tokens"].id]}
    BY <1>1 DEF WithTokens
  <2>2. CASE s = Idle
    BY <2>2 DEF Fits
  <2>3. CASE s # Idle
    BY <1>1, <2>1, <2>3, UsesTokensFits
  <2> QED
    BY <2>2, <2>3
<1>2. CASE call[c].route = "saved"
  BY <1>2 DEF WithTokens, Fits
<1>3. CASE call[c].route \notin {"files", "saved"}
  <2>1. s = IF Term(rows["tokens"].at) = Term(call[c].at) THEN NextStage(call[c])
            ELSE [call[c] EXCEPT !.pc = "authorize"]
    BY <1>3 DEF WithTokens
  <2>2. CASE Term(rows["tokens"].at) = Term(call[c].at)
    <3>1. Rests(call[c], s)
      BY <2>1, <2>2, SoundOf, NextStageRests
    <3> QED
      BY <3>1, RestsFits
  <2>3. CASE Term(rows["tokens"].at) # Term(call[c].at)
    BY <1>3, <2>1, <2>3, AuthorizeFits
  <2> QED
    BY <2>2, <2>3
<1> QED
  BY <1>1, <1>2, <1>3

LEMMA LoadTokensKeeps ==
    ASSUME Inv, NEW c \in Calls, LoadTokens(c)
    PROVE  Inv'
<1>1. call[c].pc = "tokens" /\ UNCHANGED <<now, issued, rows, left>>
  BY DEF LoadTokens
<1>2. call[c] # Idle
  BY <1>1, Busy DEF PCs
<1>3. \A s : Become(c, s) /\ Fits(c, s) => Inv'
  BY <1>1, <1>2, InvBounds, Settled
<1>4. CASE rows["tokens"] = None
  <2>1. Become(c, WithoutTokens(call[c]))
    BY <1>4 DEF LoadTokens
  <2>2. Fits(c, WithoutTokens(call[c]))
    BY <1>1, <1>2, <1>4, WithoutTokensFits
  <2> QED
    BY <1>3, <2>1, <2>2
<1>5. CASE rows["tokens"] # None /\ Opens(c, "tokens")
  <2>1. PICK s \in WithTokens(call[c], rows["tokens"]) : Become(c, s)
    BY <1>5 DEF LoadTokens
  <2>2. Fits(c, s)
    BY <1>1, <1>2, <1>5, WithTokensFits
  <2> QED
    BY <1>3, <2>1, <2>2
<1>6. CASE rows["tokens"] # None /\ ~Opens(c, "tokens")
  <2> DEFINE s == [call[c] EXCEPT !.pc = "dropTokens"]
  <2>1. Become(c, s)
    BY <1>6 DEF LoadTokens
  <2>2. /\ call[c] \in Locals /\ Own(call[c]) /\ LinkedSession(call[c], rows)
    BY <1>2, SoundOf
  <2>3. /\ s.pc = "dropTokens" /\ Same(call[c], s) /\ s.hand = call[c].hand
        /\ s.cache = call[c].cache /\ s.shown = call[c].shown
    BY <2>2 DEF Locals, Same
  <2>4. ~OpensTokens(s, rows["tokens"])
    BY <1>6, <2>3 DEF Opens, OpensTokens, Same
  <2>5. ~(left /\ c \notin old)
    BY <1>2, <1>6, HarmlessOf DEF Tables
  <2> HIDE DEF s
  <2>6. Presents(s) = Presents(call[c])
    BY <1>1, <2>3 DEF Presents, Same
  <2>7. Own(s)
    BY <2>2, <2>3, <2>6 DEF Own, Same
  <2>8. LinkedSession(s, rows') /\ LinkedTokens(s, rows')
    BY <1>1, <2>2, <2>3, <2>4, <2>6 DEF LinkedSession, LinkedTokens, Kept, Same
  <2>9. Fits(c, s)
    BY <1>1, <1>2, <2>5, <2>7, <2>8, MoveFits DEF PCs, s
  <2> QED
    BY <1>3, <2>1, <2>9
<1> QED
  BY <1>4, <1>5, <1>6

LEMMA LoadFailsKeeps ==
    ASSUME Inv, NEW c \in Calls, LoadFails(c)
    PROVE  Inv'
<1>1. /\ call[c].pc \in PCs /\ UNCHANGED <<now, issued, rows, left>>
      /\ Become(c, Raised(call[c], "store"))
  BY DEF LoadFails, PCs
<1>2. call[c] # Idle
  BY <1>1, Busy
<1>3. Rests(call[c], Raised(call[c], "store"))
  BY <1>2, SoundOf, RaisedRests
<1>4. Fits(c, Raised(call[c], "store"))
  BY <1>1, <1>2, <1>3, RestsFits
<1> QED
  BY <1>1, <1>2, <1>4, InvBounds, Settled

LEMMA LoginKeeps ==
    ASSUME Inv, NEW c \in Calls, NEW ok \in BOOLEAN, Login(c, ok)
    PROVE  Inv'
<1>1. /\ call[c].pc = "login" /\ UNCHANGED <<now, rows, left>>
      /\ ok => issued < MaxIssued
      /\ issued' = IF ok THEN issued + 1 ELSE issued
  BY DEF Login
<1>2. call[c] # Idle
  BY <1>1, Busy DEF PCs
<1>3. issued' \in {issued, issued + 1} /\ issued' <= MaxIssued
  BY <1>1, InvBounds, BoundsAssumption
<1>4. \A s : Become(c, s) /\ Fits(c, s) => Inv'
  BY <1>1, <1>2, <1>3, InvBounds, Settled
<1>5. CASE ok
  <2> DEFINE id == issued + 1
             s == [call[c] EXCEPT !.pc = "put", !.hand["session"] = id]
  <2>1. id \in Ids /\ issued' = id
    BY <1>1, <1>5, InvBounds, BoundsAssumption DEF Ids
  <2>2. Become(c, s)
    BY <1>5 DEF Login
  <2>3. /\ call[c] \in Locals /\ Own(call[c]) /\ LinkedSession(call[c], rows)
        /\ Early(call[c], issued)
    BY <1>2, SoundOf
  <2>4. ~(left /\ c \notin old)
    BY <1>1, <1>2, HarmlessOf DEF Harmless
  <2>5. \A x \in Maybe : x # None /\ x <= issued => x <= issued'
    BY <2>1, InvBounds DEF Maybe, Ids
  <2> HIDE DEF id
  <2>6. /\ s \in Locals /\ Same(call[c], s) /\ s.pc = "put" /\ s.cache = call[c].cache
        /\ s.hand["session"] = id /\ s.hand["tokens"] = call[c].hand["tokens"]
        /\ s.shown = call[c].shown
    BY <2>1, <2>3 DEF Locals, Same, PCs, Tables, Maybe
  <2> HIDE DEF s
  <2>7. Own(s)
    BY <2>1, <2>3, <2>6 DEF Own, Same, Presents
  <2>8. LinkedSession(s, rows') /\ LinkedTokens(s, rows')
    BY <1>1, <2>3, <2>6 DEF LinkedSession, LinkedTokens, Kept, Same, Presents
  <2>9. Early(s, issued')
    <3>1. s.cache # None => s.cache <= issued'
      BY <2>3, <2>5, <2>6 DEF Early, Locals
    <3>2. \A t \in Tables : s.found[t] # None => s.found[t] <= issued'
      BY <2>3, <2>5, <2>6 DEF Early, Locals, Same
    <3>3. s.hand["tokens"] # None => s.hand["tokens"] <= issued'
      BY <2>3, <2>5, <2>6 DEF Early, Locals, Tables
    <3>4. s.hand["session"] <= issued'
      BY <2>1, <2>6 DEF Ids
    <3> QED
      BY <3>1, <3>2, <3>3, <3>4 DEF Early, Tables
  <2>10. \A t \in Tables : Puts(s.pc) = t => s.hand[t] = id
    BY <2>6, PutsTables
  <2>11. Fits(c, s)
    BY <2>4, <2>6, <2>7, <2>8, <2>9, <2>10 DEF Fits, Sound, id
  <2> QED
    BY <1>4, <2>2, <2>11
<1>6. CASE ~ok
  <2>1. Become(c, Idle)
    BY <1>6 DEF Login
  <2>2. Fits(c, Idle)
    BY DEF Fits
  <2> QED
    BY <1>4, <2>1, <2>2
<1> QED
  BY <1>5, <1>6

(* A call that presented the session in hand, at "use" or "authorize".     *)
Shown(r) == [r EXCEPT !.shown = @ \union {r.hand["session"]}]

LEMMA ShownOf ==
    ASSUME Inv, NEW c \in Calls, call[c] # Idle, call[c].pc \in {"use", "authorize"}
    PROVE  LET r == Shown(call[c]) IN
           /\ r \in Locals /\ Same(call[c], r) /\ r.hand = call[c].hand
           /\ r.cache = call[c].cache /\ r.pc = call[c].pc
           /\ r.route = "sync" => \A x \in r.shown : x = r.cache
           /\ ~(left /\ c \notin old)
<1>1. call[c] \in Locals /\ Own(call[c])
  BY SoundOf
<1>2. Presents(call[c])
  BY DEF Presents
<1>3. call[c].hand["session"] \in Ids
  BY <1>1, <1>2 DEF Own
<1>4. Shown(call[c]) \in Locals
  BY <1>1, <1>3 DEF Shown, Locals
<1>5. /\ Same(call[c], Shown(call[c])) /\ Shown(call[c]).hand = call[c].hand
      /\ Shown(call[c]).cache = call[c].cache /\ Shown(call[c]).pc = call[c].pc
  BY <1>1 DEF Shown, Locals, Same
<1>6. Shown(call[c]).shown = call[c].shown \union {call[c].hand["session"]}
  BY <1>1 DEF Shown, Locals
<1>7. ~(left /\ c \notin old)
  BY HarmlessOf DEF Harmless
<1> QED
  BY <1>1, <1>2, <1>4, <1>5, <1>6, <1>7 DEF Own, Same

(* It was answered, and goes on or ends.                                   *)
LEMMA ShownRestFits ==
    ASSUME Inv, NEW c \in Calls, call[c] # Idle, call[c].pc \in {"use", "authorize"},
           NEW s, Rests(Shown(call[c]), s), UNCHANGED <<rows, issued>>
    PROVE  Fits(c, s)
<1> DEFINE r == Shown(call[c])
<1>1. /\ r \in Locals /\ Same(call[c], r) /\ r.hand = call[c].hand
      /\ r.cache = call[c].cache
      /\ r.route = "sync" => \A x \in r.shown : x = r.cache
  BY ShownOf
<1>2. Rests(r, s)
  OBVIOUS
<1> HIDE DEF r
<1> QED
  BY <1>1, <1>2, RestFits

(* It was answered, and is about to delete a row.                          *)
LEMMA ShownMoveFits ==
    ASSUME Inv, NEW c \in Calls, call[c] # Idle, call[c].pc \in {"use", "authorize"},
           NEW pc \in {"rejected", "clearTokens"}, pc = "clearTokens" => call[c].pc = "authorize",
           UNCHANGED <<rows, issued>>
    PROVE  Fits(c, [Shown(call[c]) EXCEPT !.pc = pc])
<1> DEFINE r == Shown(call[c])
           s == [r EXCEPT !.pc = pc]
<1>1. /\ r \in Locals /\ Same(call[c], r) /\ r.hand = call[c].hand
      /\ r.cache = call[c].cache
      /\ r.route = "sync" => \A x \in r.shown : x = r.cache
      /\ ~(left /\ c \notin old)
  BY ShownOf
<1> HIDE DEF r
<1>2. /\ s \in Locals /\ Same(call[c], s) /\ s.hand = call[c].hand /\ s.pc = pc
      /\ s.cache = call[c].cache /\ s.shown = r.shown /\ s.route = r.route
  BY <1>1 DEF Locals, Same, PCs
<1> HIDE DEF s
<1>3. LinkedSession(call[c], rows) /\ LinkedTokens(call[c], rows) /\ Early(call[c], issued)
  BY SoundOf
<1>4. Own(s)
  BY <1>1, <1>2 DEF Own, Presents
<1>5. LinkedSession(s, rows')
  BY <1>2, <1>3 DEF LinkedSession, Kept, Same, Presents
<1>6. OpensTokens(s, rows["tokens"]) = OpensTokens(call[c], rows["tokens"])
  BY <1>2 DEF OpensTokens, Same
<1>7. LinkedTokens(s, rows')
  BY <1>2, <1>3, <1>6 DEF LinkedTokens, Kept, Same
<1>8. Early(s, issued')
  BY <1>2, <1>3 DEF Early, Same
<1>9. \A t \in Tables : Puts(s.pc) # t
  BY <1>2, PutsTables
<1> QED
  BY <1>1, <1>2, <1>4, <1>5, <1>7, <1>8, <1>9 DEF Fits, Sound, s, r

LEMMA UseKeeps ==
    ASSUME Inv, NEW c \in Calls, NEW answer \in {"accepted", "failed", "rejected"},
           Use(c, answer)
    PROVE  Inv'
<1> DEFINE r == Shown(call[c])
<1>1. call[c].pc = "use" /\ UNCHANGED <<now, issued, rows, left>>
  BY DEF Use
<1>2. call[c] # Idle
  BY <1>1, Busy DEF PCs
<1>3. r \in Locals
  BY <1>1, <1>2, ShownOf
<1>4. \A s : Become(c, s) /\ Fits(c, s) => Inv'
  BY <1>1, <1>2, InvBounds, Settled
<1>5. CASE answer = "accepted"
  <2>1. Become(c, NextStage(r))
    BY <1>5 DEF Use, Shown
  <2>2. Rests(r, NextStage(r))
    BY <1>3, NextStageRests
  <2>3. Fits(c, NextStage(r))
    BY <1>1, <1>2, <2>2, ShownRestFits
  <2> QED
    BY <1>4, <2>1, <2>3
<1>6. CASE answer = "failed"
  <2>1. Become(c, Raised(r, "other"))
    BY <1>6 DEF Use, Shown
  <2>2. Rests(r, Raised(r, "other"))
    BY <1>3, RaisedRests
  <2>3. Fits(c, Raised(r, "other"))
    BY <1>1, <1>2, <2>2, ShownRestFits
  <2> QED
    BY <1>4, <2>1, <2>3
<1>7. CASE answer = "rejected" /\ Stage(r) = "source"
  <2>1. Become(c, [r EXCEPT !.pc = "rejected"])
    BY <1>7 DEF Use, Shown
  <2>2. Fits(c, [r EXCEPT !.pc = "rejected"])
    BY <1>1, <1>2, ShownMoveFits
  <2> QED
    BY <1>4, <2>1, <2>2
<1>8. CASE answer = "rejected" /\ Stage(r) # "source"
  <2>1. Become(c, Raised(r, "reauth"))
    BY <1>8 DEF Use, Shown
  <2>2. Rests(r, Raised(r, "reauth"))
    BY <1>3, RaisedRests
  <2>3. Fits(c, Raised(r, "reauth"))
    BY <1>1, <1>2, <2>2, ShownRestFits
  <2> QED
    BY <1>4, <2>1, <2>3
<1> QED
  BY <1>5, <1>6, <1>7, <1>8

(* The tokens Moodle issued, about to be stored.                           *)
LEMMA IssuedFits ==
    ASSUME Inv, NEW c \in Calls, call[c] # Idle, call[c].pc = "authorize",
           issued < MaxIssued, issued' = issued + 1, rows' = rows
    PROVE  Fits(c, [Shown(call[c]) EXCEPT !.pc = "putTokens", !.hand["tokens"] = issued + 1])
<1> DEFINE id == issued + 1
           r == Shown(call[c])
           s == [r EXCEPT !.pc = "putTokens", !.hand["tokens"] = id]
<1>1. id \in Ids /\ issued' = id
  BY InvBounds, BoundsAssumption DEF Ids
<1>2. \A x \in Maybe : x # None /\ x <= issued => x <= issued'
  BY <1>1, InvBounds DEF Maybe, Ids
<1>3. /\ call[c] \in Locals /\ LinkedSession(call[c], rows) /\ Early(call[c], issued)
  BY SoundOf
<1>4. /\ r \in Locals /\ Same(call[c], r) /\ r.hand = call[c].hand
      /\ r.cache = call[c].cache
      /\ r.route = "sync" => \A x \in r.shown : x = r.cache
      /\ ~(left /\ c \notin old)
  BY ShownOf
<1> HIDE DEF id, r
<1>5. /\ s \in Locals /\ Same(call[c], s) /\ s.pc = "putTokens" /\ s.cache = call[c].cache
      /\ s.hand["session"] = call[c].hand["session"] /\ s.hand["tokens"] = id
      /\ s.shown = r.shown /\ s.route = r.route
  BY <1>1, <1>4 DEF Locals, Same, PCs, Tables, Maybe
<1> HIDE DEF s
<1>6. Own(s)
  BY <1>1, <1>4, <1>5 DEF Own, Presents
<1>7. LinkedSession(s, rows') /\ LinkedTokens(s, rows')
  BY <1>3, <1>5 DEF LinkedSession, LinkedTokens, Kept, Same, Presents
<1>8. Early(s, issued')
  <2>1. s.cache # None => s.cache <= issued'
    BY <1>2, <1>3, <1>5 DEF Early, Locals
  <2>2. \A t \in Tables : s.found[t] # None => s.found[t] <= issued'
    BY <1>2, <1>3, <1>5 DEF Early, Locals, Same
  <2>3. s.hand["session"] # None => s.hand["session"] <= issued'
    BY <1>2, <1>3, <1>5 DEF Early, Locals, Tables
  <2>4. s.hand["tokens"] <= issued'
    BY <1>1, <1>5 DEF Ids
  <2> QED
    BY <2>1, <2>2, <2>3, <2>4 DEF Early, Tables
<1>9. \A t \in Tables : Puts(s.pc) = t => s.hand[t] = id
  BY <1>5, PutsTables
<1> QED
  BY <1>4, <1>5, <1>6, <1>7, <1>8, <1>9 DEF Fits, Sound, id, r, s

LEMMA AuthorizeKeeps ==
    ASSUME Inv, NEW c \in Calls,
           NEW answer \in {"accepted", "unsupported", "failed", "rejected"},
           Authorize(c, answer)
    PROVE  Inv'
<1> DEFINE r == Shown(call[c])
<1>1. /\ call[c].pc = "authorize" /\ UNCHANGED <<now, rows, left>>
      /\ answer = "accepted" => issued < MaxIssued
      /\ issued' = IF answer = "accepted" THEN issued + 1 ELSE issued
  BY DEF Authorize
<1>2. call[c] # Idle
  BY <1>1, Busy DEF PCs
<1>3. r \in Locals
  BY <1>1, <1>2, ShownOf
<1>4. issued' \in {issued, issued + 1} /\ issued' <= MaxIssued
  BY <1>1, InvBounds, BoundsAssumption
<1>5. \A s : Become(c, s) /\ Fits(c, s) => Inv'
  BY <1>1, <1>2, <1>4, InvBounds, Settled
<1>6. CASE answer = "accepted"
  <2> DEFINE s == [r EXCEPT !.pc = "putTokens", !.hand["tokens"] = issued + 1]
  <2>1. Become(c, s)
    BY <1>6 DEF Authorize, Shown
  <2>2. Fits(c, s)
    BY <1>1, <1>2, <1>6, IssuedFits
  <2> QED
    BY <1>5, <2>1, <2>2
<1>7. CASE answer = "unsupported"
  <2>1. Become(c, [r EXCEPT !.pc = "clearTokens"])
    BY <1>7 DEF Authorize, Shown
  <2>2. Fits(c, [r EXCEPT !.pc = "clearTokens"])
    BY <1>1, <1>2, <1>7, ShownMoveFits
  <2> QED
    BY <1>5, <2>1, <2>2
<1>8. CASE answer = "failed"
  <2>1. Become(c, Raised(r, "other"))
    BY <1>8 DEF Authorize, Shown
  <2>2. Rests(r, Raised(r, "other"))
    BY <1>3, RaisedRests
  <2>3. Fits(c, Raised(r, "other"))
    BY <1>1, <1>2, <1>8, <2>2, ShownRestFits
  <2> QED
    BY <1>5, <2>1, <2>3
<1>9. CASE answer = "rejected"
  <2>1. Become(c, [r EXCEPT !.pc = "rejected"])
    BY <1>9 DEF Authorize, Shown
  <2>2. Fits(c, [r EXCEPT !.pc = "rejected"])
    BY <1>1, <1>2, <1>9, ShownMoveFits
  <2> QED
    BY <1>5, <2>1, <2>2
<1> QED
  BY <1>6, <1>7, <1>8, <1>9

LEMMA UseTokensKeeps ==
    ASSUME Inv, NEW c \in Calls, NEW rejected \in BOOLEAN, UseTokens(c, rejected)
    PROVE  Inv'
<1>1. call[c].pc = "useTokens" /\ UNCHANGED <<now, issued, rows, left>>
  BY DEF UseTokens
<1>2. call[c] # Idle
  BY <1>1, Busy DEF PCs
<1>3. \A s : Become(c, s) /\ Fits(c, s) => Inv'
  BY <1>1, <1>2, InvBounds, Settled
<1>4. CASE rejected
  <2> DEFINE s == [call[c] EXCEPT !.pc = "rejectedTokens"]
  <2>1. Become(c, s)
    BY <1>4 DEF UseTokens
  <2>2. /\ call[c] \in Locals /\ Own(call[c]) /\ LinkedSession(call[c], rows)
        /\ LinkedTokens(call[c], rows)
    BY <1>2, SoundOf
  <2>3. /\ s.pc = "rejectedTokens" /\ Same(call[c], s) /\ s.hand = call[c].hand
        /\ s.cache = call[c].cache /\ s.shown = call[c].shown
    BY <2>2 DEF Locals, Same
  <2>4. ~(left /\ c \notin old)
    BY <1>1, <1>2, HarmlessOf DEF Harmless
  <2> HIDE DEF s
  <2>5. Own(s)
    BY <2>2, <2>3 DEF Own, Same, Presents
  <2>6. LinkedSession(s, rows') /\ LinkedTokens(s, rows')
    BY <1>1, <2>2, <2>3 DEF LinkedSession, LinkedTokens, Kept, Same, Presents
  <2>7. Fits(c, s)
    BY <1>1, <1>2, <2>4, <2>5, <2>6, MoveFits DEF PCs, s
  <2> QED
    BY <1>3, <2>1, <2>7
<1>5. CASE ~rejected
  <2>1. Become(c, Idle)
    BY <1>5 DEF UseTokens
  <2> QED
    BY <1>3, <2>1 DEF Fits
<1> QED
  BY <1>4, <1>5

LEMMA KillKeeps ==
    ASSUME Inv, NEW c \in Calls, Kill(c)
    PROVE  Inv'
<1>1. call[c] # Idle /\ Become(c, Idle) /\ UNCHANGED <<now, issued, rows, left>>
  BY DEF Kill
<1>2. Fits(c, Idle)
  BY DEF Fits
<1> QED
  BY <1>1, <1>2, InvBounds, Settled

LEMMA TickKeeps ==
    ASSUME Inv, Tick
    PROVE  Inv'
<1>1. TypeOK'
  BY BoundsAssumption DEF Inv, TypeOK, Tick, Time
<1>2. UNCHANGED <<issued, rows, call, left, old>>
  BY DEF Tick
<1>3. AllSound' /\ RowsEarly' /\ AllFresh'
  BY <1>2 DEF Inv, AllSound, RowsEarly, AllFresh
<1>4. Leaving' /\ Gone'
  BY <1>2 DEF Inv, Leaving, Gone
<1> QED
  BY <1>1, <1>3, <1>4 DEF Inv

LEMMA StutterKeeps ==
    ASSUME Inv, UNCHANGED vars
    PROVE  Inv'
<1>1. UNCHANGED <<now, issued, rows, call, left, old>>
  BY DEF vars
<1>2. TypeOK'
  BY <1>1 DEF Inv, TypeOK
<1>3. AllSound' /\ RowsEarly' /\ AllFresh'
  BY <1>1 DEF Inv, AllSound, RowsEarly, AllFresh
<1>4. Leaving' /\ Gone'
  BY <1>1 DEF Inv, Leaving, Gone
<1> QED
  BY <1>2, <1>3, <1>4 DEF Inv

Deleting == {"dropSession", "rejected", "leave", "dropTokens", "clearTokens",
             "rejectedTokens", "leaveTokens"}

LEMMA DeletesTables ==
    ASSUME NEW pc, Deletes(pc) \in Tables
    PROVE  /\ pc \in Deleting
           /\ pc \in {"dropSession", "rejected", "leave"} => Deletes(pc) = "session"
           /\ pc \in {"dropTokens", "clearTokens", "rejectedTokens", "leaveTokens"}
                 => Deletes(pc) = "tokens"
<1>1. CASE pc \in {"dropSession", "rejected", "leave"}
  BY <1>1 DEF Deletes, Deleting
<1>2. CASE pc \in {"dropTokens", "clearTokens", "rejectedTokens", "leaveTokens"}
  BY <1>2 DEF Deletes, Deleting
<1>3. CASE pc \notin Deleting
  <2>1. Deletes(pc) = "none"
    BY <1>3 DEF Deletes, Deleting
  <2> QED
    BY <2>1 DEF Tables
<1> QED
  BY <1>1, <1>2, <1>3 DEF Deleting

(* What a delete does whichever call asks for it.                          *)
LEMMA DeleteDoes ==
    ASSUME Inv, NEW c \in Calls, NEW applied \in BOOLEAN, NEW heard \in BOOLEAN,
           Delete(c, applied, heard)
    PROVE  /\ Deletes(call[c].pc) \in Tables /\ call[c].pc \in Deleting /\ call[c] # Idle
           /\ heard => applied
           /\ rows' \in [Tables -> Rows \union {None}]
           /\ \A t \in Tables : rows'[t] = IF applied /\ t = Deletes(call[c].pc)
                                          THEN None ELSE rows[t]
           /\ UNCHANGED <<now, issued>>
<1>1. Deletes(call[c].pc) \in Tables /\ (heard => applied) /\ UNCHANGED <<now, issued>>
  BY DEF Delete
<1>2. call[c].pc \in Deleting
  BY <1>1, DeletesTables
<1>3. call[c] # Idle
  BY <1>2 DEF Deleting, Idle
<1>4. rows' = IF applied THEN [rows EXCEPT ![Deletes(call[c].pc)] = None] ELSE rows
  BY DEF Delete
<1>5. rows \in [Tables -> Rows \union {None}]
  BY InvBounds
<1> QED
  BY <1>1, <1>2, <1>3, <1>4, <1>5

LEMMA DeletedFits ==
    ASSUME Inv, NEW c \in Calls, call[c] # Idle, call[c].pc \in Deleting \ {"leaveTokens"},
           \A t \in Tables : rows'[t] = IF t = Deletes(call[c].pc) THEN None ELSE rows[t],
           issued' = issued
    PROVE  Fits(c, Deleted(call[c]))
<1>1. call[c] \in Locals
  BY SoundOf
<1>2. CASE call[c].pc \in {"dropSession", "rejected"}
  <2>1. Deleted(call[c]) = Raised(call[c], "reauth")
    BY <1>2 DEF Deleted
  <2> QED
    BY <1>1, <2>1, RaisedRests, RestsFits
<1>3. CASE call[c].pc = "dropTokens"
  <2>1. Deleted(call[c]) = WithoutTokens(call[c])
    BY <1>3 DEF Deleted
  <2>2. Deletes(call[c].pc) = "tokens"
    BY <1>3 DEF Deletes
  <2>3. rows'["session"] = rows["session"] /\ rows'["tokens"] = None
    BY <2>2 DEF Tables
  <2> QED
    BY <1>3, <2>1, <2>3, WithoutTokensFits
<1>4. CASE call[c].pc = "clearTokens"
  <2>1. Deleted(call[c]) = NextStage(call[c])
    BY <1>4 DEF Deleted
  <2> QED
    BY <1>1, <2>1, NextStageRests, RestsFits
<1>5. CASE call[c].pc = "leave"
  <2> DEFINE s == [call[c] EXCEPT !.pc = "leaveTokens"]
  <2>1. Deleted(call[c]) = s
    BY <1>5 DEF Deleted
  <2>2. Deletes(call[c].pc) = "session"
    BY <1>5 DEF Deletes
  <2>3. rows'["session"] = None /\ rows'["tokens"] = rows["tokens"]
    BY <2>2 DEF Tables
  <2>4. Own(call[c]) /\ (left /\ c \notin old => Harmless(call[c]))
    BY SoundOf, HarmlessOf
  <2>5. /\ s.pc = "leaveTokens" /\ Same(call[c], s) /\ s.hand = call[c].hand
        /\ s.cache = call[c].cache /\ s.shown = call[c].shown
    BY <1>1 DEF Locals, Same
  <2> HIDE DEF s
  <2>6. Own(s)
    BY <1>5, <2>4, <2>5 DEF Own, Same, Presents
  <2>7. LinkedSession(s, rows') /\ LinkedTokens(s, rows')
    BY <2>3, <2>5 DEF LinkedSession, LinkedTokens, Kept
  <2>8. left /\ c \notin old => Harmless(s)
    BY <2>4, <2>5 DEF Harmless
  <2>9. Fits(c, s)
    BY <2>3, <2>6, <2>7, <2>8, MoveFits DEF PCs, s
  <2> QED
    BY <2>1, <2>9
<1>6. CASE call[c].pc = "rejectedTokens"
  BY <1>6 DEF Deleted, Fits
<1> QED
  BY <1>2, <1>3, <1>4, <1>5, <1>6 DEF Deleting

LEMMA DeleteKeeps ==
    ASSUME Inv, NEW c \in Calls, NEW applied \in BOOLEAN, NEW heard \in BOOLEAN,
           Delete(c, applied, heard)
    PROVE  Inv'
<1>1. /\ Deletes(call[c].pc) \in Tables /\ call[c].pc \in Deleting /\ call[c] # Idle
      /\ heard => applied
      /\ rows' \in [Tables -> Rows \union {None}]
      /\ \A t \in Tables : rows'[t] = IF applied /\ t = Deletes(call[c].pc)
                                     THEN None ELSE rows[t]
      /\ UNCHANGED <<now, issued>>
  BY DeleteDoes
<1>2. issued' <= MaxIssued
  BY <1>1, InvBounds
<1>3. CASE heard /\ call[c].pc = "leaveTokens"
  <2>1. /\ call' = [call EXCEPT ![c] = Idle] /\ left' = call[c].calm
        /\ old' = {x \in Calls \ {c} : call[x] # Idle}
    BY <1>3 DEF Delete
  <2>2. \A d \in Calls : call'[d] = IF d = c THEN Idle ELSE call[d]
    BY <2>1 DEF Inv, TypeOK
  <2>3. Turns(c, Idle) /\ Fits(c, Idle)
    BY <1>1, <1>2, <2>1 DEF Turns, Fits
  <2>4. left' \in BOOLEAN /\ old' \subseteq {d \in Calls : call'[d] # Idle}
    BY <1>1, <2>1, <2>2, SoundOf DEF Locals
  <2>5. Gone'
    <3>1. rows'["tokens"] = None
      BY <1>1, <1>3 DEF Deletes, Tables
    <3>2. left' => rows'["session"] = None
      BY <1>1, <1>3, <2>1 DEF Inv, Leaving, Tables
    <3>3. \A d \in Calls \ old' : call'[d] = Idle
      BY <2>1, <2>2
    <3> QED
      BY <3>1, <3>2, <3>3 DEF Gone, Tables
  <2> QED
    BY <1>1, <2>3, <2>4, <2>5, TurnKeeps
<1>4. CASE ~(heard /\ call[c].pc = "leaveTokens")
  <2>1. UNCHANGED left /\ Become(c, IF heard THEN Deleted(call[c]) ELSE Raised(call[c], "store"))
    BY <1>4 DEF Delete
  <2>2. \A s : Become(c, s) /\ Fits(c, s) => Inv'
    BY <1>1, <1>2, <2>1, Settled
  <2>3. CASE heard
    <3>1. \A t \in Tables : rows'[t] = IF t = Deletes(call[c].pc) THEN None ELSE rows[t]
      BY <1>1, <2>3
    <3>2. Fits(c, Deleted(call[c]))
      BY <1>1, <1>4, <2>3, <3>1, DeletedFits
    <3> QED
      BY <2>1, <2>2, <2>3, <3>2
  <2>4. CASE ~heard
    <3>1. Rests(call[c], Raised(call[c], "store"))
      BY <1>1, SoundOf, RaisedRests
    <3>2. Fits(c, Raised(call[c], "store"))
      BY <1>1, <3>1, RestsFits
    <3> QED
      BY <2>1, <2>2, <2>4, <3>2
  <2> QED
    BY <2>3, <2>4
<1> QED
  BY <1>3, <1>4

(* What the call itself becomes when it stores.                            *)
Stored(r, heard) == IF ~heard THEN Raised(r, "store")
                    ELSE IF r.pc = "put" THEN Idle ELSE NextStage(r)

LEMMA PutDoes ==
    ASSUME Inv, NEW c \in Calls, NEW applied \in BOOLEAN, NEW heard \in BOOLEAN,
           Put(c, applied, heard)
    PROVE  /\ Puts(call[c].pc) \in Tables /\ call[c] # Idle
           /\ Rests(call[c], Stored(call[c], heard))
<1>1. Puts(call[c].pc) \in Tables
  BY DEF Put
<1>2. call[c].pc \in {"put", "putTokens"}
  BY <1>1, PutsTables
<1>3. call[c] # Idle
  BY <1>2, Busy DEF PCs
<1>4. Rests(call[c], Stored(call[c], heard))
  <2>1. CASE ~heard
    BY <1>3, <2>1, SoundOf, RaisedRests DEF Stored
  <2>2. CASE heard /\ call[c].pc = "put"
    BY <2>2 DEF Stored, Rests
  <2>3. CASE heard /\ call[c].pc # "put"
    BY <1>3, <2>3, SoundOf, NextStageRests DEF Stored
  <2> QED
    BY <2>1, <2>2, <2>3
<1> QED
  BY <1>1, <1>3, <1>4

LEMMA LostPutKeeps ==
    ASSUME Inv, NEW c \in Calls, NEW heard \in BOOLEAN, Put(c, FALSE, heard)
    PROVE  Inv'
<1> DEFINE s == Stored(call[c], heard)
<1>1. Puts(call[c].pc) \in Tables /\ call[c] # Idle /\ Rests(call[c], s)
  BY PutDoes
<1>2. /\ rows' = rows /\ UNCHANGED <<now, issued>> /\ left' = left
      /\ call' = [x \in Calls |-> IF x = c THEN s ELSE call[x]]
      /\ old' = IF s = Idle THEN old \ {c} ELSE old
  BY DEF Put, Stored, Inv, TypeOK
<1> HIDE DEF s
<1>3. Become(c, s)
  <2>1. call' = [call EXCEPT ![c] = s]
    BY <1>2 DEF Inv, TypeOK
  <2> QED
    BY <1>2, <2>1 DEF Become
<1>4. Fits(c, s)
  BY <1>1, <1>2, RestsFits
<1> QED
  BY <1>1, <1>2, <1>3, <1>4, InvBounds, Settled

(* The row stored, in a field of its own.                                  *)
LEMMA SealedRow ==
    ASSUME Inv, NEW c \in Calls, NEW t \in Tables, call[c] # Idle, Puts(call[c].pc) = t
    PROVE  /\ Sealed(call[c], t) \in Rows /\ Sealed(call[c], t).id = call[c].hand[t]
           /\ call[c].hand[t] <= issued /\ call[c].hand[t] \in Ids
<1>1. call[c] \in Locals /\ Own(call[c]) /\ Early(call[c], issued)
  BY SoundOf
<1>2. call[c].hand[t] \in Ids
  BY <1>1, PutsTables DEF Own
<1>3. call[c].hand[t] <= issued
  BY <1>1, <1>2, NoneAssumption DEF Early, Ids
<1>4. call[c].ring \in Deployments /\ call[c].at \in Time
  BY <1>1 DEF Locals
<1>5. call[c].ring.active \in Keys
  BY <1>4, DeploymentsAssumption DEF Keys
<1> QED
  BY <1>2, <1>3, <1>4, <1>5 DEF Sealed, Rows

(* The record p of a call before a credential is stored, and q after it.   *)
After(p, q) ==
    /\ q \in Locals /\ q.route = p.route /\ q.ring = p.ring /\ q.at = p.at
    /\ q.found = p.found /\ q.hand = p.hand /\ q.cache = p.cache /\ q.shown = p.shown
    /\ q.pc \in {p.pc, "session"}

LEMMA StoredPutKeeps ==
    ASSUME Inv, NEW c \in Calls, NEW heard \in BOOLEAN, Put(c, TRUE, heard)
    PROVE  Inv'
<1> DEFINE s == Stored(call[c], heard)
           t == Puts(call[c].pc)
<1>1. t \in Tables /\ call[c] # Idle /\ Rests(call[c], s)
  BY PutDoes
<1>2. /\ rows' = [rows EXCEPT ![t] = Sealed(call[c], t)] /\ UNCHANGED <<now, issued>>
      /\ call' = [x \in Calls |-> IF x = c THEN s
                                  ELSE IF call[x] # Idle THEN [call[x] EXCEPT !.calm = FALSE]
                                  ELSE call[x]]
      /\ old' = IF s = Idle THEN old \ {c} ELSE old
      /\ left' = (left /\ c \notin old)
  BY DEF Put, Stored
<1>3. /\ Sealed(call[c], t) \in Rows /\ Sealed(call[c], t).id = call[c].hand[t]
      /\ call[c].hand[t] <= issued /\ call[c].hand[t] \in Ids
  BY <1>1, SealedRow
<1>4. Fresh(call, rows, c, t)
  BY <1>1 DEF Inv, AllFresh
<1>5. t = Puts(call[c].pc)
  OBVIOUS
<1>6. call[c].pc \in {"put", "putTokens"}
  BY <1>1, PutsTables
<1> HIDE DEF s, t
<1>7. \A u \in Tables : rows'[u] = IF u = t THEN Sealed(call[c], t) ELSE rows[u]
  BY <1>2, InvBounds
<1>8. ASSUME NEW d \in Calls, call'[d] # Idle
      PROVE  /\ call[d] # Idle /\ After(call[d], call'[d])
             /\ d = c => call'[d].pc = "session"
             /\ d # c => call'[d].calm = FALSE
  <2>1. CASE d = c
    <3>1. call'[d] = s
      BY <1>2, <2>1
    <3> QED
      BY <1>1, <1>8, <2>1, <3>1 DEF Rests, Same, After
  <2>2. CASE d # c
    <3>1. call[d] # Idle
      BY <1>2, <1>8, <2>2
    <3>2. call'[d] = [call[d] EXCEPT !.calm = FALSE]
      BY <1>2, <2>2, <3>1
    <3>3. call[d] \in Locals
      BY <3>1, SoundOf
    <3> QED
      BY <2>2, <3>1, <3>2, <3>3 DEF Locals, After
  <2> QED
    BY <2>1, <2>2
<1>9. TypeOK'
  <2>1. rows' \in [Tables -> Rows \union {None}]
    BY <1>2, <1>3, InvBounds
  <2>2. call' \in [Calls -> {Idle} \union Locals]
    <3>1. \A d \in Calls : call'[d] \in {Idle} \union Locals
      BY <1>8 DEF After
    <3> QED
      BY <1>2, <3>1
  <2>3. left' \in BOOLEAN /\ now' \in Time /\ issued' \in 0..MaxIssued
    BY <1>2 DEF Inv, TypeOK
  <2>4. old' \subseteq {d \in Calls : call'[d] # Idle}
    <3> SUFFICES ASSUME NEW d \in old' PROVE d \in Calls /\ call'[d] # Idle
      OBVIOUS
    <3>1. d \in old /\ (d = c => s # Idle)
      BY <1>2
    <3>2. d \in Calls /\ call[d] # Idle
      BY <3>1 DEF Inv, TypeOK
    <3>3. CASE d = c
      BY <1>2, <3>1, <3>2, <3>3
    <3>4. CASE d # c
      <4>1. call'[d] = [call[d] EXCEPT !.calm = FALSE] /\ call[d] \in Locals
        BY <1>2, <3>2, <3>4, SoundOf
      <4>2. call'[d] \in Locals
        BY <4>1 DEF Locals
      <4> QED
        BY <3>2, <4>2, IdleIsNoCall
    <3> QED
      BY <3>3, <3>4
  <2> QED
    BY <2>1, <2>2, <2>3, <2>4 DEF TypeOK, Locals
<1>10. AllSound'
  <2> SUFFICES ASSUME NEW d \in Calls, call'[d] # Idle
               PROVE  Sound(call'[d], rows', issued')
    BY DEF AllSound
  <2>1. call[d] # Idle /\ After(call[d], call'[d])
    BY <1>8
  <2>2. /\ Own(call[d]) /\ LinkedSession(call[d], rows)
        /\ LinkedTokens(call[d], rows) /\ Early(call[d], issued)
    BY <2>1, SoundOf
  <2>3. \A u \in Tables : Kept(call'[d], rows', u) => rows'[u] = rows[u] /\ Kept(call[d], rows, u)
    <3> SUFFICES ASSUME NEW u \in Tables, Kept(call'[d], rows', u)
                 PROVE  rows'[u] = rows[u] /\ Kept(call[d], rows, u)
      OBVIOUS
    <3>1. u # t
      BY <1>3, <1>4, <1>7, <2>1 DEF Kept, Fresh, After
    <3> QED
      BY <1>7, <2>1, <3>1 DEF Kept, After
  <2>4. Own(call'[d])
    BY <2>1, <2>2 DEF Own, Presents, After
  <2>5. LinkedSession(call'[d], rows')
    <3>1. Kept(call'[d], rows', "session") =>
             rows'["session"] = rows["session"] /\ Kept(call[d], rows, "session")
      BY <2>3 DEF Tables
    <3>2. OpensSession(call'[d], rows["session"]) = OpensSession(call[d], rows["session"])
      BY <2>1 DEF OpensSession, After
    <3> QED
      BY <2>1, <2>2, <3>1, <3>2 DEF LinkedSession, Presents, After
  <2>6. LinkedTokens(call'[d], rows')
    <3>1. Kept(call'[d], rows', "tokens") =>
             rows'["tokens"] = rows["tokens"] /\ Kept(call[d], rows, "tokens")
      BY <2>3 DEF Tables
    <3>2. OpensTokens(call'[d], rows["tokens"]) = OpensTokens(call[d], rows["tokens"])
      BY <2>1 DEF OpensTokens, After
    <3> QED
      BY <2>1, <2>2, <3>1, <3>2 DEF LinkedTokens, After
  <2>7. Early(call'[d], issued')
    BY <1>2, <2>1, <2>2 DEF Early, After
  <2> QED
    BY <2>4, <2>5, <2>6, <2>7 DEF Sound
<1>11. RowsEarly'
  BY <1>2, <1>3, <1>7 DEF Inv, RowsEarly
<1>12. AllFresh'
  <2> SUFFICES ASSUME NEW d \in Calls, NEW u \in Tables, call'[d] # Idle, Puts(call'[d].pc) = u
               PROVE  Fresh(call', rows', d, u)
    BY DEF AllFresh
  <2>1. call'[d].pc # "session"
    BY PutsTables
  <2>2. d # c /\ call[d] # Idle /\ call'[d].pc = call[d].pc /\ call'[d].hand = call[d].hand
    BY <1>8, <2>1 DEF After
  <2>3. Fresh(call, rows, d, u)
    BY <2>2 DEF Inv, AllFresh
  <2>4. rows'[u] # None => rows'[u].id # call[d].hand[u]
    BY <1>3, <1>4, <1>7, <2>2, <2>3 DEF Fresh
  <2>5. ASSUME NEW e \in Calls, call'[e] # Idle
        PROVE  /\ call'[e].found[u] # call[d].hand[u]
               /\ e # d /\ Puts(call'[e].pc) = u => call'[e].hand[u] # call[d].hand[u]
    <3>1. call[e] # Idle /\ After(call[e], call'[e])
      BY <1>8, <2>5
    <3>2. Puts(call'[e].pc) = u => call'[e].pc = call[e].pc
      BY <3>1, PutsTables DEF After
    <3> QED
      BY <2>3, <3>1, <3>2 DEF Fresh, After
  <2> QED
    BY <2>2, <2>4, <2>5 DEF Fresh
<1>13. Leaving'
  BY <1>8 DEF Leaving
<1>14. Gone'
  <2>1. ~left'
    BY <1>1, <1>2, <1>6, HarmlessOf DEF Harmless
  <2> QED
    BY <2>1 DEF Gone
<1> QED
  BY <1>9, <1>10, <1>11, <1>12, <1>13, <1>14 DEF Inv

LEMMA FirstPCs ==
    ASSUME NEW route
    PROVE  \/ FirstPC(route) = "login" /\ route = "connect"
           \/ FirstPC(route) = "leave" /\ route = "disconnect"
           \/ FirstPC(route) = "tokens" /\ route \in {"files", "saved"}
           \/ FirstPC(route) = "session"
<1>1. CASE route = "connect"
  BY <1>1 DEF FirstPC
<1>2. CASE route = "disconnect"
  BY <1>2 DEF FirstPC
<1>3. CASE route \in {"files", "saved"}
  BY <1>3 DEF FirstPC
<1>4. CASE route \notin {"connect", "disconnect", "files", "saved"}
  BY <1>4 DEF FirstPC
<1> QED
  BY <1>1, <1>2, <1>3, <1>4

LEMMA BeginKeeps ==
    ASSUME Inv, NEW c \in Calls, NEW route \in Routes, NEW d \in Deployments,
           Begin(c, route, d)
    PROVE  Inv'
<1> DEFINE fnd == [t \in Tables |-> Id(t)]
           pc == FirstPC(route)
           s == [pc |-> pc, route |-> route, ring |-> d, at |-> now,
                 stage |-> 1, hand |-> [t \in Tables |-> None],
                 cache |-> None, shown |-> {}, found |-> fnd, calm |-> TRUE]
<1>1. /\ call[c] = Idle /\ call' = [call EXCEPT ![c] = s]
      /\ left' = (left /\ route # "connect") /\ UNCHANGED <<now, issued, rows, old>>
  BY DEF Begin
<1>2. \/ pc = "login" /\ route = "connect"
      \/ pc = "leave" /\ route = "disconnect"
      \/ pc = "tokens" /\ route \in {"files", "saved"}
      \/ pc = "session"
  BY FirstPCs
<1>3. /\ fnd \in [Tables -> Maybe]
      /\ \A t \in Tables : fnd[t] = IF rows[t] = None THEN None ELSE rows[t].id
  BY RowIds DEF Id, Maybe
<1> HIDE DEF pc, fnd
<1>4. s \in Locals
  BY <1>2, <1>3 DEF Locals, PCs, Maybe, Inv, TypeOK
<1>5. /\ s.pc = pc /\ s.route = route /\ s.cache = None /\ s.shown = {} /\ s.found = fnd
      /\ \A t \in Tables : s.hand[t] = None
  OBVIOUS
<1> HIDE DEF s
<1>6. \A x \in Calls : call'[x] = IF x = c THEN s ELSE call[x]
  BY <1>1 DEF Inv, TypeOK
<1>7. s # Idle
  BY <1>4, IdleIsNoCall
<1>8. TypeOK'
  <2>1. call' \in [Calls -> {Idle} \union Locals]
    BY <1>1, <1>4 DEF Inv, TypeOK, Locals
  <2>2. old' \subseteq {x \in Calls : call'[x] # Idle}
    BY <1>1, <1>6, <1>7 DEF Inv, TypeOK
  <2> QED
    BY <1>1, <2>1, <2>2 DEF Inv, TypeOK, Locals
<1>9. AllSound'
  <2>1. Own(s)
    BY <1>2, <1>5 DEF Own, Presents
  <2>2. LinkedSession(s, rows) /\ LinkedTokens(s, rows)
    BY <1>2, <1>5 DEF LinkedSession, LinkedTokens, Presents
  <2>3. Early(s, issued)
    BY <1>3, <1>5 DEF Early, Inv, RowsEarly
  <2> QED
    BY <1>1, <1>6, <2>1, <2>2, <2>3 DEF Inv, AllSound, Sound
<1>10. RowsEarly'
  BY <1>1 DEF Inv, RowsEarly
<1>11. AllFresh'
  <2> SUFFICES ASSUME NEW x \in Calls, NEW t \in Tables, call'[x] # Idle, Puts(call'[x].pc) = t
               PROVE  Fresh(call', rows', x, t)
    BY DEF AllFresh
  <2>1. \A u \in Tables : Puts(s.pc) # u
    BY <1>2, <1>5, PutsTables
  <2>2. x # c /\ call'[x] = call[x]
    BY <1>6, <2>1
  <2>3. Fresh(call, rows, x, t)
    BY <2>2 DEF Inv, AllFresh
  <2>4. call[x].hand[t] \in Ids
    BY <2>2, SealedRow
  <2>5. fnd[t] # call[x].hand[t]
    BY <1>3, <2>3, <2>4, NoneAssumption DEF Fresh, Ids
  <2> QED
    BY <1>1, <1>5, <1>6, <2>1, <2>2, <2>3, <2>5 DEF Fresh
<1>12. Leaving'
  BY <1>1, <1>2, <1>5, <1>6 DEF Inv, Leaving
<1>13. Gone'
  <2>1. route # "connect" => Harmless(s)
    BY <1>2, <1>5 DEF Harmless
  <2> QED
    BY <1>1, <1>6, <2>1 DEF Inv, Gone
<1> QED
  BY <1>8, <1>9, <1>10, <1>11, <1>12, <1>13 DEF Inv

LEMMA StepInv == Inv /\ [Next]_vars => Inv'
<1> SUFFICES ASSUME Inv, [Next]_vars PROVE Inv'
  OBVIOUS
<1>1. ASSUME NEW c \in Calls, NEW a \in BOOLEAN, NEW h \in BOOLEAN, Put(c, a, h)
      PROVE  Inv'
  <2>1. CASE a = TRUE
    BY <1>1, <2>1, StoredPutKeeps
  <2>2. CASE a = FALSE
    BY <1>1, <2>2, LostPutKeeps
  <2> QED
    BY <2>1, <2>2
<1>2. CASE UNCHANGED vars
  BY <1>2, StutterKeeps
<1>3. CASE Tick
  BY <1>3, TickKeeps
<1>4. ASSUME NEW c \in Calls, NEW route \in Routes, NEW d \in Deployments, Begin(c, route, d)
      PROVE  Inv'
  BY <1>4, BeginKeeps
<1>5. ASSUME NEW c \in Calls, LoadSession(c) PROVE Inv'
  BY <1>5, LoadSessionKeeps
<1>6. ASSUME NEW c \in Calls, LoadTokens(c) PROVE Inv'
  BY <1>6, LoadTokensKeeps
<1>7. ASSUME NEW c \in Calls, LoadFails(c) PROVE Inv'
  BY <1>7, LoadFailsKeeps
<1>8. ASSUME NEW c \in Calls, NEW a \in BOOLEAN, NEW h \in BOOLEAN, Delete(c, a, h)
      PROVE  Inv'
  BY <1>8, DeleteKeeps
<1>9. ASSUME NEW c \in Calls, NEW b \in BOOLEAN, Login(c, b) PROVE Inv'
  BY <1>9, LoginKeeps
<1>10. ASSUME NEW c \in Calls, NEW b \in BOOLEAN, UseTokens(c, b) PROVE Inv'
  BY <1>10, UseTokensKeeps
<1>11. ASSUME NEW c \in Calls, NEW a \in {"accepted", "failed", "rejected"}, Use(c, a)
       PROVE  Inv'
  BY <1>11, UseKeeps
<1>12. ASSUME NEW c \in Calls,
              NEW a \in {"accepted", "unsupported", "failed", "rejected"}, Authorize(c, a)
       PROVE  Inv'
  BY <1>12, AuthorizeKeeps
<1>13. ASSUME NEW c \in Calls, Kill(c) PROVE Inv'
  BY <1>13, KillKeeps
<1> QED
  BY <1>1, <1>2, <1>3, <1>4, <1>5, <1>6, <1>7, <1>8, <1>9, <1>10, <1>11, <1>12, <1>13 DEF Next

(* What holds of the rows and the calls of every reachable state.          *)
LEMMA SpecInv == Spec => []Inv
BY InitInv, StepInv, PTL DEF Spec

(* Both tables and every call keep their types, for any deployments and    *)
(* any number of calls.                                                    *)
THEOREM CredentialTypes == Spec => []TypeOK
<1>1. Inv => TypeOK
  BY DEF Inv
<1> QED
  BY <1>1, SpecInv, PTL

(* ufmg_session_store.py RequestCachedUFMGSessionStore: every session a    *)
(* synchronisation presents is the one it keeps in its cache.              *)
THEOREM OneSession == Spec => []OneSessionPerSync
<1>1. Inv => OneSessionPerSync
  BY SoundOf DEF OneSessionPerSync, Own
<1> QED
  BY <1>1, SpecInv, PTL

(* main.py _ufmg_session, DELETE: what was in flight when a disconnection  *)
(* answered is all that can bring a credential back before the next login. *)
THEOREM DisconnectionLasts == Spec => []DisconnectSticks
<1>1. Inv => DisconnectSticks
  BY DEF Inv, Gone, DisconnectSticks
<1> QED
  BY <1>1, SpecInv, PTL

LossHasCause ==
    \A t \in Tables : rows[t] # None /\ rows'[t] # rows[t] =>
        \E c \in Calls : /\ call[c] # Idle /\ call'[c] # call[c]
                         /\ LossExplained(c, t)

(* A row that is still the one a call found is the one it met.             *)
LEMMA DeleteExplained ==
    ASSUME Inv, NEW c \in Calls, NEW a \in BOOLEAN, NEW h \in BOOLEAN, Delete(c, a, h),
           NEW t \in Tables, rows[t] # None, rows'[t] # rows[t]
    PROVE  LossExplained(c, t)
<1> SUFFICES ASSUME ~Races(c, t) PROVE LossExplained(c, t)
  BY DEF LossExplained
<1>1. call[c] # Idle /\ call[c].pc \in Deleting /\ Deletes(call[c].pc) = t
  BY DeleteDoes
<1>2. Own(call[c]) /\ LinkedSession(call[c], rows) /\ LinkedTokens(call[c], rows)
  BY <1>1, SoundOf
<1>3. Kept(call[c], rows, t)
  BY DEF Races, Kept
<1>4. CASE call[c].pc \in {"dropSession", "rejected", "leave"}
  <2>1. t = "session"
    BY <1>1, <1>4, DeletesTables
  <2> QED
    BY <1>2, <1>3, <1>4, <2>1
    DEF LinkedSession, Own, LossExplained, CannotOpen, WasRejected, Leaves, Opens
<1>5. CASE call[c].pc \in {"dropTokens", "clearTokens", "rejectedTokens", "leaveTokens"}
  <2>1. t = "tokens"
    BY <1>1, <1>5, DeletesTables
  <2> QED
    BY <1>2, <1>3, <1>5, <2>1
    DEF LinkedTokens, Own, LossExplained, CannotOpen, OfOtherTerm, WasRejected, Leaves, Opens
<1> QED
  BY <1>1, <1>4, <1>5 DEF Deleting

(* A call that deleted or stored does not stay where it was.               *)
LEMMA DeleteMoves ==
    ASSUME Inv, NEW c \in Calls, NEW a \in BOOLEAN, NEW h \in BOOLEAN, Delete(c, a, h)
    PROVE  call'[c] # call[c]
<1>1. call[c] # Idle /\ call[c].pc \in Deleting
  BY DeleteDoes
<1>2. call[c] \in Locals
  BY <1>1, SoundOf
<1>3. \A s : call' = [call EXCEPT ![c] = s] => call'[c] = s
  BY DEF Inv, TypeOK
<1>4. \A s : Rests(call[c], s) => s # call[c]
  BY <1>1 DEF Rests, Deleting
<1>5. CASE h /\ call[c].pc = "leaveTokens"
  BY <1>1, <1>3, <1>5 DEF Delete
<1>6. CASE ~h
  <2>1. call' = [call EXCEPT ![c] = Raised(call[c], "store")]
    BY <1>6 DEF Delete, Become
  <2> QED
    BY <1>2, <1>3, <1>4, <2>1, RaisedRests
<1>7. CASE h /\ call[c].pc # "leaveTokens"
  <2>1. call'[c] = Deleted(call[c])
    BY <1>3, <1>7 DEF Delete, Become
  <2>2. CASE call[c].pc \in {"dropSession", "rejected"}
    <3>1. Deleted(call[c]) = Raised(call[c], "reauth")
      BY <2>2 DEF Deleted
    <3> QED
      BY <1>2, <1>4, <2>1, <3>1, RaisedRests
  <2>3. CASE call[c].pc = "dropTokens"
    <3>1. Deleted(call[c]) \in {Idle, [call[c] EXCEPT !.pc = "authorize"]}
      BY <2>3 DEF Deleted, WithoutTokens
    <3>2. [call[c] EXCEPT !.pc = "authorize"].pc = "authorize"
      BY <1>2 DEF Locals
    <3> QED
      BY <1>1, <2>1, <2>3, <3>1, <3>2
  <2>4. CASE call[c].pc = "clearTokens"
    <3>1. Deleted(call[c]) = NextStage(call[c])
      BY <2>4 DEF Deleted
    <3> QED
      BY <1>2, <1>4, <2>1, <3>1, NextStageRests
  <2>5. CASE call[c].pc = "leave"
    <3>1. Deleted(call[c]) = [call[c] EXCEPT !.pc = "leaveTokens"]
      BY <2>5 DEF Deleted
    <3>2. [call[c] EXCEPT !.pc = "leaveTokens"].pc = "leaveTokens"
      BY <1>2 DEF Locals
    <3> QED
      BY <2>1, <2>5, <3>1, <3>2
  <2>6. CASE call[c].pc = "rejectedTokens"
    <3>1. Deleted(call[c]) = Idle
      BY <2>6 DEF Deleted
    <3> QED
      BY <1>1, <2>1, <3>1
  <2> QED
    BY <1>1, <1>7, <2>2, <2>3, <2>4, <2>5, <2>6 DEF Deleting
<1> QED
  BY <1>5, <1>6, <1>7

LEMMA PutMoves ==
    ASSUME Inv, NEW c \in Calls, NEW a \in BOOLEAN, NEW h \in BOOLEAN, Put(c, a, h)
    PROVE  call[c] # Idle /\ call'[c] # call[c]
<1>1. /\ Puts(call[c].pc) \in Tables /\ call[c] # Idle
      /\ Rests(call[c], Stored(call[c], h))
  BY PutDoes
<1>2. call[c].pc \in {"put", "putTokens"}
  BY <1>1, PutsTables
<1>3. call'[c] = Stored(call[c], h)
  BY DEF Put, Stored
<1> QED
  BY <1>1, <1>2, <1>3 DEF Rests

LEMMA StepLossHasCause == Inv /\ [Next]_vars => LossHasCause
<1> SUFFICES ASSUME Inv, [Next]_vars, NEW t \in Tables, rows[t] # None, rows'[t] # rows[t]
             PROVE  \E c \in Calls : /\ call[c] # Idle /\ call'[c] # call[c]
                                     /\ LossExplained(c, t)
  BY DEF LossHasCause
<1>1. ASSUME NEW c \in Calls, NEW a \in BOOLEAN, NEW h \in BOOLEAN, Delete(c, a, h)
      PROVE  call[c] # Idle /\ call'[c] # call[c] /\ LossExplained(c, t)
  BY <1>1, DeleteDoes, DeleteMoves, DeleteExplained
<1>2. ASSUME NEW c \in Calls, NEW a \in BOOLEAN, NEW h \in BOOLEAN, Put(c, a, h)
      PROVE  call[c] # Idle /\ call'[c] # call[c] /\ LossExplained(c, t)
  <2>1. rows' = IF a THEN [rows EXCEPT ![Puts(call[c].pc)] = Sealed(call[c], Puts(call[c].pc))]
                ELSE rows
    BY <1>2 DEF Put
  <2>2. Puts(call[c].pc) = t
    BY <2>1, InvBounds
  <2>3. LossExplained(c, t)
    BY <2>2 DEF LossExplained, Replaces
  <2> QED
    BY <1>2, <2>3, PutMoves
<1>3. CASE UNCHANGED vars \/ Tick
  BY <1>3 DEF vars, Tick
<1>4. ASSUME NEW c \in Calls, NEW route \in Routes, NEW d \in Deployments, Begin(c, route, d)
      PROVE  FALSE
  BY <1>4 DEF Begin
<1>5. ASSUME NEW c \in Calls, LoadSession(c) \/ LoadTokens(c) \/ LoadFails(c) \/ Kill(c)
      PROVE  FALSE
  <2>1. rows' = rows
    BY <1>5 DEF LoadSession, LoadTokens, LoadFails, Kill
  <2> QED
    BY <2>1
<1>6. ASSUME NEW c \in Calls, NEW b, Login(c, b) \/ UseTokens(c, b) \/ Use(c, b) \/ Authorize(c, b)
      PROVE  FALSE
  <2>1. rows' = rows
    BY <1>6 DEF Login, UseTokens, Use, Authorize
  <2> QED
    BY <2>1
<1> QED
  BY <1>1, <1>2, <1>3, <1>4, <1>5, <1>6 DEF Next

(* The delete calls of the two stores are by user and not by row: a stored *)
(* credential is still only lost to a newer one, a disconnection, a call   *)
(* that met that very credential and had a reason, or one that began       *)
(* before it was stored.                                                   *)
THEOREM CredentialLost == Spec => CredentialLostHasCause
<1>1. Spec => [][LossHasCause]_vars
  BY SpecInv, StepLossHasCause, PTL DEF Spec
<1> QED
  BY <1>1 DEF CredentialLostHasCause, LossHasCause

=============================================================================
