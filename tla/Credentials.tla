---------------------------- MODULE Credentials ----------------------------
(***************************************************************************)
(* The two credentials the backend keeps for a user, each sealed in a row  *)
(* of its own: the session of the UFMG portal (ufmg_session_store.py) and  *)
(* the download tokens of Moodle (moodle_token_store.py).  Requests of the *)
(* user and a synchronisation that goes through several sources in a row   *)
(* load, present, replace and delete them with one table call at a time;   *)
(* no call is conditional on the row being the one that was read.  While   *)
(* keys are rotated two deployments with different keyrings answer.        *)
(***************************************************************************)
EXTENDS Integers, Sequences

CONSTANTS
    Calls,        \* invocations of the function
    Deployments,  \* keyrings: [keys |-> versions it opens, active |-> the one it seals with]
    Routes,       \* the routes that are called
    Life,         \* how long a credential lives: 9 hours, 180 days
    TermLength,   \* half a year
    None,         \* no row, nothing in hand
    MaxTime,      \* bound: the last moment
    MaxIssued     \* bound: credentials the portal and Moodle issue

Tables == {"session", "tokens"}

ASSUME DeploymentsAssumption == \A d \in Deployments : d.active \in d.keys
ASSUME LifeAssumption == Life \in [Tables -> Nat]
ASSUME BoundsAssumption == MaxTime \in Nat /\ MaxIssued \in Nat
ASSUME TermAssumption == TermLength \in Nat \ {0}
ASSUME NoneAssumption == None \notin 1..MaxIssued

VARIABLES
    now,     \* the time
    issued,  \* credentials issued so far; each is known by its number
    rows,    \* the user's row in each table
    call,    \* what each invocation is doing
    left,    \* history: disconnected, and nothing excuses a credential since
    old      \* history: invocations in flight when the disconnection ended

vars == <<now, issued, rows, call, left, old>>

Time == 0..MaxTime
Ids == 1..MaxIssued
Keys == UNION {d.keys : d \in Deployments}
Rows == [id : Ids, key : Keys, at : Time]
Maybe == Ids \union {None}

Idle == [pc |-> "idle"]

(* A route that needs the portal goes through stages.  A "source" is an    *)
(* import or a listing; the activities of the courses are the "snapshots". *)
Stages(route) ==
    CASE route = "sync"   -> <<"source", "source", "source", "probe", "snapshots", "source">>
      [] route = "moodle" -> <<"source", "source", "probe", "snapshots">>
      [] route = "siga"   -> <<"source", "source">>
      [] route = "probe"  -> <<"probe">>
      [] OTHER            -> <<"source">>

FirstPC(route) ==
    CASE route = "connect"    -> "login"
      [] route = "disconnect" -> "leave"
      [] route \in {"files", "saved"} -> "tokens"
      [] OTHER -> "session"

Init == /\ now = 0
        /\ issued = 0
        /\ rows = [t \in Tables |-> None]
        /\ call = [c \in Calls |-> Idle]
        /\ left = FALSE
        /\ old = {}

Id(t) == IF rows[t] = None THEN None ELSE rows[t].id

(* Every route reads the clock once.  "found" and "calm" are history: the  *)
(* rows when the call began, and that none was stored since.               *)
Begin(c, route, d) ==
    /\ call[c] = Idle
    /\ call' = [call EXCEPT ![c] =
                  [pc |-> FirstPC(route), route |-> route, ring |-> d, at |-> now,
                   stage |-> 1, hand |-> [t \in Tables |-> None],
                   cache |-> None, shown |-> {},
                   found |-> [t \in Tables |-> Id(t)], calm |-> TRUE]]
    /\ left' = (left /\ route # "connect")
    /\ UNCHANGED <<now, issued, rows, old>>

(* A deployment opens the row with any key it knows, until it expires; a   *)
(* row it cannot open is one to delete.                                    *)
OpensSession(r, row) == row.key \in r.ring.keys /\ row.at + Life["session"] > r.at
OpensTokens(r, row) == row.key \in r.ring.keys /\ row.at + Life["tokens"] > r.at

Opens(c, t) == IF t = "session" THEN OpensSession(call[c], rows[t])
                                ELSE OpensTokens(call[c], rows[t])

(* What seal returns: the active key and the moment the call began.        *)
Sealed(r, t) == [id |-> r.hand[t], key |-> r.ring.active, at |-> r.at]

Term(t) == t \div TermLength

(* The lines below take the record r of a call. *)
Stage(r) == Stages(r.route)[r.stage]

NextStage(r) == IF r.stage < Len(Stages(r.route))
                THEN [r EXCEPT !.pc = "session", !.stage = @ + 1]
                ELSE Idle

(* What moodle_sync.py goes on after: anything in the snapshots, and in    *)
(* the probe everything but a rejected session.                            *)
Swallowed(r, error) == \/ Stage(r) = "snapshots"
                       \/ Stage(r) = "probe" /\ error # "reauth"

Raised(r, error) == IF Swallowed(r, error) THEN NextStage(r) ELSE Idle

Become(c, r) == /\ call' = [call EXCEPT ![c] = r]
                /\ old' = IF r = Idle THEN old \ {c} ELSE old

(* A mutant: every stage loads the session anew.                           *)
WithSessionUncached(r, id) ==
    IF r.route = "status"
    THEN Idle
    ELSE [r EXCEPT !.pc = IF Stage(r) = "probe" THEN "tokens" ELSE "use",
                   !.hand["session"] = id]

(* With the session in hand, a stage asks its source or looks for tokens.  *)
WithSession(r, id) ==
    IF r.route = "status"
    THEN Idle
    ELSE [r EXCEPT !.pc = IF Stage(r) = "probe" THEN "tokens" ELSE "use",
                   !.hand["session"] = id,
                   !.cache = IF r.route = "sync" THEN id ELSE None]

(* load of RequestCachedUFMGSessionStore, which only a whole               *)
(* synchronisation has, and of the store.                                  *)
LoadSession(c) ==
    LET r == call[c] IN
    /\ r.pc = "session"
    /\ Become(c, IF r.cache # None THEN WithSession(r, r.cache)
                 ELSE IF rows["session"] = None THEN Raised(r, "reauth")
                 ELSE IF Opens(c, "session") THEN WithSession(r, rows["session"].id)
                 ELSE [r EXCEPT !.pc = "dropSession"])
    /\ UNCHANGED <<now, issued, rows, left>>

(* Tokens are used by a probe of the same term and by a list of files,     *)
(* which asks for a term; a saved activity only reads them.                *)
WithTokens(r, row) ==
    CASE r.route = "files" -> {Idle, [r EXCEPT !.pc = "useTokens", !.hand["tokens"] = row.id]}
      [] r.route = "saved" -> {Idle}
      [] OTHER -> {IF Term(row.at) = Term(r.at) THEN NextStage(r)
                   ELSE [r EXCEPT !.pc = "authorize"]}

WithoutTokens(r) ==
    IF r.route \in {"files", "saved"} THEN Idle ELSE [r EXCEPT !.pc = "authorize"]

LoadTokens(c) ==
    LET r == call[c] IN
    /\ r.pc = "tokens"
    /\ \E s \in IF rows["tokens"] = None THEN {WithoutTokens(r)}
                ELSE IF Opens(c, "tokens") THEN WithTokens(r, rows["tokens"])
                ELSE {[r EXCEPT !.pc = "dropTokens"]} :
            Become(c, s)
    /\ UNCHANGED <<now, issued, rows, left>>

(* A mutant: whatever a get raises, the row is taken for one to delete.    *)
LoadFailsDrops(c) ==
    /\ call[c].pc \in {"session", "tokens"}
    /\ Become(c, [call[c] EXCEPT !.pc = IF @ = "session" THEN "dropSession" ELSE "dropTokens"])
    /\ UNCHANGED <<now, issued, rows, left>>

(* A get of a table raises. *)
LoadFails(c) ==
    /\ call[c].pc \in {"session", "tokens"}
    /\ Become(c, Raised(call[c], "store"))
    /\ UNCHANGED <<now, issued, rows, left>>

(* A mutant: a disconnection deletes the session twice, the tokens never.  *)
DeletesSession(pc) ==
    CASE pc \in {"dropSession", "rejected", "leave", "leaveTokens"} -> "session"
      [] pc \in {"dropTokens", "clearTokens", "rejectedTokens"} -> "tokens"
      [] OTHER -> "none"

Deletes(pc) == CASE pc \in {"dropSession", "rejected", "leave"} -> "session"
                 [] pc \in {"dropTokens", "clearTokens", "rejectedTokens", "leaveTokens"} -> "tokens"
                 [] OTHER -> "none"

Deleted(r) ==
    CASE r.pc \in {"dropSession", "rejected"} -> Raised(r, "reauth")
      [] r.pc = "dropTokens"  -> WithoutTokens(r)
      [] r.pc = "clearTokens" -> NextStage(r)
      [] r.pc = "leave"       -> [r EXCEPT !.pc = "leaveTokens"]
      [] OTHER                -> Idle

(* The row is deleted by the user's identifier, whatever it holds by now;  *)
(* the answer to the delete may be lost, or the delete itself.             *)
Delete(c, applied, heard) ==
    LET r == call[c] IN
    /\ Deletes(r.pc) \in Tables
    /\ heard => applied
    /\ rows' = IF applied THEN [rows EXCEPT ![Deletes(r.pc)] = None] ELSE rows
    /\ IF heard /\ r.pc = "leaveTokens"
       THEN /\ call' = [call EXCEPT ![c] = Idle]
            /\ left' = r.calm
            /\ old' = {x \in Calls \ {c} : call[x] # Idle}
       ELSE /\ Become(c, IF heard THEN Deleted(r) ELSE Raised(r, "store"))
            /\ UNCHANGED left
    /\ UNCHANGED <<now, issued>>

(* The portal takes the user's password, or the login fails. *)
Login(c, ok) ==
    LET r == call[c] IN
    /\ r.pc = "login"
    /\ ok => issued < MaxIssued
    /\ issued' = IF ok THEN issued + 1 ELSE issued
    /\ Become(c, IF ok THEN [r EXCEPT !.pc = "put", !.hand["session"] = issued + 1] ELSE Idle)
    /\ UNCHANGED <<now, rows, left>>

(* A source is asked with the session in hand.  Only the sources delete a  *)
(* session they are told is rejected.                                      *)
Use(c, answer) ==
    LET r == [call[c] EXCEPT !.shown = @ \union {call[c].hand["session"]}] IN
    /\ call[c].pc = "use"
    /\ Become(c, CASE answer = "accepted" -> NextStage(r)
                   [] answer = "failed"   -> Raised(r, "other")
                   [] answer = "rejected" -> IF Stage(r) = "source"
                                             THEN [r EXCEPT !.pc = "rejected"]
                                             ELSE Raised(r, "reauth"))
    /\ UNCHANGED <<now, issued, rows, left>>

(* authorize_mobile_download; its token is issued by Moodle. *)
Authorize(c, answer) ==
    LET r == [call[c] EXCEPT !.shown = @ \union {call[c].hand["session"]}] IN
    /\ call[c].pc = "authorize"
    /\ answer = "accepted" => issued < MaxIssued
    /\ issued' = IF answer = "accepted" THEN issued + 1 ELSE issued
    /\ Become(c, CASE answer = "accepted"    -> [r EXCEPT !.pc = "putTokens",
                                                          !.hand["tokens"] = issued + 1]
                   [] answer = "unsupported" -> [r EXCEPT !.pc = "clearTokens"]
                   [] answer = "failed"      -> Raised(r, "other")
                   [] answer = "rejected"    -> [r EXCEPT !.pc = "rejected"])
    /\ UNCHANGED <<now, rows, left>>

(* list_module_files: tokens Moodle rejects are deleted. *)
UseTokens(c, rejected) ==
    LET r == call[c] IN
    /\ r.pc = "useTokens"
    /\ Become(c, IF rejected THEN [r EXCEPT !.pc = "rejectedTokens"] ELSE Idle)
    /\ UNCHANGED <<now, issued, rows, left>>

Puts(pc) == CASE pc = "put" -> "session" [] pc = "putTokens" -> "tokens" [] OTHER -> "none"

(* The sealed row replaces whatever is there.                              *)
Put(c, applied, heard) ==
    LET r == call[c]
        t == Puts(r.pc)
        s == IF ~heard THEN Raised(r, "store")
             ELSE IF r.pc = "put" THEN Idle ELSE NextStage(r)
    IN  /\ t \in Tables
        /\ heard => applied
        /\ rows' = IF applied
                   THEN [rows EXCEPT ![t] = Sealed(r, t)]
                   ELSE rows
        /\ call' = [x \in Calls |-> IF x = c THEN s
                                    ELSE IF call[x] # Idle /\ applied
                                    THEN [call[x] EXCEPT !.calm = FALSE]
                                    ELSE call[x]]
        /\ old' = IF s = Idle THEN old \ {c} ELSE old
        /\ left' = (left /\ ~(applied /\ c \in old))
        /\ UNCHANGED <<now, issued>>

(* The invocation ends, by its timeout or a crash. *)
Kill(c) == /\ call[c] # Idle
           /\ Become(c, Idle)
           /\ UNCHANGED <<now, issued, rows, left>>

Tick == /\ now < MaxTime
        /\ now' = now + 1
        /\ UNCHANGED <<issued, rows, call, left, old>>

Next == \/ \E c \in Calls :
             \/ \E route \in Routes, d \in Deployments : Begin(c, route, d)
             \/ LoadSession(c) \/ LoadTokens(c) \/ LoadFails(c)
             \/ \E a, h \in BOOLEAN : Delete(c, a, h) \/ Put(c, a, h)
             \/ \E b \in BOOLEAN : Login(c, b) \/ UseTokens(c, b)
             \/ \E a \in {"accepted", "failed", "rejected"} : Use(c, a)
             \/ \E a \in {"accepted", "unsupported", "failed", "rejected"} : Authorize(c, a)
             \/ Kill(c)
        \/ Tick

Spec == Init /\ [][Next]_vars

-----------------------------------------------------------------------------

PCs == {"login", "put", "session", "dropSession", "use", "rejected", "tokens",
        "dropTokens", "authorize", "putTokens", "clearTokens", "useTokens",
        "rejectedTokens", "leave", "leaveTokens"}

(* Both tables, every call and the history keep their types; only a whole  *)
(* synchronisation has a cache.                                            *)
TypeOK ==
    /\ now \in Time
    /\ issued \in 0..MaxIssued
    /\ rows \in [Tables -> Rows \union {None}]
    /\ call \in [Calls -> {Idle} \union
                   [pc : PCs, route : Routes, ring : Deployments, at : Time, stage : 1..6,
                    hand : [Tables -> Maybe], cache : Maybe, shown : SUBSET Ids,
                    found : [Tables -> Maybe], calm : BOOLEAN]]
    /\ left \in BOOLEAN
    /\ old \subseteq {c \in Calls : call[c] # Idle}

(* Why a call takes a credential away. *)
Replaces(c, t) == Puts(call[c].pc) = t
Races(c, t) == call[c].found[t] # rows[t].id
Leaves(c) == call[c].route = "disconnect"
WasRejected(c, t) == call[c].pc \in {"rejected", "rejectedTokens"} /\ call[c].hand[t] = rows[t].id
CannotOpen(c, t) == call[c].pc \in {"dropSession", "dropTokens", "clearTokens"} /\ ~Opens(c, t)
OfOtherTerm(c, t) == call[c].pc = "clearTokens" /\ Term(rows[t].at) # Term(call[c].at)

LossExplained(c, t) == \/ Replaces(c, t) \/ Races(c, t) \/ Leaves(c) \/ WasRejected(c, t)
                       \/ CannotOpen(c, t) \/ OfOtherTerm(c, t)

(* ufmg_session_store.py delete and moodle_token_store.py delete are by    *)
(* user, not by row: a stored credential is taken away only by a newer     *)
(* one, a disconnection, a call that presented that very credential and    *)
(* was told it is rejected, a call whose deployment cannot open it or for  *)
(* which it expired, or a call that began before it was stored.            *)
CredentialLostHasCause ==
    [][\A t \in Tables : rows[t] # None /\ rows'[t] # rows[t] =>
          \E c \in Calls : /\ call[c] # Idle /\ call'[c] # call[c]
                           /\ LossExplained(c, t)]_vars

(* ufmg_session_store.py RequestCachedUFMGSessionStore: "Reuse one         *)
(* decrypted session snapshot inside a single function request": however   *)
(* many sources a synchronisation asks and whoever logs in meanwhile, they *)
(* all see the same session.                                               *)
OneSessionPerSync ==
    \A c \in Calls : call[c] # Idle /\ call[c].route = "sync" =>
        \A x, y \in call[c].shown : x = y

(* main.py _ufmg_session, DELETE: once a disconnection has answered,       *)
(* nothing is left of the user's credentials and nothing comes back before *)
(* the next login, except by a call that was in flight at the time.        *)
DisconnectSticks == left => \A t \in Tables : rows[t] = None

=============================================================================
