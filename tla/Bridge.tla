------------------------------- MODULE Bridge -------------------------------
(***************************************************************************)
(* bridge/app.py: the service beside the MetaTrader 5 terminal.  Requests  *)
(* come in over HTTP, several at a time; a client whose answer was lost    *)
(* sends the same request again, with the same idempotency key.            *)
(*                                                                         *)
(* The guards of a request run in the order of the code, each reading the  *)
(* terminal for itself; the user may switch the account in between.  The   *)
(* cache of keys lives in the process and forgets after Ttl.               *)
(***************************************************************************)
EXTENDS Integers, FiniteSets

CONSTANTS
    Requests,       \* requests, retries included
    KeyOf(_),       \* the idempotency key of a request
    KindsOf(_),     \* what it may ask for
    Logins,         \* accounts the terminal may be logged in to
    Ttl,            \* how long a key is remembered
    MaxLives        \* bound of bridge processes

Kinds == {"account", "quote", "list", "validate", "order", "change"}

BridgeAssumption ==
    Ttl \in Nat /\ MaxLives \in Nat \ {0} /\ \A r \in Requests : KindsOf(r) \subseteq Kinds

VARIABLES
    config,     \* token set, writes allowed, mock terminal, login expected (or "none")
    login,      \* the terminal's account, or "none"
    cache,      \* _IdempotencyCache: time since a key was seen
    life,       \* which bridge process this is
    req         \* progress, answer and age since admission of each request
vars == <<config, login, cache, life, req>>

Forgotten == Ttl + 1
RequestKeys == {KeyOf(r) : r \in Requests}
Answer(r, code) == req' = [req EXCEPT ![r] = [@ EXCEPT !.step = "done", !.answer = code]]
Move(r, step) == req' = [req EXCEPT ![r] = [@ EXCEPT !.step = step]]

Init ==
    /\ config \in [token : BOOLEAN, writes : BOOLEAN, mock : BOOLEAN, expected : Logins \cup {"none"}]
    /\ login \in Logins \cup {"none"}
    /\ cache = [k \in RequestKeys |-> Forgotten] /\ life = 1
    /\ req = [r \in Requests |-> [step |-> "new", answer |-> "none", age |-> 0, life |-> 0]]

(* require_token: without a configured token everything is refused.        *)
Authenticate(r) ==
    /\ req[r].step = "new"
    /\ \/ ~config.token /\ Answer(r, "503")
       \/ config.token /\ Answer(r, "401")
       \/ config.token /\ \E kind \in KindsOf(r) : Move(r, kind)
    /\ UNCHANGED <<config, login, cache, life>>

(* The readiness answer asks for no token.                                 *)
IsReady == ~config.mock /\ config.token /\ login # "none"
           /\ (config.expected # "none" => login = config.expected)
Ready(r) ==
    /\ req[r].step = "new" /\ "account" \in KindsOf(r)
    /\ Answer(r, IF IsReady THEN "ready" ELSE "not ready")
    /\ UNCHANGED <<config, login, cache, life>>

(* The reading endpoints: what the terminal has, nothing made up.  Only    *)
(* the account's says that there is no terminal; an empty list may mean    *)
(* that as well.                                                           *)
ReadAccount(r) ==
    /\ req[r].step = "account" /\ Answer(r, IF login = "none" THEN "503" ELSE "200")
    /\ UNCHANGED <<config, login, cache, life>>

ReadQuote(r) ==
    /\ req[r].step = "quote" /\ \E code \in {"200", "400", "404"} : Answer(r, code)
    /\ UNCHANGED <<config, login, cache, life>>

ReadList(r) ==
    /\ req[r].step = "list" /\ Answer(r, "200") /\ UNCHANGED <<config, login, cache, life>>

(* order/validate on its own: an answer and nothing else.                  *)
ValidateOnly(r) ==
    /\ req[r].step = "validate" /\ (Answer(r, "valid") \/ Answer(r, "invalid"))
    /\ UNCHANGED <<config, login, cache, life>>

(* position/modify and position/close are not implemented by the bridge.   *)
ChangePosition(r) == Answer(r, "501")

(* require_writes and require_expected_account, for orders and changes.    *)
CheckWrite(r) ==
    /\ req[r].step \in {"order", "change"}
    /\ IF ~config.writes THEN Answer(r, "403")
       ELSE IF config.expected = "none" \/ login = "none" THEN Answer(r, "503")
       ELSE IF login # config.expected THEN Answer(r, "409")
       ELSE IF req[r].step = "change" THEN ChangePosition(r)
       ELSE Move(r, "checked")
    /\ UNCHANGED <<config, login, cache, life>>

(* Plausible bug: a key is looked up here and recorded with the order.     *)
AdmitUnrecorded(r) ==
    /\ req[r].step = "checked"
    /\ IF cache[KeyOf(r)] <= Ttl THEN Answer(r, "409") /\ UNCHANGED cache
       ELSE /\ req' = [req EXCEPT ![r] = [@ EXCEPT !.step = "admitted", !.age = 0, !.life = life]]
            /\ UNCHANGED cache
    /\ UNCHANGED <<config, login, life>>

(* _IdempotencyCache.seen: looks the key up and records it under one lock. *)
Admit(r) ==
    /\ req[r].step = "checked"
    /\ IF cache[KeyOf(r)] <= Ttl
       THEN Answer(r, "409") /\ UNCHANGED cache
       ELSE /\ cache' = [cache EXCEPT ![KeyOf(r)] = 0]
            /\ req' = [req EXCEPT ![r] = [@ EXCEPT !.step = "admitted", !.age = 0, !.life = life]]
    /\ UNCHANGED <<config, login, life>>

(* The key is used up even when the order is then found invalid.           *)
ValidateOrder(r) ==
    /\ req[r].step = "admitted" /\ (Answer(r, "422") \/ Move(r, "valid"))
    /\ UNCHANGED <<config, login, cache, life>>

(* The broker's answer, or none: the state is then unknown.                *)
SendOrder(r) ==
    /\ req[r].step = "valid"
    /\ \E state \in {"filled", "rejected", "unknown"} : Answer(r, state)
    /\ UNCHANGED <<config, login, cache, life>>

Elapse ==
    LET Older(n) == IF n > Ttl THEN n ELSE n + 1
    IN  /\ cache' = [k \in RequestKeys |-> Older(cache[k])]
        /\ req' = [r \in Requests |-> IF req[r].life = 0 THEN req[r]
                                      ELSE [req[r] EXCEPT !.age = Older(@)]]
        /\ UNCHANGED <<config, login, life>>

SwitchAccount ==
    /\ \E l \in (Logins \cup {"none"}) \ {login} : login' = l
    /\ UNCHANGED <<config, cache, life, req>>

(* The bridge starts again: what it was handling is never answered, and no *)
(* key is remembered.                                                      *)
Restart ==
    /\ life < MaxLives /\ life' = life + 1
    /\ cache' = [k \in RequestKeys |-> Forgotten]
    /\ req' = [r \in Requests |-> IF req[r].step \in {"new", "done"} THEN req[r]
                                  ELSE [req[r] EXCEPT !.step = "done", !.answer = "lost"]]
    /\ UNCHANGED <<config, login>>

Next ==
    \/ \E r \in Requests : \/ Authenticate(r) \/ Ready(r) \/ ReadAccount(r) \/ ReadQuote(r)
                           \/ ReadList(r) \/ ValidateOnly(r)
                           \/ CheckWrite(r) \/ Admit(r) \/ ValidateOrder(r) \/ SendOrder(r)
    \/ Elapse \/ SwitchAccount \/ Restart

Spec == Init /\ [][Next]_vars

-----------------------------------------------------------------------------
TypeOK ==
    /\ login \in Logins \cup {"none"} /\ life \in 1..MaxLives
    /\ cache \in [RequestKeys -> 0..Forgotten]
    /\ \A r \in Requests : /\ req[r].step \in Kinds \cup {"new", "checked", "admitted", "valid", "done"}
                           /\ req[r].age \in 0..Forgotten

(* "A retried HTTP request cannot create a second order": two requests     *)
(* with one key, admitted by one bridge process within the window, are     *)
(* never both on their way to the broker or there, however their guards    *)
(* interleave.                                                             *)
OneOrderPerWindow ==
    \A r, q \in Requests :
        (/\ r # q /\ KeyOf(r) = KeyOf(q) /\ req[r].life = req[q].life /\ req[r].life # 0)
        => req[r].age > Ttl \/ req[q].age > Ttl
=============================================================================
