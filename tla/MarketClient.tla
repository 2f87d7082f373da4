---------------------------- MODULE MarketClient ----------------------------
(***************************************************************************)
(* The warframe.market client (crates/wf-market): what one call does to    *)
(* the limits of its route, what its answer does to the caches of the      *)
(* client, and what a sign-in carries over from the client without an      *)
(* account to the one with it.  Calls overlap: each keeps the limit of its *)
(* route as it read it before it waited, took the gate's permission, and   *)
(* was sent.  The gate itself is MarketLimiter; what the cached orders are *)
(* used for is OrderLists.                                                 *)
(***************************************************************************)
EXTENDS ApiRoutes, Naturals, FiniteSets, Sequences

CONSTANTS
  Callers,     \* tasks that call the market on their own
  Used,        \* keys of the endpoints these tasks call
  Auctions,    \* auctions of the account
  MaxCalls,    \* bound: calls made
  MaxAuctions  \* bound: auctions an account without premium may have (50)

VARIABLES
  limits,      \* per_route_limiter: key -> [tier, n, wait] or NoLimit
  refused,     \* keys of which some call was answered 429
  tracking,    \* calls made so far
  calls,       \* the call each task is in
  routes,      \* client -> its initialised routes
  cached,      \* client -> its filled caches
  auctions,    \* client -> its cached auctions
  premium,     \* client -> its order and auction limits are those of premium
  login        \* how far the sign-in is

vars == <<limits, refused, tracking, calls, routes, cached, auctions, premium, login>>

-----------------------------------------------------------------------------
(* Limits of a route.                                                       *)

Tier(t, n) == [tier |-> t, n |-> n]
REQUESTS_PER_SECOND == Tier("PerSecond", 3)

PerHour(q) == q.n * (CASE q.tier = "PerSecond" -> 3600
                       [] q.tier = "PerMinute" -> 60
                       [] q.tier = "PerHour"   -> 1)

downgrade(q) ==
  CASE q.tier = "PerSecond" -> Tier("PerMinute", 50)
    [] q.tier = "PerMinute" -> Tier("PerHour", 2)
    [] q.tier = "PerHour"   -> Tier("PerHour", 1)

sub_tract(q, v) == [q EXCEPT !.n = IF @ > v THEN @ - v ELSE 1]

Tightened(q) == IF q.n > 1 THEN sub_tract(q, 1) ELSE downgrade(q)

NoLimit == [tier |-> "none", n |-> 0, wait |-> 0]
LimitOf(l) == IF l = NoLimit THEN REQUESTS_PER_SECOND ELSE Tier(l.tier, l.n)

set_rate_limit_for_route(key, q, wait) ==
  limits' = [limits EXCEPT ![key] = [tier |-> q.tier, n |-> q.n, wait |-> wait]]

\* Plausible bug: the wait is cleared by forgetting the route.
clear_wait_time_Forgets(key) == limits' = [limits EXCEPT ![key] = NoLimit]

clear_wait_time(key) ==
  limits' = [limits EXCEPT ![key] = IF @ = NoLimit THEN @ ELSE [@ EXCEPT !.wait = 0]]

-----------------------------------------------------------------------------
(* What an answer is taken for.  A refusal's text is searched for the names *)
(* of the limits; the name of the order limit is a part of the other's.     *)

Statuses == {200, 400, 401, 403, 404, 418, 429, 500}
Texts == {"ok", "unreadable", "other", "exceededOrderLimit", "exceededOrderLimitSamePrice",
          "exceededAuctionLimit"}

contains_error(text, name) ==
  text = name \/ (text = "exceededOrderLimitSamePrice" /\ name = "exceededOrderLimit")

Named(status, text) ==
  CASE text = "unreadable"                                  -> "ParsingError"
    [] contains_error(text, "exceededOrderLimitSamePrice")  -> "OrderLimitExceededSamePrice"
    [] contains_error(text, "exceededOrderLimit")
         /\ ~contains_error(text, "exceededOrderLimitSamePrice") -> "OrderLimitExceeded"
    [] contains_error(text, "exceededAuctionLimit")         -> "AuctionLimitExceeded"
    [] text \in {"ok", "other"} /\ status = 403             -> "Forbidden"
    [] text \in {"ok", "other"} /\ status = 404             -> "NotFound"
    [] text \in {"ok", "other"} /\ status = 400             -> "BadRequest"

Outcome(status, text) ==
  CASE status = 200              -> IF text = "unreadable" THEN "ParsingError" ELSE "Ok"
    [] status = 401              -> "Unauthorized"
    [] status = 429              -> "TooManyRequests"
    [] status = 500              -> "InternalServerError"
    [] status \in {400, 403, 404} -> Named(status, text)
    [] OTHER                     -> "Unknown"

Answers == {a \in Statuses \X Texts : a[1] \in {400, 403, 404} \/ a[2] \in {"ok", "unreadable"}}

\* A sign-in tells every network failure and every bad request as wrong credentials.
signin(kind) == IF kind \in {"BadRequest", "RequestError"} THEN "InvalidCredentials" ELSE kind

-----------------------------------------------------------------------------
Clients == {"anonymous", "account"}
Idle == [pc |-> "idle", key |-> "none", quota |-> REQUESTS_PER_SECOND, client |-> "anonymous",
         result |-> "none"]
Tasks == Callers \cup {"login"}

Keys == Used \cup {"POST:auth:signin", "GET:user:me", "GET:orders:my"}

Init ==
  /\ \E past \in {NoLimit, [tier |-> "PerSecond", n |-> 1, wait |-> 0],
                  [tier |-> "PerMinute", n |-> 1, wait |-> 0],
                  [tier |-> "PerHour", n |-> 1, wait |-> 0]} :   \* refused before
       /\ limits = [k \in Keys |-> past]
       /\ refused = IF past = NoLimit THEN {} ELSE Keys
  /\ tracking = 0
  /\ calls = [t \in Tasks |-> Idle]
  /\ routes = [c \in Clients |-> {}] /\ cached = [c \in Clients |-> {}]
  /\ auctions = [c \in Clients |-> {}] /\ premium = [c \in Clients |-> FALSE]
  /\ login = "none"

\* The client a task starts a call with: the newest one.
Current == IF login = "done" THEN "account" ELSE "anonymous"

set_order_limit(c) == premium' = [premium EXCEPT ![c] = TRUE]
can_create_auction(c) == premium[c] \/ Cardinality(auctions[c]) < MaxAuctions

Begins(t, key, c) ==
  /\ calls[t].pc = "idle" /\ tracking < MaxCalls
  /\ tracking' = tracking + 1
  /\ routes' = [routes EXCEPT ![c] = @ \cup {RouteOf(Of(key))}]
  /\ calls' = [calls EXCEPT ![t] =
       [pc |-> IF limits[key].wait > 0 THEN "waits" ELSE "gate", key |-> key,
        quota |-> LimitOf(limits[key]), client |-> c, result |-> "none"]]

\* Filled caches are answered without a call; auctions are not created past the limit.
Call(t, key) ==
  /\ Of(key) \in AccountOnly => Current = "account"
  /\ Of(key).effect = "memo" => Of(key).cache \notin cached[Current]
  /\ key = "POST:auctions:create" => can_create_auction(Current)
  /\ Begins(t, key, Current)
  /\ UNCHANGED <<limits, refused, cached, auctions, premium, login>>

\* The wait that was read (if any) is slept through and then cleared, whatever it is by now.
Slept(t) ==
  /\ calls[t].pc = "waits"
  /\ calls' = [calls EXCEPT ![t].pc = "gate"]
  /\ clear_wait_time(calls[t].key)
  /\ UNCHANGED <<refused, tracking, routes, cached, auctions, premium, login>>

\* What a call returned is followed up only for the sign-in.
Ends(t, result) ==
  calls' = [calls EXCEPT ![t] = [Idle EXCEPT !.result = IF t = "login" THEN result ELSE "none"]]

GateRefuses(t) == \* the breaker is open: nothing is sent
  /\ calls[t].pc = "gate"
  /\ Ends(t, "RequestError")
  /\ UNCHANGED <<limits, refused, tracking, routes, cached, auctions, premium, login>>

Sent(t) == \* the gate and then the limiter of the route let it through
  /\ calls[t].pc = "gate"
  /\ calls' = [calls EXCEPT ![t].pc = "sent"]
  /\ UNCHANGED <<limits, refused, tracking, routes, cached, auctions, premium, login>>

NoAnswer(t) ==
  /\ calls[t].pc = "sent"
  /\ Ends(t, "RequestError")
  /\ UNCHANGED <<limits, refused, tracking, routes, cached, auctions, premium, login>>

Effect(e, c, a) ==
  /\ cached' = IF e.effect \in {"memo", "fill"} THEN [cached EXCEPT ![c] = @ \cup {e.cache}] ELSE cached
  /\ auctions' = [auctions EXCEPT ![c] = CASE e.effect = "add"     -> @ \cup {a}
                                           [] e.effect = "remove"  -> @ \ {a}
                                           [] e.effect = "replace" -> {a}
                                           [] OTHER                -> @]

Answered(t, status, text) ==
  /\ calls[t].pc = "sent"
  /\ LET k == calls[t].key kind == Outcome(status, text) IN
     /\ Ends(t, kind)
     /\ IF kind = "Ok" THEN \E a \in Auctions : Effect(Of(k), calls[t].client, a)
                       ELSE UNCHANGED <<cached, auctions>>
     /\ IF status = 429
        THEN /\ \E seconds \in {1, 2} :
                  set_rate_limit_for_route(k, Tightened(calls[t].quota), seconds)
             /\ refused' = refused \cup {k}
        ELSE UNCHANGED <<limits, refused>>
  /\ UNCHANGED <<tracking, routes, premium, login>>

-----------------------------------------------------------------------------
(* Signing in: the account's client is filled by refresh, then takes over   *)
(* the routes of the client without an account that it has not itself       *)
(* initialised.                                                             *)

LoginCalls == [signin |-> "POST:auth:signin", me |-> "GET:user:me", orders |-> "GET:orders:my"]

LoginStep(from, to) ==
  /\ login = from
  /\ Begins("login", LoginCalls[to], IF to = "signin" THEN "anonymous" ELSE "account")
  /\ login' = to
  /\ UNCHANGED <<limits, refused, cached, auctions, premium>>

LoginFails ==
  /\ login \in DOMAIN LoginCalls /\ calls["login"].pc = "idle"
  /\ signin(calls["login"].result) /= "Ok"
  /\ login' = "none"   \* the half-made client is dropped
  /\ routes' = [routes EXCEPT !["account"] = {}]
  /\ cached' = [cached EXCEPT !["account"] = {}]
  /\ calls' = [calls EXCEPT !["login"].result = "none"]
  /\ UNCHANGED <<limits, refused, tracking, auctions, premium>>

Advanced(from) == login = from /\ calls["login"].pc = "idle" /\ calls["login"].result = "Ok"

login_signin == calls["login"].pc = "idle" /\ LoginStep("none", "signin")
refresh_me == Advanced("signin") /\ LoginStep("signin", "me")
refresh_orders == Advanced("me") /\ LoginStep("me", "orders")

\* Plausible bug: the old client's routes replace those that refresh filled.
TakenOver_All == routes["anonymous"]

\* The routes taken over: setting a route that is there already does nothing.
TakenOver == routes["anonymous"] \ routes["account"]

create_authenticated_client(tier) ==
  /\ Advanced("orders")
  /\ login' = "done"
  /\ LET filled == IF tier THEN {"order", "auction"} ELSE {}
         mine   == routes["account"] \cup filled
         taken  == TakenOver \ filled
     IN /\ routes' = [routes EXCEPT !["account"] = mine \cup taken]
        /\ cached' = [cached EXCEPT !["account"] =
             (@ \ UNION {CachesOf(r) : r \in taken})
               \cup (cached["anonymous"] \cap UNION {CachesOf(r) : r \in taken})]
        /\ auctions' = [auctions EXCEPT !["account"] =
             IF "auction" \in taken THEN auctions["anonymous"] ELSE @]
  /\ IF tier THEN set_order_limit("account") ELSE UNCHANGED premium
  /\ calls' = [calls EXCEPT !["login"].result = "none"]
  /\ UNCHANGED <<limits, refused, tracking>>

NoTier == \* an account without a tier is not signed in at all
  /\ Advanced("orders")
  /\ calls' = [calls EXCEPT !["login"].result = "Unknown"]
  /\ UNCHANGED <<limits, refused, tracking, routes, cached, auctions, premium, login>>

Next ==
  \/ \E t \in Callers, k \in Used : Call(t, k)
  \/ \E t \in Tasks : Slept(t) \/ GateRefuses(t) \/ Sent(t) \/ NoAnswer(t)
  \/ \E t \in Tasks, a \in Answers : Answered(t, a[1], a[2])
  \/ login_signin \/ refresh_me \/ refresh_orders \/ LoginFails \/ NoTier
  \/ \E tier \in BOOLEAN : create_authenticated_client(tier)

Spec == Init /\ [][Next]_vars

-----------------------------------------------------------------------------
\* A route that was once answered 429 never goes back to the common rate, in
\* whatever order overlapping calls read its limit, sleep and are answered.
RefusedRoutesStaySlower ==
  \A k \in refused : PerHour(LimitOf(limits[k])) < PerHour(REQUESTS_PER_SECOND)

\* A signed-in client knows its user and its orders, whatever the client it
\* was made from had cached: refresh fills them before the routes are taken over.
SignedInKnowsItsOrders ==
  login = "done" => {"user", "orders"} \subseteq cached["account"]

-----------------------------------------------------------------------------
(* Why it holds: the inductive invariant.                                   *)

\* The limits a route can get to from the common one, by refusal after refusal.
Quotas == [tier : {"PerSecond"}, n : 1..3] \cup [tier : {"PerMinute"}, n : 1..50]
            \cup [tier : {"PerHour"}, n : 1..2]

Results == {"none", "Ok", "RequestError", "ParsingError", "Unauthorized", "TooManyRequests",
            "InternalServerError", "Unknown", "OrderLimitExceededSamePrice", "OrderLimitExceeded",
            "AuctionLimitExceeded", "Forbidden", "NotFound", "BadRequest"}

Calls == [pc : {"idle", "waits", "gate", "sent"}, key : Keys \cup {"none"}, quota : Quotas,
          client : Clients, result : Results]

TypeOK ==
  /\ limits \in [Keys -> {NoLimit} \cup [tier : {"PerSecond", "PerMinute", "PerHour"}, n : Nat, wait : Nat]]
  /\ \A k \in Keys : LimitOf(limits[k]) \in Quotas
  /\ refused \subseteq Keys
  /\ tracking \in Nat
  /\ calls \in [Tasks -> Calls]
  /\ \A t \in Tasks : calls[t].pc # "idle" => calls[t].key \in Keys
  /\ routes \in [Clients -> SUBSET DOMAIN Routes]
  /\ DOMAIN cached = Clients
  /\ DOMAIN auctions = Clients
  /\ premium \in [Clients -> BOOLEAN]
  /\ login \in {"none", "signin", "me", "orders", "done"}

\* The call of a sign-in is that of its step, on the account's client from the second on.
LoginCallsInOrder ==
  /\ login \in {"none", "done"} => calls["login"].pc = "idle" /\ calls["login"].result # "Ok"
  /\ login \in DOMAIN LoginCalls /\ calls["login"].pc # "idle" => calls["login"].key = LoginCalls[login]
  /\ login \in {"me", "orders"} /\ calls["login"].pc # "idle" => calls["login"].client = "account"

\* What refresh has fetched so far is cached, by routes the account's client has of its own.
RefreshedSoFar ==
  /\ login \in {"me", "orders"} => "user" \in routes["account"]
  /\ login = "orders" => "order" \in routes["account"] /\ "user" \in cached["account"]
  /\ Advanced("me") => "user" \in cached["account"]
  /\ Advanced("orders") => "orders" \in cached["account"]

ClientInv == TypeOK /\ RefusedRoutesStaySlower /\ LoginCallsInOrder /\ RefreshedSoFar /\ SignedInKnowsItsOrders
=============================================================================
