---------------------------- MODULE ServicesProofs ----------------------------
(***************************************************************************)
(* Theorems about the services of MCServices that are not the collector's:  *)
(* the market client, the daily backup and the database's upgrades, for any *)
(* callers, releases and bounds.                                            *)
(***************************************************************************)
EXTENDS MCServices, FiniteSetTheorems, WellFoundedInduction, TLAPS

-----------------------------------------------------------------------------
(* The market client.                                                       *)

\* Only the user's route has a cache of the user, only the orders' one of the orders.
LEMMA CachesOfLogin ==
  ASSUME NEW r \in DOMAIN C!Routes, NEW e \in C!Routes[r]
  PROVE  (e.cache = "user" => r = "user") /\ (e.cache = "orders" => r = "order")
<1> DEFINE Other(Q) == \A f \in Q : f.cache \notin {"user", "orders"}
<1> USE DEF C!Endpoint, C!Plain, C!Memo
<1>1. Other(C!ManifestRoute) /\ Other(C!ItemRoute) /\ Other(C!RivenRoute)
  BY DEF C!ManifestRoute, C!ItemRoute, C!RivenRoute
<1>2. Other(C!LichRoute) /\ Other(C!SisterRoute) /\ Other(C!AchievementRoute)
  BY DEF C!LichRoute, C!SisterRoute, C!AchievementRoute
<1>3. Other(C!AuthenticationRoute) /\ Other(C!ChatRoute)
  BY DEF C!AuthenticationRoute, C!Chats, C!ChatRoute
<1>4. Other(C!AuctionRoute)
  BY DEF C!AuctionLookups, C!AuctionChanges, C!AuctionRoute
<1>5. \A f \in C!UserRoute : f.cache # "orders"
  BY DEF C!UserRoute
<1>6. \A f \in C!OrderRoute : f.cache # "user"
  BY DEF C!OrderLookups, C!OrderRoute
<1> QED
  BY <1>1, <1>2, <1>3, <1>4, <1>5, <1>6 DEF C!Routes

\* What the calls of a sign-in fetch, and the routes they belong to.
LEMMA LoginEndpoints ==
  /\ C!Of("GET:user:me") = C!Endpoint("GET:user:me", "V2", "fill", "user")
  /\ C!Of("GET:orders:my") = C!Endpoint("GET:orders:my", "V2", "fill", "orders")
  /\ C!RouteOf(C!Of("GET:user:me")) = "user"
  /\ C!RouteOf(C!Of("GET:orders:my")) = "order"
<1> DEFINE U == C!Endpoint("GET:user:me", "V2", "fill", "user")
           Ords == C!Endpoint("GET:orders:my", "V2", "fill", "orders")
<1>1. U \in C!UserRoute /\ Ords \in C!OrderRoute
  BY DEF C!UserRoute, C!OrderRoute
<1>2. /\ {"user", "order"} \subseteq DOMAIN C!Routes
      /\ C!Routes["user"] = C!UserRoute /\ C!Routes["order"] = C!OrderRoute
  BY DEF C!Routes
<1>3. U \in C!Endpoints /\ Ords \in C!Endpoints
  BY <1>1, <1>2 DEF C!Endpoints
<1>4. U.key = "GET:user:me" /\ Ords.key = "GET:orders:my" /\ U.cache = "user" /\ Ords.cache = "orders"
  BY DEF C!Endpoint
<1>5. C!Of("GET:user:me") = U
  BY <1>3, <1>4, EndpointsHaveTheirOwnLimits DEF C!Of
<1>6. C!Of("GET:orders:my") = Ords
  BY <1>3, <1>4, EndpointsHaveTheirOwnLimits DEF C!Of
<1>7. \A r \in DOMAIN C!Routes : (U \in C!Routes[r] => r = "user") /\ (Ords \in C!Routes[r] => r = "order")
  BY <1>4, CachesOfLogin
<1>8. C!RouteOf(U) = "user" /\ C!RouteOf(Ords) = "order"
  BY <1>1, <1>2, <1>7 DEF C!RouteOf
<1> QED
  BY <1>5, <1>6, <1>8

\* Every endpoint called belongs to a route.
LEMMA KeysHaveRoutes ==
  ASSUME NEW k \in C!Keys
  PROVE  C!RouteOf(C!Of(k)) \in DOMAIN C!Routes
<1>1. PICK e \in C!Endpoints : e.key = k
  <2>1. {"POST:auth:signin", "GET:user:me", "GET:orders:my"} \subseteq {e.key : e \in C!Endpoints}
    <3>1. /\ C!Endpoint("GET:user:me", "V2", "fill", "user") \in C!UserRoute
          /\ C!Endpoint("GET:orders:my", "V2", "fill", "orders") \in C!OrderRoute
          /\ C!Endpoint("POST:auth:signin", "V1", "none", "none") \in C!AuthenticationRoute
      BY DEF C!UserRoute, C!OrderRoute, C!AuthenticationRoute
    <3>2. C!UserRoute \cup C!OrderRoute \cup C!AuthenticationRoute \subseteq C!Endpoints
      BY DEF C!Endpoints, C!Routes
    <3>3. /\ C!Endpoint("GET:user:me", "V2", "fill", "user").key = "GET:user:me"
          /\ C!Endpoint("GET:orders:my", "V2", "fill", "orders").key = "GET:orders:my"
          /\ C!Endpoint("POST:auth:signin", "V1", "none", "none").key = "POST:auth:signin"
      BY DEF C!Endpoint
    <3> QED BY <3>1, <3>2, <3>3
  <2> QED BY <2>1, ClientAssumption DEF C!Keys
<1>2. C!Of(k) \in C!Endpoints
  BY <1>1 DEF C!Of
<1> QED
  BY <1>2 DEF C!RouteOf, C!Endpoints

\* The limits there can be; one that a refusal has tightened is slower than the common one.
LEMMA QuotaFacts ==
  /\ C!REQUESTS_PER_SECOND \in C!Quotas
  /\ \A q \in C!Quotas : /\ C!Tightened(q) \in C!Quotas
                         /\ C!PerHour(C!Tightened(q)) < C!PerHour(C!REQUESTS_PER_SECOND)
                         /\ C!Tier(q.tier, q.n) = q
                         /\ q.tier \in {"PerSecond", "PerMinute", "PerHour"} /\ q.n \in Nat
<1>1. C!REQUESTS_PER_SECOND \in C!Quotas
  BY DEF C!Quotas, C!REQUESTS_PER_SECOND, C!Tier
<1>2. ASSUME NEW q \in C!Quotas
      PROVE  /\ q = [tier |-> q.tier, n |-> q.n]
             /\ \/ q.tier = "PerSecond" /\ q.n \in 1..3
                \/ q.tier = "PerMinute" /\ q.n \in 1..50
                \/ q.tier = "PerHour" /\ q.n \in 1..2
  BY <1>2 DEF C!Quotas
<1>3. ASSUME NEW q \in C!Quotas, q.n > 1
      PROVE  C!Tightened(q) = [tier |-> q.tier, n |-> q.n - 1]
  BY <1>2, <1>3 DEF C!Tightened, C!sub_tract
<1>4. ASSUME NEW q \in C!Quotas, ~(q.n > 1)
      PROVE  C!Tightened(q) = IF q.tier = "PerSecond" THEN [tier |-> "PerMinute", n |-> 50]
                              ELSE IF q.tier = "PerMinute" THEN [tier |-> "PerHour", n |-> 2]
                              ELSE [tier |-> "PerHour", n |-> 1]
  BY <1>2, <1>4 DEF C!Tightened, C!downgrade, C!Tier
<1>5. C!PerHour(C!REQUESTS_PER_SECOND) = 10800
  BY DEF C!PerHour, C!REQUESTS_PER_SECOND, C!Tier
<1>6. ASSUME NEW q \in C!Quotas
      PROVE  /\ C!Tightened(q) \in C!Quotas
             /\ C!PerHour(C!Tightened(q)) < 10800
  <2>1. CASE q.n > 1
    BY <1>2, <1>3, <2>1 DEF C!Quotas, C!PerHour
  <2>2. CASE ~(q.n > 1)
    BY <1>2, <1>4, <2>2 DEF C!Quotas, C!PerHour
  <2> QED BY <2>1, <2>2
<1> QED
  BY <1>1, <1>2, <1>5, <1>6 DEF C!Tier

\* What a refusal or the end of a wait makes of a stored limit.
LEMMA LimitFacts ==
  /\ \A q \in C!Quotas, w \in Nat :
       C!LimitOf([tier |-> q.tier, n |-> q.n, wait |-> w]) = q
  /\ C!LimitOf(C!NoLimit) = C!REQUESTS_PER_SECOND
<1>1. ASSUME NEW q \in C!Quotas, NEW w \in Nat
      PROVE  C!LimitOf([tier |-> q.tier, n |-> q.n, wait |-> w]) = q
  <2>1. q.tier \in {"PerSecond", "PerMinute", "PerHour"} /\ q = C!Tier(q.tier, q.n)
    BY QuotaFacts
  <2>2. [tier |-> q.tier, n |-> q.n, wait |-> w] # C!NoLimit
    BY <2>1 DEF C!NoLimit
  <2> QED BY <2>1, <2>2 DEF C!LimitOf
<1> QED BY <1>1 DEF C!LimitOf

\* Every answer is taken for one of the results.
LEMMA OutcomeTyped ==
  ASSUME NEW a \in C!Answers
  PROVE  C!Outcome(a[1], a[2]) \in C!Results
<1>1. a[1] \in C!Statuses /\ a[2] \in C!Texts /\ (a[1] \in {400, 403, 404} \/ a[2] \in {"ok", "unreadable"})
  BY DEF C!Answers
<1>2. a[1] \in {400, 403, 404} => C!Named(a[1], a[2]) \in C!Results
  BY <1>1 DEF C!Named, C!Results, C!Texts, C!contains_error
<1> QED
  BY <1>1, <1>2 DEF C!Outcome, C!Statuses, C!Results

LEMMA ClientInit ==
  ASSUME C!Init
  PROVE  C!ClientInv
<1> USE DEF C!Init
<1>1. PICK past \in {C!NoLimit, [tier |-> "PerSecond", n |-> 1, wait |-> 0],
                    [tier |-> "PerMinute", n |-> 1, wait |-> 0],
                    [tier |-> "PerHour", n |-> 1, wait |-> 0]} :
        /\ x1 = [k \in C!Keys |-> past]
        /\ x2 = IF past = C!NoLimit THEN {} ELSE C!Keys
  OBVIOUS
<1>2. /\ past # C!NoLimit => C!PerHour(C!LimitOf(past)) < C!PerHour(C!REQUESTS_PER_SECOND)
      /\ C!LimitOf(past) \in C!Quotas
  <2>1. CASE past = C!NoLimit
    BY <2>1, LimitFacts, QuotaFacts
  <2>2. CASE past # C!NoLimit
    BY <2>2 DEF C!PerHour, C!LimitOf, C!Tier, C!REQUESTS_PER_SECOND, C!Quotas
  <2> QED BY <2>1, <2>2
<1>3. C!TypeOK
  <2>1. past \in {C!NoLimit} \cup [tier : {"PerSecond", "PerMinute", "PerHour"}, n : Nat, wait : Nat]
    OBVIOUS
  <2>2. x1 \in [C!Keys -> {C!NoLimit} \cup [tier : {"PerSecond", "PerMinute", "PerHour"}, n : Nat, wait : Nat]]
    BY <1>1, <2>1
  <2>3. (\A k \in C!Keys : C!LimitOf(x1[k]) \in C!Quotas) /\ x2 \subseteq C!Keys
    BY <1>1, <1>2
  <2>4. C!Idle \in C!Calls
    BY QuotaFacts DEF C!Idle, C!Calls, C!Clients, C!Results
  <2>5. x4 \in [C!Tasks -> C!Calls] /\ \A t \in C!Tasks : x4[t].pc = "idle"
    BY <2>4 DEF C!Idle
  <2>6. x5 \in [C!Clients -> SUBSET DOMAIN C!Routes] /\ x8 \in [C!Clients -> BOOLEAN]
    OBVIOUS
  <2> QED
    BY <2>2, <2>3, <2>5, <2>6 DEF C!TypeOK
<1>4. C!RefusedRoutesStaySlower
  BY <1>1, <1>2 DEF C!RefusedRoutesStaySlower
<1>5. C!LoginCallsInOrder /\ C!RefreshedSoFar /\ C!SignedInKnowsItsOrders
  BY DEF C!LoginCallsInOrder, C!RefreshedSoFar, C!SignedInKnowsItsOrders, C!Idle, C!LoginCalls,
     C!Advanced, C!Tasks
<1> QED
  BY <1>3, <1>4, <1>5 DEF C!ClientInv

\* A call begins with the limit its route has.
LEMMA BeginsTyped ==
  ASSUME C!TypeOK, NEW t \in C!Tasks, NEW k \in C!Keys, NEW c \in C!Clients, C!Begins(t, k, c)
  PROVE  /\ x3' \in Nat
         /\ x4' \in [C!Tasks -> C!Calls]
         /\ \A u \in C!Tasks : x4'[u].pc # "idle" => x4'[u].key \in C!Keys
         /\ x5' \in [C!Clients -> SUBSET DOMAIN C!Routes]
         /\ x5' = [x5 EXCEPT ![c] = @ \cup {C!RouteOf(C!Of(k))}]
         /\ x4'[t].pc # "idle" /\ x4'[t].key = k /\ x4'[t].client = c /\ x4'[t].result = "none"
         /\ \A u \in C!Tasks \ {t} : x4'[u] = x4[u]
<1> USE DEF C!TypeOK, C!Begins
<1>1. x3' \in Nat
  OBVIOUS
<1>2. [pc |-> IF x1[k].wait > 0 THEN "waits" ELSE "gate", key |-> k,
       quota |-> C!LimitOf(x1[k]), client |-> c, result |-> "none"] \in C!Calls
  BY DEF C!Calls, C!Results
<1>3. /\ x4' \in [C!Tasks -> C!Calls]
      /\ x4'[t].pc # "idle" /\ x4'[t].key = k /\ x4'[t].client = c /\ x4'[t].result = "none"
      /\ \A u \in C!Tasks \ {t} : x4'[u] = x4[u]
  BY <1>2
<1>4. x5' \in [C!Clients -> SUBSET DOMAIN C!Routes]
  BY KeysHaveRoutes
<1> QED
  BY <1>1, <1>3, <1>4

\* A call of a task other than the sign-in.
LEMMA CallKeeps ==
  ASSUME C!ClientInv, NEW t \in Callers, NEW k \in Used, C!Call(t, k)
  PROVE  C!ClientInv'
<1> USE DEF C!ClientInv
<1>1. t \in C!Tasks /\ t # "login" /\ k \in C!Keys /\ C!Current \in C!Clients /\ "login" \in C!Tasks
  BY ClientAssumption DEF C!Tasks, C!Keys, C!Current, C!Clients
<1>2. C!Begins(t, k, C!Current) /\ UNCHANGED <<x1, x2, x6, x7, x8, x9>>
  BY DEF C!Call
<1>3. C!TypeOK'
  BY <1>1, <1>2, BeginsTyped DEF C!TypeOK
<1>4. C!RefusedRoutesStaySlower' /\ C!SignedInKnowsItsOrders'
  BY <1>2 DEF C!RefusedRoutesStaySlower, C!SignedInKnowsItsOrders
<1>5. x4'["login"] = x4["login"] /\ x5["account"] \subseteq x5'["account"]
  BY <1>1, <1>2, BeginsTyped DEF C!TypeOK, C!Clients
<1>6. C!LoginCallsInOrder' /\ C!RefreshedSoFar'
  BY <1>2, <1>5 DEF C!LoginCallsInOrder, C!RefreshedSoFar, C!Advanced
<1> QED
  BY <1>3, <1>4, <1>6

\* A step of a call that gets no answer.
LEMMA WaitKeeps ==
  ASSUME C!ClientInv, NEW t \in C!Tasks,
         C!Slept(t) \/ C!GateRefuses(t) \/ C!Sent(t) \/ C!NoAnswer(t)
  PROVE  C!ClientInv'
<1> USE DEF C!ClientInv
<1>1. UNCHANGED <<x2, x3, x5, x6, x7, x8, x9>> /\ x4[t].pc # "idle"
  BY DEF C!Slept, C!GateRefuses, C!Sent, C!NoAnswer
<1>2. /\ x1' \in [C!Keys -> {C!NoLimit} \cup [tier : {"PerSecond", "PerMinute", "PerHour"}, n : Nat, wait : Nat]]
      /\ \A k \in C!Keys : C!LimitOf(x1'[k]) = C!LimitOf(x1[k])
  <2>1. CASE x1' = x1
    BY <2>1 DEF C!TypeOK
  <2>2. CASE C!clear_wait_time(x4[t].key)
    <3> DEFINE k == x4[t].key
    <3>1. k \in C!Keys
      BY <1>1 DEF C!TypeOK
    <3>2. CASE x1[k] = C!NoLimit
      BY <2>2, <3>1, <3>2 DEF C!TypeOK, C!clear_wait_time
    <3>3. CASE x1[k] # C!NoLimit
      <4>1. x1[k] \in [tier : {"PerSecond", "PerMinute", "PerHour"}, n : Nat, wait : Nat]
        BY <3>1, <3>3 DEF C!TypeOK
      <4>2. x1' = [x1 EXCEPT ![k] = [x1[k] EXCEPT !.wait = 0]]
        BY <2>2, <3>1, <3>3 DEF C!clear_wait_time, C!TypeOK
      <4>3. C!LimitOf([x1[k] EXCEPT !.wait = 0]) = C!LimitOf(x1[k])
        BY <4>1, <3>3 DEF C!LimitOf, C!NoLimit
      <4> QED BY <3>1, <4>1, <4>2, <4>3 DEF C!TypeOK
    <3> QED BY <3>2, <3>3
  <2> QED
    BY <2>1, <2>2 DEF C!Slept, C!GateRefuses, C!Sent, C!NoAnswer
<1>3. /\ x4' \in [C!Tasks -> C!Calls]
      /\ \A u \in C!Tasks \ {t} : x4'[u] = x4[u]
      /\ \/ /\ x4'[t].pc # "idle" /\ x4'[t].key = x4[t].key /\ x4'[t].client = x4[t].client
            /\ x4'[t].result = x4[t].result
         \/ x4'[t].pc = "idle" /\ x4'[t].result # "Ok"
  <2>1. C!Idle \in C!Calls /\ [C!Idle EXCEPT !.result = "RequestError"] \in C!Calls
    BY QuotaFacts DEF C!Idle, C!Calls, C!Clients, C!Results
  <2>2. CASE C!Ends(t, "RequestError")
    BY <2>1, <2>2 DEF C!Ends, C!TypeOK, C!Idle
  <2>3. CASE x4' = [x4 EXCEPT ![t].pc = "gate"] \/ x4' = [x4 EXCEPT ![t].pc = "sent"]
    <3>1. PICK p \in {"gate", "sent"} : x4' = [x4 EXCEPT ![t] = [x4[t] EXCEPT !.pc = p]]
      BY <2>3
    <3>2. x4 \in [C!Tasks -> C!Calls] /\ x4[t] \in C!Calls
      BY DEF C!TypeOK
    <3>3. [x4[t] EXCEPT !.pc = p] \in C!Calls
      BY <3>2 DEF C!Calls
    <3>4. /\ x4' \in [C!Tasks -> C!Calls]
          /\ x4'[t] = [x4[t] EXCEPT !.pc = p]
          /\ \A u \in C!Tasks \ {t} : x4'[u] = x4[u]
      BY <3>1, <3>2, <3>3
    <3> QED
      BY <3>2, <3>4 DEF C!Calls
  <2> QED
    BY <2>2, <2>3 DEF C!Slept, C!GateRefuses, C!Sent, C!NoAnswer
<1>4. C!TypeOK'
  BY <1>1, <1>2, <1>3 DEF C!TypeOK
<1>5. C!RefusedRoutesStaySlower' /\ C!SignedInKnowsItsOrders'
  BY <1>1, <1>2 DEF C!RefusedRoutesStaySlower, C!SignedInKnowsItsOrders, C!TypeOK
<1>6. C!LoginCallsInOrder' /\ C!RefreshedSoFar'
  <2>1. "login" \in C!Tasks
    BY DEF C!Tasks
  <2> QED
    BY <1>1, <1>3, <2>1 DEF C!LoginCallsInOrder, C!RefreshedSoFar, C!Advanced
<1> QED
  BY <1>4, <1>5, <1>6

\* An answer: a good one fills caches, a refusal tightens the limit of its route.
LEMMA AnswerKeeps ==
  ASSUME C!ClientInv, NEW t \in C!Tasks, NEW a \in C!Answers, C!Answered(t, a[1], a[2])
  PROVE  C!ClientInv'
<1> USE DEF C!ClientInv
<1> DEFINE k == x4[t].key
           kind == C!Outcome(a[1], a[2])
<1>1. /\ x4[t].pc = "sent" /\ k \in C!Keys /\ x4[t].client \in C!Clients /\ x4[t].quota \in C!Quotas
      /\ UNCHANGED <<x3, x5, x8, x9>> /\ C!Ends(t, kind)
      /\ IF kind = "Ok" THEN \E b \in Auctions : C!Effect(C!Of(k), x4[t].client, b)
                        ELSE UNCHANGED <<x6, x7>>
      /\ \/ /\ \E w \in {1, 2} : C!set_rate_limit_for_route(k, C!Tightened(x4[t].quota), w)
            /\ x2' = x2 \cup {k}
         \/ UNCHANGED <<x1, x2>>
  BY DEF C!Answered, C!TypeOK, C!Calls
<1>2. /\ x4' \in [C!Tasks -> C!Calls]
      /\ \A u \in C!Tasks \ {t} : x4'[u] = x4[u]
      /\ x4'[t].pc = "idle"
      /\ t = "login" => x4'[t].result = kind
  <2>1. kind \in C!Results
    BY OutcomeTyped
  <2>2. \A r \in C!Results : [C!Idle EXCEPT !.result = r] \in C!Calls
    BY QuotaFacts DEF C!Idle, C!Calls, C!Clients
  <2>3. "none" \in C!Results
    BY DEF C!Results
  <2> HIDE DEF kind
  <2> QED BY <1>1, <2>1, <2>2, <2>3 DEF C!Ends, C!TypeOK, C!Idle
<1>3. /\ x1' \in [C!Keys -> {C!NoLimit} \cup [tier : {"PerSecond", "PerMinute", "PerHour"}, n : Nat, wait : Nat]]
      /\ \A j \in C!Keys : C!LimitOf(x1'[j]) \in C!Quotas
      /\ x2' \subseteq C!Keys
      /\ C!RefusedRoutesStaySlower'
  <2>1. CASE UNCHANGED <<x1, x2>>
    BY <2>1 DEF C!TypeOK, C!RefusedRoutesStaySlower
  <2>2. CASE /\ \E w \in {1, 2} : C!set_rate_limit_for_route(k, C!Tightened(x4[t].quota), w)
             /\ x2' = x2 \cup {k}
    <3> DEFINE q == C!Tightened(x4[t].quota)
    <3>1. PICK w \in {1, 2} : x1' = [x1 EXCEPT ![k] = [tier |-> q.tier, n |-> q.n, wait |-> w]]
      BY <2>2 DEF C!set_rate_limit_for_route
    <3>2. /\ q \in C!Quotas /\ C!PerHour(q) < C!PerHour(C!REQUESTS_PER_SECOND)
          /\ q.tier \in {"PerSecond", "PerMinute", "PerHour"} /\ q.n \in Nat
      BY <1>1, QuotaFacts
    <3>3. C!LimitOf([tier |-> q.tier, n |-> q.n, wait |-> w]) = q
      BY <3>2, LimitFacts
    <3> HIDE DEF q
    <3>4. /\ x1'[k] = [tier |-> q.tier, n |-> q.n, wait |-> w]
          /\ \A j \in C!Keys \ {k} : x1'[j] = x1[j]
      BY <1>1, <3>1 DEF C!TypeOK
    <3>5. x1' \in [C!Keys -> {C!NoLimit} \cup [tier : {"PerSecond", "PerMinute", "PerHour"}, n : Nat, wait : Nat]]
      BY <1>1, <3>1, <3>2 DEF C!TypeOK
    <3>6. \A j \in C!Keys : C!LimitOf(x1'[j]) = IF j = k THEN q ELSE C!LimitOf(x1[j])
      BY <3>3, <3>4
    <3> QED
      BY <1>1, <2>2, <3>2, <3>5, <3>6 DEF C!TypeOK, C!RefusedRoutesStaySlower
  <2> QED BY <1>1, <2>1, <2>2
<1>4. /\ DOMAIN x6' = C!Clients /\ DOMAIN x7' = C!Clients
      /\ x6["account"] \subseteq x6'["account"]
      /\ kind = "Ok" /\ C!Of(k).effect = "fill" /\ x4[t].client = "account"
           => C!Of(k).cache \in x6'["account"]
  <2>1. CASE kind = "Ok"
    <3> DEFINE e == C!Of(k)
               c == x4[t].client
    <3>1. PICK b \in Auctions : C!Effect(e, c, b)
      BY <1>1, <2>1
    <3>2. DOMAIN x7' = C!Clients
      BY <3>1 DEF C!Effect, C!TypeOK
    <3>3. x6' = IF e.effect \in {"memo", "fill"} THEN [x6 EXCEPT ![c] = x6[c] \cup {e.cache}] ELSE x6
      BY <3>1 DEF C!Effect
    <3> HIDE DEF e, c
    <3>4. /\ DOMAIN x6' = C!Clients
          /\ x6["account"] \subseteq x6'["account"]
          /\ e.effect = "fill" /\ c = "account" => e.cache \in x6'["account"]
      <4>1. DOMAIN x6 = C!Clients /\ "account" \in C!Clients
        BY DEF C!TypeOK, C!Clients
      <4>2. CASE e.effect \in {"memo", "fill"}
        BY <3>3, <4>1, <4>2
      <4>3. CASE e.effect \notin {"memo", "fill"}
        BY <3>3, <4>1, <4>3
      <4> QED BY <4>2, <4>3
    <3> QED
      BY <3>2, <3>4 DEF e, c
  <2>2. CASE kind # "Ok"
    BY <1>1, <2>2 DEF C!TypeOK
  <2> QED BY <2>1, <2>2
<1>5. C!TypeOK'
  BY <1>1, <1>2, <1>3, <1>4 DEF C!TypeOK
<1>6. "login" \in C!Tasks
  BY DEF C!Tasks
<1>7. C!LoginCallsInOrder'
  BY <1>1, <1>2, <1>6 DEF C!LoginCallsInOrder
<1>8. C!RefreshedSoFar'
  <2>1. CASE t # "login"
    BY <1>1, <1>2, <1>4, <1>6, <2>1 DEF C!RefreshedSoFar, C!Advanced
  <2>2. CASE t = "login"
    <3>1. x9 = "me" => k = "GET:user:me" /\ x4[t].client = "account"
      BY <1>1, <2>2 DEF C!LoginCallsInOrder, C!LoginCalls
    <3>2. x9 = "orders" => k = "GET:orders:my" /\ x4[t].client = "account"
      BY <1>1, <2>2 DEF C!LoginCallsInOrder, C!LoginCalls
    <3>3. x9 = "me" /\ kind = "Ok" => "user" \in x6'["account"]
      BY <1>4, <3>1, LoginEndpoints DEF C!Endpoint
    <3>4. x9 = "orders" /\ kind = "Ok" => "orders" \in x6'["account"]
      BY <1>4, <3>2, LoginEndpoints DEF C!Endpoint
    <3> QED
      BY <1>1, <1>2, <1>4, <2>2, <3>3, <3>4 DEF C!RefreshedSoFar, C!Advanced
  <2> QED BY <2>1, <2>2
<1>9. C!SignedInKnowsItsOrders'
  BY <1>1, <1>4 DEF C!SignedInKnowsItsOrders
<1> QED
  BY <1>3, <1>5, <1>7, <1>8, <1>9

\* The steps of a sign-in.
LEMMA LoginKeeps ==
  ASSUME C!ClientInv, C!login_signin \/ C!refresh_me \/ C!refresh_orders
  PROVE  C!ClientInv'
<1> USE DEF C!ClientInv
<1>1. PICK from \in {"none", "signin", "me"}, to \in {"signin", "me", "orders"} :
        /\ C!LoginStep(from, to)
        /\ \/ from = "none" /\ to = "signin" /\ x4["login"].pc = "idle"
           \/ from = "signin" /\ to = "me" /\ C!Advanced("signin")
           \/ from = "me" /\ to = "orders" /\ C!Advanced("me")
  BY DEF C!login_signin, C!refresh_me, C!refresh_orders
<1> DEFINE k == C!LoginCalls[to]
           c == IF to = "signin" THEN "anonymous" ELSE "account"
<1>2. /\ x9 = from /\ x9' = to /\ C!Begins("login", k, c)
      /\ UNCHANGED <<x1, x2, x6, x7, x8>>
  BY <1>1 DEF C!LoginStep
<1>3. "login" \in C!Tasks /\ k \in C!Keys /\ c \in C!Clients
  BY DEF C!Tasks, C!Keys, C!LoginCalls, C!Clients
<1>4. /\ x3' \in Nat
      /\ x4' \in [C!Tasks -> C!Calls]
      /\ \A u \in C!Tasks : x4'[u].pc # "idle" => x4'[u].key \in C!Keys
      /\ x5' \in [C!Clients -> SUBSET DOMAIN C!Routes]
      /\ x5' = [x5 EXCEPT ![c] = @ \cup {C!RouteOf(C!Of(k))}]
      /\ x4'["login"].pc # "idle" /\ x4'["login"].key = k /\ x4'["login"].client = c
      /\ x4'["login"].result = "none"
  <2> HIDE DEF k, c
  <2> QED BY <1>2, <1>3, BeginsTyped
<1>5. C!TypeOK'
  BY <1>2, <1>4 DEF C!TypeOK
<1>6. C!RefusedRoutesStaySlower'
  BY <1>2 DEF C!RefusedRoutesStaySlower
<1>7. C!LoginCallsInOrder'
  BY <1>1, <1>2, <1>4 DEF C!LoginCallsInOrder
<1>8. C!RefreshedSoFar'
  <2>1. x5["account"] \subseteq x5'["account"]
    BY <1>3, <1>4 DEF C!TypeOK
  <2>2. to = "me" => "user" \in x5'["account"]
    BY <1>3, <1>4, LoginEndpoints DEF C!TypeOK, C!LoginCalls
  <2>3. to = "orders" => "order" \in x5'["account"]
    BY <1>3, <1>4, LoginEndpoints DEF C!TypeOK, C!LoginCalls
  <2>4. from = "me" => "user" \in x5["account"] /\ "user" \in x6["account"]
    BY <1>1, <1>2 DEF C!RefreshedSoFar
  <2> QED
    BY <1>1, <1>2, <1>4, <2>1, <2>2, <2>3, <2>4 DEF C!RefreshedSoFar, C!Advanced
<1>9. C!SignedInKnowsItsOrders'
  BY <1>2 DEF C!SignedInKnowsItsOrders
<1> QED
  BY <1>5, <1>6, <1>7, <1>8, <1>9

\* A sign-in that fails drops the client it was filling.
LEMMA LoginFailsKeeps ==
  ASSUME C!ClientInv, C!LoginFails \/ C!NoTier
  PROVE  C!ClientInv'
<1> USE DEF C!ClientInv
<1>1. PICK r \in {"none", "Unknown"} :
        /\ x4' = [x4 EXCEPT !["login"] = [x4["login"] EXCEPT !.result = r]]
        /\ x4["login"].pc = "idle" /\ UNCHANGED <<x1, x2, x3, x7, x8>>
        /\ \/ /\ x9' = "none"
              /\ x5' = [x5 EXCEPT !["account"] = {}] /\ x6' = [x6 EXCEPT !["account"] = {}]
           \/ x9 = "orders" /\ UNCHANGED <<x5, x6, x9>>
  BY DEF C!LoginFails, C!NoTier, C!Advanced
<1>2. "login" \in C!Tasks
  BY DEF C!Tasks
<1>3. x4["login"] \in C!Calls /\ [x4["login"] EXCEPT !.result = r] \in C!Calls
  BY <1>2 DEF C!TypeOK, C!Calls, C!Results
<1>4. /\ x4' \in [C!Tasks -> C!Calls]
      /\ x4'["login"].pc = "idle" /\ x4'["login"].result # "Ok"
      /\ \A t \in C!Tasks \ {"login"} : x4'[t] = x4[t]
  BY <1>1, <1>2, <1>3 DEF C!TypeOK, C!Calls
<1>5. C!TypeOK'
  BY <1>1, <1>4 DEF C!TypeOK
<1>6. C!RefusedRoutesStaySlower'
  BY <1>1 DEF C!RefusedRoutesStaySlower
<1>7. C!LoginCallsInOrder'
  BY <1>1, <1>4 DEF C!LoginCallsInOrder
<1>8. C!RefreshedSoFar' /\ C!SignedInKnowsItsOrders'
  BY <1>1, <1>4 DEF C!RefreshedSoFar, C!SignedInKnowsItsOrders, C!Advanced
<1> QED
  BY <1>5, <1>6, <1>7, <1>8

\* The routes taken over are not those that hold the user and its orders.
LEMMA SignedInKeeps ==
  ASSUME C!ClientInv, NEW tier \in BOOLEAN, C!create_authenticated_client(tier)
  PROVE  C!ClientInv'
<1> USE DEF C!ClientInv
<1> DEFINE filled == IF tier THEN {"order", "auction"} ELSE {}
           mine   == x5["account"] \cup filled
           taken  == C!TakenOver \ filled
<1>1. /\ x9 = "orders" /\ x9' = "done" /\ x4["login"].pc = "idle" /\ x4["login"].result = "Ok"
      /\ x5' = [x5 EXCEPT !["account"] = mine \cup taken]
      /\ x6' = [x6 EXCEPT !["account"] =
             (x6["account"] \ UNION {C!CachesOf(r) : r \in taken})
               \cup (x6["anonymous"] \cap UNION {C!CachesOf(r) : r \in taken})]
      /\ DOMAIN x7' = DOMAIN x7
      /\ x8' \in [C!Clients -> BOOLEAN]
      /\ x4' = [x4 EXCEPT !["login"] = [x4["login"] EXCEPT !.result = "none"]]
      /\ UNCHANGED <<x1, x2, x3>>
  BY DEF C!create_authenticated_client, C!Advanced, C!set_order_limit, C!TypeOK, C!Clients
<1>2. "login" \in C!Tasks /\ "account" \in C!Clients /\ "anonymous" \in C!Clients
  BY DEF C!Tasks, C!Clients
<1>3. x4["login"] \in C!Calls /\ [x4["login"] EXCEPT !.result = "none"] \in C!Calls
  BY <1>2 DEF C!TypeOK, C!Calls, C!Results
<1>4. /\ x4' \in [C!Tasks -> C!Calls]
      /\ x4'["login"].pc = "idle" /\ x4'["login"].result # "Ok"
      /\ \A t \in C!Tasks \ {"login"} : x4'[t] = x4[t]
  BY <1>1, <1>2, <1>3 DEF C!TypeOK, C!Calls
<1>5. taken \subseteq DOMAIN C!Routes /\ taken \cap x5["account"] = {}
  BY <1>2 DEF C!TakenOver, C!TypeOK
<1>6. mine \cup taken \subseteq DOMAIN C!Routes
  BY <1>2, <1>5 DEF C!TypeOK, C!Routes
<1>7. {"user", "orders"} \subseteq x6["account"] /\ {"user", "order"} \subseteq x5["account"]
  BY <1>1 DEF C!RefreshedSoFar, C!Advanced
<1>8. \A r \in taken : C!CachesOf(r) \cap {"user", "orders"} = {}
  <2>1. ASSUME NEW r \in taken
        PROVE  r \in DOMAIN C!Routes /\ r # "user" /\ r # "order"
    BY <1>5, <1>7, <2>1
  <2> HIDE DEF taken
  <2> QED BY <2>1, CachesOfLogin DEF C!CachesOf
<1> HIDE DEF taken, mine
<1>9. x6' = [x6 EXCEPT !["account"] = x6'["account"]] /\ {"user", "orders"} \subseteq x6'["account"]
  BY <1>1, <1>2, <1>7, <1>8 DEF C!TypeOK
<1>10. C!TypeOK'
  <2>1. x5' \in [C!Clients -> SUBSET DOMAIN C!Routes]
    BY <1>1, <1>2, <1>6 DEF C!TypeOK
  <2> QED BY <1>1, <1>4, <1>9, <2>1 DEF C!TypeOK
<1>11. C!RefusedRoutesStaySlower'
  BY <1>1 DEF C!RefusedRoutesStaySlower
<1>12. C!LoginCallsInOrder' /\ C!RefreshedSoFar' /\ C!SignedInKnowsItsOrders'
  BY <1>1, <1>4, <1>9 DEF C!LoginCallsInOrder, C!RefreshedSoFar, C!SignedInKnowsItsOrders, C!LoginCalls, C!Advanced
<1> QED
  BY <1>10, <1>11, <1>12

LEMMA ClientNext ==
  ASSUME C!ClientInv, C!Next
  PROVE  C!ClientInv'
BY CallKeeps, WaitKeeps, AnswerKeeps, LoginKeeps, LoginFailsKeeps, SignedInKeeps DEF C!Next

-----------------------------------------------------------------------------
(* The daily backup.                                                        *)

Over(Q, d) == {e \in Q : e > d}
Sundays(Q) == {d \in Q : B!Sunday(d)}
Rest(Q)    == Q \ B!Newest(Q, KEEP_DAILY)

\* What a pruning leaves.
Kept(Q) == B!Newest(Q, KEEP_DAILY) \cup B!Newest(Sundays(Rest(Q)), KEEP_WEEKLY)

LEMMA NewestIs ==
  ASSUME NEW Q, NEW n
  PROVE  B!Newest(Q, n) = {d \in Q : Cardinality(Over(Q, d)) < n}
<1>1. \A R : B!Cardinality(R) = Cardinality(R)
  BY DEF B!Cardinality, Cardinality
<1> QED
  BY <1>1, Zenon DEF B!Newest, Over

LEMMA KeptIs ==
  ASSUME NEW Q
  PROVE  /\ Kept(Q) = Q \ B!to_delete(Q)
         /\ Kept(Q) \subseteq Q
<1>1. /\ B!Newest(Q, KEEP_DAILY) \subseteq Q
      /\ B!Newest(Sundays(Rest(Q)), KEEP_WEEKLY) \subseteq Rest(Q)
  BY NewestIs DEF Sundays
<1>2. B!to_delete(Q) = Rest(Q) \ B!Newest(Sundays(Rest(Q)), KEEP_WEEKLY)
  BY Zenon DEF B!to_delete, Rest, Sundays
<1> QED
  BY <1>1, <1>2, Zenon DEF Kept, Rest

\* A date is among the newest of fewer dates if it is among those of more.
LEMMA NewestOfFewer ==
  ASSUME NEW Q, IsFiniteSet(Q), NEW T \in SUBSET Q, NEW n \in Nat,
         NEW d \in T, d \in B!Newest(Q, n)
  PROVE  d \in B!Newest(T, n)
<1>1. Over(T, d) \subseteq Over(Q, d) /\ Over(Q, d) \subseteq Q
  BY DEF Over
<1>2. IsFiniteSet(Over(Q, d))
  BY <1>1, FS_Subset
<1>3. /\ Cardinality(Over(T, d)) <= Cardinality(Over(Q, d))
      /\ Cardinality(Over(T, d)) \in Nat /\ Cardinality(Over(Q, d)) \in Nat
  BY <1>1, <1>2, FS_Subset, FS_CardinalityType
<1>4. Cardinality(Over(Q, d)) < n
  BY NewestIs
<1>5. Cardinality(Over(T, d)) < n
  BY <1>3, <1>4
<1> QED
  BY <1>5, NewestIs

\* So no pruning takes what the rule would keep of all that was ever made.
LEMMA KeptOfFewer ==
  ASSUME NEW Q, IsFiniteSet(Q), NEW T \in SUBSET Q
  PROVE  Kept(Q) \cap T \subseteq Kept(T)
<1> USE BackupsAssumption
<1>1. Rest(T) \subseteq Rest(Q)
  <2> SUFFICES ASSUME NEW e \in Rest(T), e \in B!Newest(Q, KEEP_DAILY) PROVE FALSE
    BY DEF Rest
  <2>1. e \in T /\ e \notin B!Newest(T, KEEP_DAILY)
    BY DEF Rest
  <2> QED BY <2>1, NewestOfFewer
<1>2. SUFFICES ASSUME NEW d \in Kept(Q) \cap T, d \notin B!Newest(T, KEEP_DAILY)
               PROVE  d \in B!Newest(Sundays(Rest(T)), KEEP_WEEKLY)
  BY DEF Kept
<1>3. d \in B!Newest(Sundays(Rest(Q)), KEEP_WEEKLY)
  BY <1>2, NewestOfFewer DEF Kept
<1>4. Sundays(Rest(T)) \subseteq Sundays(Rest(Q)) /\ Sundays(Rest(Q)) \subseteq Q
  BY <1>1 DEF Sundays, Rest
<1>5. d \in Sundays(Rest(T))
  BY <1>2, <1>3, NewestIs DEF Sundays, Rest
<1>6. IsFiniteSet(Sundays(Rest(Q)))
  BY <1>4, FS_Subset
<1> QED
  BY <1>3, <1>4, <1>5, <1>6, NewestOfFewer

LEMMA ReachIs == B!BackupsReachBack <=> Kept(x8) \subseteq x2 /\ x2 \cap x4 = {}
BY Zenon DEF B!BackupsReachBack, Kept, Rest, Sundays

LEMMA ReachIsNext == (B!BackupsReachBack)' <=> Kept(x8)' \subseteq x2' /\ x2' \cap x4' = {}
BY Zenon DEF B!BackupsReachBack, Kept, Rest, Sundays

LEMMA MadeIsFinite ==
  ASSUME B!BackupsInv
  PROVE  IsFiniteSet(x8)
<1>1. x8 \subseteq 1..x1 /\ x1 \in Nat
  BY DEF B!BackupsInv, B!TypeOK
<1>2. IsFiniteSet(1..x1)
  BY <1>1, FS_Interval
<1> QED
  BY <1>1, <1>2, FS_Subset

LEMMA BackupsInit ==
  ASSUME B!Init
  PROVE  B!BackupsInv
<1> USE DEF B!Init, B!Idle, B!Never
<1>1. B!TypeOK /\ x2 \subseteq x8 /\ B!JobMakesNewFile
  BY DEF B!TypeOK, B!JobMakesNewFile
<1>2. Kept(x8) \subseteq x2 /\ x2 \cap x4 = {}
  BY KeptIs
<1> QED
  BY <1>1, <1>2, ReachIs DEF B!BackupsInv

\* No file is made or deleted: what a step of the job may do to the copies.
LEMMA CopyKeeps ==
  ASSUME B!BackupsInv, x2' = x2, x8' = x8, x1' \in {x1, x1 + 1},
         x4' \subseteq x4 \cup {x5.date},
         x4' \subseteq x4 \/ x5.pc = "copy",
         x5' \in [pc : {"idle", "copy", "verify", "rename", "prune"}, date : 0..x1'],
         x5'.pc \in {"copy", "verify", "rename"} => x5'.date \in 1..x1' /\ x5'.date \notin x2,
         x5'.pc = "rename" => x5'.date \notin x4'
  PROVE  (B!BackupsInv)'
<1> USE DEF B!BackupsInv, B!TypeOK, B!JobMakesNewFile
<1>1. (B!TypeOK)' /\ x2' \subseteq x8' /\ (B!JobMakesNewFile)'
  OBVIOUS
<1>2. x2' \cap x4' = {}
  BY ReachIs
<1>3. Kept(x8)' \subseteq x2'
  <2>1. Kept(x8)' = Kept(x8')
    BY DEF Kept, Rest, Sundays, B!Newest, B!Sunday, B!Cardinality
  <2> QED BY <2>1, ReachIs
<1> QED
  BY <1>1, <1>2, <1>3, ReachIsNext

\* A copy is renamed: the rule asks for it now, and for nothing it did not ask for.
LEMMA PromoteKeeps ==
  ASSUME B!BackupsInv, x5.pc = "rename",
         x2' = x2 \cup {x5.date}, x8' = x8 \cup {x5.date}, x1' = x1, x4' = x4,
         x5' = [x5 EXCEPT !.pc = "prune"]
  PROVE  (B!BackupsInv)'
<1> USE DEF B!BackupsInv, B!TypeOK, B!JobMakesNewFile
<1>1. (B!TypeOK)' /\ x2' \subseteq x8' /\ (B!JobMakesNewFile)'
  OBVIOUS
<1>2. x2' \cap x4' = {}
  BY ReachIs
<1>3. Kept(x8') \subseteq x2'
  <2>1. IsFiniteSet(x8')
    BY MadeIsFinite, FS_AddElement
  <2>2. Kept(x8') \cap x8 \subseteq Kept(x8)
    BY <2>1, KeptOfFewer
  <2>3. Kept(x8') \subseteq x8'
    BY KeptIs
  <2> QED BY <2>2, <2>3, ReachIs
<1>4. Kept(x8)' = Kept(x8')
  BY DEF Kept, Rest, Sundays, B!Newest, B!Sunday, B!Cardinality
<1> QED
  BY <1>1, <1>2, <1>3, <1>4, ReachIsNext

\* Some or all of what a pruning would delete are deleted.
LEMMA DeletionKeeps ==
  ASSUME B!BackupsInv, NEW some \in SUBSET B!to_delete(x2),
         x2' = x2 \ some, x8' = x8, x1' = x1, x4' = x4,
         x5' = B!Idle
  PROVE  (B!BackupsInv)'
<1> USE DEF B!BackupsInv, B!TypeOK, B!JobMakesNewFile
<1>0. x5' = [pc |-> "idle", date |-> 0]
  BY DEF B!Idle, B!Never
<1>1. (B!TypeOK)' /\ x2' \subseteq x8' /\ (B!JobMakesNewFile)'
  <2>1. (B!TypeOK)'
    BY <1>0
  <2>2. x2' \subseteq x8'
    OBVIOUS
  <2>3. (B!JobMakesNewFile)'
    BY <1>0
  <2> QED BY <2>1, <2>2, <2>3
<1>2. x2' \cap x4' = {}
  BY ReachIs
<1>3. Kept(x8') \subseteq x2'
  <2>1. Kept(x8) \cap x2 \subseteq Kept(x2)
    BY MadeIsFinite, KeptOfFewer
  <2>2. Kept(x2) = x2 \ B!to_delete(x2)
    BY KeptIs
  <2> QED BY <2>1, <2>2, ReachIs
<1>4. Kept(x8)' = Kept(x8')
  BY DEF Kept, Rest, Sundays, B!Newest, B!Sunday, B!Cardinality
<1> QED
  BY <1>1, <1>2, <1>3, <1>4, ReachIsNext

LEMMA BackupsNext ==
  ASSUME B!BackupsInv, B!Next
  PROVE  (B!BackupsInv)'
<1> USE DEF B!Idle, B!Never
<1>0. /\ x1 \in Nat \ {0}
      /\ x5 \in [pc : {"idle", "copy", "verify", "rename", "prune"}, date : 0..x1]
      /\ x5.pc \in {"copy", "verify", "rename"} => x5.date \in 1..x1 /\ x5.date \notin x2
      /\ x5.pc = "rename" => x5.date \notin x4
  BY DEF B!BackupsInv, B!TypeOK, B!JobMakesNewFile
<1>1. CASE B!Tick
  BY <1>0, <1>1, CopyKeeps DEF B!Tick
<1>2. CASE B!run
  BY <1>0, <1>2, CopyKeeps DEF B!run
<1>3. CASE B!write
  BY <1>0, <1>3, CopyKeeps DEF B!write, B!Fails
<1>4. CASE B!verify
  BY <1>0, <1>4, CopyKeeps DEF B!verify, B!Fails
<1>5. CASE B!promote
  BY <1>0, <1>5, CopyKeeps, PromoteKeeps DEF B!promote, B!Fails
<1>6. CASE B!prune
  BY <1>6, DeletionKeeps DEF B!prune, B!Fails
<1>7. CASE B!Crash
  <2>1. CASE UNCHANGED <<x2, x3, x4>>
    BY <1>0, <1>7, <2>1, CopyKeeps DEF B!Crash
  <2>2. CASE x5.pc = "copy" /\ x4' = x4 \cup {x5.date} /\ x2' = x2
    BY <1>0, <1>7, <2>2, CopyKeeps DEF B!Crash
  <2>3. CASE /\ \E some \in SUBSET B!to_delete(x2) : x2' = x2 \ some
             /\ x4' = x4
    BY <1>7, <2>3, DeletionKeeps DEF B!Crash
  <2> QED BY <1>7, <2>1, <2>2, <2>3 DEF B!Crash
<1> QED
  BY <1>1, <1>2, <1>3, <1>4, <1>5, <1>6, <1>7 DEF B!Next

-----------------------------------------------------------------------------
(* The upgrades of the database file.                                       *)

\* The statements of a migration, and what each is.
Up(a) == S!migrations[a + 1].up
Either(s, op, t, c, d) == s.op = op /\ s.table = t /\ s.column = c /\ s.to = d
Is(s, op, t, c, d) == Either(s, op, t, c, d) /\ s.tolerant = FALSE
Tolerated(s, op, t, c, d) == Either(s, op, t, c, d) /\ s.tolerant = TRUE
Creates(s, t) == s.op = "create" /\ s.table = t /\ s.tolerant = FALSE
OtherNames == {"sweep_state", "sweep_summary", "sweep_summary_hourly", "last_seen_orders",
               "vanished_orders", "item_stats", "item_stats_daily"}

\* There are 25 migrations.
LEMMA EachMigration ==
  ASSUME NEW a \in 0..24
  PROVE  \/ a = 0 \/ a = 1 \/ a = 2 \/ a = 3 \/ a = 4 \/ a = 5 \/ a = 6 \/ a = 7 \/ a = 8
         \/ a = 9 \/ a = 10 \/ a = 11 \/ a = 12 \/ a = 13 \/ a = 14 \/ a = 15 \/ a = 16
         \/ a = 17 \/ a = 18 \/ a = 19 \/ a = 20 \/ a = 21 \/ a = 22 \/ a = 23 \/ a = 24
OBVIOUS

\* How many statements each migration has.
LEMMA UpLengths ==
  /\ Len(Up(0)) = 1 /\ Len(Up(1)) = 1 /\ Len(Up(2)) = 1 /\ Len(Up(3)) = 1
  /\ Len(Up(4)) = 1 /\ Len(Up(5)) = 2
  /\ Len(Up(6)) = 2
  /\ Len(Up(7)) = 1 /\ Len(Up(8)) = 1 /\ Len(Up(9)) = 1 /\ Len(Up(10)) = 1 /\ Len(Up(11)) = 1
  /\ Len(Up(12)) = 3
  /\ Len(Up(13)) = 12
  /\ Len(Up(14)) = 8
  /\ Len(Up(15)) = 1 /\ Len(Up(16)) = 1
  /\ Len(Up(17)) = 7
  /\ Len(Up(18)) = 2
  /\ Len(Up(19)) = 1 /\ Len(Up(20)) = 1 /\ Len(Up(21)) = 1 /\ Len(Up(22)) = 1
  /\ Len(Up(23)) = 2
  /\ Len(Up(24)) = 1
<1>0. Len(Up(0)) = 1
  BY DEF Up, S!migrations, S!create_transaction_table
<1>1. Len(Up(1)) = 1
  BY DEF Up, S!migrations, S!create_stock_item_table
<1>2. Len(Up(2)) = 1
  BY DEF Up, S!migrations, S!create_stock_riven_table
<1>3. Len(Up(3)) = 1
  BY DEF Up, S!migrations, S!create_wish_list_table
<1>4. Len(Up(4)) = 1
  BY DEF Up, S!migrations, S!add_hide_wishlist
<1>5. Len(Up(5)) = 2
  BY DEF Up, S!migrations, S!add_uuid_to_stock_riven
<1>6. Len(Up(6)) = 2
  BY DEF Up, S!migrations, S!stock_add_min_profit_sma
<1>7. Len(Up(7)) = 1
  BY DEF Up, S!migrations, S!add_profit_to_transactions
<1>8. Len(Up(8)) = 1
  BY DEF Up, S!migrations, S!create_trade_entry
<1>9. Len(Up(9)) = 1
  BY DEF Up, S!migrations, S!create_settings
<1>10. Len(Up(10)) = 1
  BY DEF Up, S!migrations, S!add_wish_minimum_price
<1>11. Len(Up(11)) = 1
  BY DEF Up, S!migrations, S!add_tra_credits
<1>12. Len(Up(12)) = 3
  BY DEF Up, S!migrations, S!add_properties
<1>13. Len(Up(13)) = 12
  BY DEF Up, S!migrations, S!drop_min_price_columns
<1>14. Len(Up(14)) = 8
  BY DEF Up, S!migrations, S!make_properties_nullable, S!recreate_properties_column
<1>15. Len(Up(15)) = 1
  BY DEF Up, S!migrations, S!create_wfm_account
<1>16. Len(Up(16)) = 1
  BY DEF Up, S!migrations, S!create_web_auth
<1>17. Len(Up(17)) = 7
  BY DEF Up, S!migrations, S!create_collector_tables
<1>18. Len(Up(18)) = 2
  BY DEF Up, S!migrations, S!create_trader_tables
<1>19. Len(Up(19)) = 1
  BY DEF Up, S!migrations, S!create_helper_keys
<1>20. Len(Up(20)) = 1
  BY DEF Up, S!migrations, S!drop_helper_override
<1>21. Len(Up(21)) = 1
  BY DEF Up, S!migrations, S!create_helper_events
<1>22. Len(Up(22)) = 1
  BY DEF Up, S!migrations, S!add_helper_events_alerted_at
<1>23. Len(Up(23)) = 2
  BY DEF Up, S!migrations, S!create_closed_stats
<1>24. Len(Up(24)) = 1
  BY DEF Up, S!migrations, S!create_item_trade_tax
<1> QED
  BY <1>0, <1>1, <1>2, <1>3, <1>4, <1>5, <1>6, <1>7, <1>8, <1>9, <1>10, <1>11, <1>12, <1>13, <1>14, <1>15, <1>16, <1>17, <1>18, <1>19, <1>20, <1>21, <1>22, <1>23, <1>24

\* Every migration has a few statements.
LEMMA UpsAreShort ==
  ASSUME NEW a \in 0..24
  PROVE  Len(Up(a)) \in 1..12
BY EachMigration, UpLengths

\* The statements that change tables there are.
LEMMA UpStatements ==
  /\ Is(Up(4)[1], "add", "wish_list", "is_hidden", "none")
  /\ Tolerated(Up(5)[1], "add", "stock_riven", "uuid", "none")
  /\ Tolerated(Up(5)[2], "drop", "stock_riven", "wfm_order_id", "none")
  /\ Is(Up(6)[1], "add", "stock_item", "minimum_profit", "none")
  /\ Is(Up(6)[2], "add", "stock_item", "minimum_sma", "none")
  /\ Is(Up(7)[1], "add", "transaction", "profit", "none")
  /\ Is(Up(10)[1], "add", "wish_list", "minimum_price", "none")
  /\ Is(Up(11)[1], "add", "transaction", "credits", "none")
  /\ Is(Up(12)[1], "add", "stock_item", "properties", "none")
  /\ Is(Up(12)[2], "add", "stock_riven", "properties", "none")
  /\ Is(Up(12)[3], "add", "wish_list", "properties", "none")
  /\ Is(Up(13)[1], "json_set", "stock_item", "minimum_price", "properties")
  /\ Is(Up(13)[2], "json_set", "stock_item", "minimum_profit", "properties")
  /\ Is(Up(13)[3], "json_set", "stock_item", "minimum_sma", "properties")
  /\ Is(Up(13)[4], "json_set", "wish_list", "maximum_price", "properties")
  /\ Is(Up(13)[5], "json_set", "wish_list", "minimum_price", "properties")
  /\ Is(Up(13)[6], "json_set", "stock_riven", "minimum_price", "properties")
  /\ Is(Up(13)[7], "drop", "stock_item", "minimum_price", "none")
  /\ Is(Up(13)[8], "drop", "stock_item", "minimum_profit", "none")
  /\ Is(Up(13)[9], "drop", "stock_item", "minimum_sma", "none")
  /\ Is(Up(13)[10], "drop", "stock_riven", "minimum_price", "none")
  /\ Is(Up(13)[11], "drop", "wish_list", "minimum_price", "none")
  /\ Is(Up(13)[12], "drop", "wish_list", "maximum_price", "none")
  /\ Is(Up(14)[1], "add", "stock_riven", "properties_new", "none")
  /\ Is(Up(14)[2], "copy", "stock_riven", "properties", "properties_new")
  /\ Is(Up(14)[3], "drop", "stock_riven", "properties", "none")
  /\ Is(Up(14)[4], "rename", "stock_riven", "properties_new", "properties")
  /\ Is(Up(14)[5], "add", "wish_list", "properties_new", "none")
  /\ Is(Up(14)[6], "copy", "wish_list", "properties", "properties_new")
  /\ Is(Up(14)[7], "drop", "wish_list", "properties", "none")
  /\ Is(Up(14)[8], "rename", "wish_list", "properties_new", "properties")
  /\ Is(Up(20)[1], "drop", "trader_state", "helper_override", "none")
  /\ Is(Up(22)[1], "add", "helper_events", "alerted_at", "none")
<1>1. /\ Is(Up(4)[1], "add", "wish_list", "is_hidden", "none")
  BY DEF Is, Either, Up, S!migrations, S!add_hide_wishlist, S!Add, S!Statement
<1>2. /\ Tolerated(Up(5)[1], "add", "stock_riven", "uuid", "none")
      /\ Tolerated(Up(5)[2], "drop", "stock_riven", "wfm_order_id", "none")
  BY DEF Tolerated, Either, Up, S!migrations, S!add_uuid_to_stock_riven, S!Add, S!Drop, S!Tolerant, S!Statement
<1>3. /\ Is(Up(6)[1], "add", "stock_item", "minimum_profit", "none")
      /\ Is(Up(6)[2], "add", "stock_item", "minimum_sma", "none")
  BY DEF Is, Either, Up, S!migrations, S!stock_add_min_profit_sma, S!Add, S!Statement
<1>4. /\ Is(Up(7)[1], "add", "transaction", "profit", "none")
  BY DEF Is, Either, Up, S!migrations, S!add_profit_to_transactions, S!Add, S!Statement
<1>5. /\ Is(Up(10)[1], "add", "wish_list", "minimum_price", "none")
  BY DEF Is, Either, Up, S!migrations, S!add_wish_minimum_price, S!Add, S!Statement
<1>6. /\ Is(Up(11)[1], "add", "transaction", "credits", "none")
  BY DEF Is, Either, Up, S!migrations, S!add_tra_credits, S!Add, S!Statement
<1>7. /\ Is(Up(12)[1], "add", "stock_item", "properties", "none")
      /\ Is(Up(12)[2], "add", "stock_riven", "properties", "none")
      /\ Is(Up(12)[3], "add", "wish_list", "properties", "none")
  <2>1. Is(Up(12)[1], "add", "stock_item", "properties", "none")
    BY DEF Is, Either, Up, S!migrations, S!add_properties, S!Add, S!Statement
  <2>2. Is(Up(12)[2], "add", "stock_riven", "properties", "none")
    BY DEF Is, Either, Up, S!migrations, S!add_properties, S!Add, S!Statement
  <2>3. Is(Up(12)[3], "add", "wish_list", "properties", "none")
    BY DEF Is, Either, Up, S!migrations, S!add_properties, S!Add, S!Statement
  <2> QED BY <2>1, <2>2, <2>3
<1>8. /\ Is(Up(13)[1], "json_set", "stock_item", "minimum_price", "properties")
      /\ Is(Up(13)[2], "json_set", "stock_item", "minimum_profit", "properties")
      /\ Is(Up(13)[3], "json_set", "stock_item", "minimum_sma", "properties")
      /\ Is(Up(13)[4], "json_set", "wish_list", "maximum_price", "properties")
      /\ Is(Up(13)[5], "json_set", "wish_list", "minimum_price", "properties")
      /\ Is(Up(13)[6], "json_set", "stock_riven", "minimum_price", "properties")
      /\ Is(Up(13)[7], "drop", "stock_item", "minimum_price", "none")
      /\ Is(Up(13)[8], "drop", "stock_item", "minimum_profit", "none")
      /\ Is(Up(13)[9], "drop", "stock_item", "minimum_sma", "none")
      /\ Is(Up(13)[10], "drop", "stock_riven", "minimum_price", "none")
      /\ Is(Up(13)[11], "drop", "wish_list", "minimum_price", "none")
      /\ Is(Up(13)[12], "drop", "wish_list", "maximum_price", "none")
  BY DEF Is, Either, Up, S!migrations, S!drop_min_price_columns, S!Drop, S!ToProperties, S!Statement
<1>9. /\ Is(Up(14)[1], "add", "stock_riven", "properties_new", "none")
      /\ Is(Up(14)[2], "copy", "stock_riven", "properties", "properties_new")
      /\ Is(Up(14)[3], "drop", "stock_riven", "properties", "none")
      /\ Is(Up(14)[4], "rename", "stock_riven", "properties_new", "properties")
      /\ Is(Up(14)[5], "add", "wish_list", "properties_new", "none")
      /\ Is(Up(14)[6], "copy", "wish_list", "properties", "properties_new")
      /\ Is(Up(14)[7], "drop", "wish_list", "properties", "none")
      /\ Is(Up(14)[8], "rename", "wish_list", "properties_new", "properties")
  BY DEF Is, Either, Up, S!migrations, S!make_properties_nullable, S!recreate_properties_column, S!Add, S!Drop, S!Statement
<1>10. /\ Is(Up(20)[1], "drop", "trader_state", "helper_override", "none")
  BY DEF Is, Either, Up, S!migrations, S!drop_helper_override, S!Drop, S!Statement
<1>11. /\ Is(Up(22)[1], "add", "helper_events", "alerted_at", "none")
  BY DEF Is, Either, Up, S!migrations, S!add_helper_events_alerted_at, S!Add, S!Statement
<1> QED
  BY ONLY <1>1, <1>2, <1>3, <1>4, <1>5, <1>6, <1>7, <1>8, <1>9, <1>10, <1>11

\* The statements that make tables.
LEMMA UpCreations ==
  /\ Creates(Up(0)[1], "transaction")
  /\ Creates(Up(1)[1], "stock_item")
  /\ Creates(Up(2)[1], "stock_riven")
  /\ Creates(Up(3)[1], "wish_list")
  /\ Creates(Up(8)[1], "trade_entry")
  /\ Creates(Up(9)[1], "setting")
  /\ Creates(Up(15)[1], "wfm_account")
  /\ Creates(Up(16)[1], "web_auth")
  /\ \A i \in 1..7 : \E t \in OtherNames : Creates(Up(17)[i], t)
  /\ Creates(Up(18)[1], "trader_state")
  /\ Creates(Up(18)[2], "dry_run_log")
  /\ Creates(Up(19)[1], "helper_keys")
  /\ Creates(Up(21)[1], "helper_events")
  /\ Creates(Up(23)[1], "closed_stats_daily")
  /\ Creates(Up(23)[2], "closed_fetch_state")
  /\ Creates(Up(24)[1], "item_trade_tax")
<1>1. /\ Creates(Up(0)[1], "transaction")
  BY DEF Creates, Up, S!migrations, S!create_transaction_table, S!Create, S!Statement
<1>2. /\ Creates(Up(1)[1], "stock_item")
  BY DEF Creates, Up, S!migrations, S!create_stock_item_table, S!Create, S!Statement
<1>3. /\ Creates(Up(2)[1], "stock_riven")
  BY DEF Creates, Up, S!migrations, S!create_stock_riven_table, S!Create, S!Statement
<1>4. /\ Creates(Up(3)[1], "wish_list")
  BY DEF Creates, Up, S!migrations, S!create_wish_list_table, S!Create, S!Statement
<1>5. /\ Creates(Up(8)[1], "trade_entry")
  BY DEF Creates, Up, S!migrations, S!create_trade_entry, S!Create, S!Statement
<1>6. /\ Creates(Up(9)[1], "setting")
  BY DEF Creates, Up, S!migrations, S!create_settings, S!Create, S!Statement
<1>7. /\ Creates(Up(15)[1], "wfm_account")
  BY DEF Creates, Up, S!migrations, S!create_wfm_account, S!Create, S!Statement
<1>8. /\ Creates(Up(16)[1], "web_auth")
  BY DEF Creates, Up, S!migrations, S!create_web_auth, S!Create, S!Statement
<1>9. /\ \A i \in 1..7 : \E t \in OtherNames : Creates(Up(17)[i], t)
  <2>1. ASSUME NEW i \in 1..7
        PROVE  Up(17)[i] = S!Create(S!collector_tables[i], {"item_id"})
    BY DEF Up, S!migrations, S!create_collector_tables
  <2>2. \A i \in 1..7 : S!collector_tables[i] \in OtherNames
    <3>1. \A i \in 1..7 : i = 1 \/ i = 2 \/ i = 3 \/ i = 4 \/ i = 5 \/ i = 6 \/ i = 7
      OBVIOUS
    <3> QED BY <3>1 DEF S!collector_tables, OtherNames
  <2> QED BY <2>1, <2>2 DEF Creates, S!Create, S!Statement
<1>10. /\ Creates(Up(18)[1], "trader_state")
      /\ Creates(Up(18)[2], "dry_run_log")
  BY DEF Creates, Up, S!migrations, S!create_trader_tables, S!Create, S!Statement
<1>11. /\ Creates(Up(19)[1], "helper_keys")
  BY DEF Creates, Up, S!migrations, S!create_helper_keys, S!Create, S!Statement
<1>12. /\ Creates(Up(21)[1], "helper_events")
  BY DEF Creates, Up, S!migrations, S!create_helper_events, S!Create, S!Statement
<1>13. /\ Creates(Up(23)[1], "closed_stats_daily")
      /\ Creates(Up(23)[2], "closed_fetch_state")
  BY DEF Creates, Up, S!migrations, S!create_closed_stats, S!Create, S!Statement
<1>14. /\ Creates(Up(24)[1], "item_trade_tax")
  BY DEF Creates, Up, S!migrations, S!create_item_trade_tax, S!Create, S!Statement
<1> QED
  BY ONLY <1>1, <1>2, <1>3, <1>4, <1>5, <1>6, <1>7, <1>8, <1>9, <1>10, <1>11, <1>12, <1>13, <1>14

\* Whether a statement succeeds on a table with the columns cs, and what it makes of them.
Ops == {"create", "add", "drop", "rename", "json_set", "copy"}
Can(cs, s) ==
  \/ s.op = "create"
  \/ s.op = "add" /\ cs # {} /\ s.column \notin cs
  \/ s.op = "drop" /\ s.column \in cs
  \/ s.op = "rename" /\ s.column \in cs /\ s.to \notin cs
  \/ s.op \in {"json_set", "copy"} /\ s.column \in cs /\ s.to \in cs
Makes(cs, s, cs2) ==
  /\ s.op = "create" => cs2 = IF cs = {} THEN s.column ELSE cs
  /\ s.op = "add" => cs2 = cs \cup {s.column}
  /\ s.op = "drop" => cs2 = cs \ {s.column}
  /\ s.op = "rename" => cs2 = (cs \ {s.column}) \cup {s.to}
  /\ s.op \in {"json_set", "copy"} => cs2 = cs
OthersStay(f, g, t) == \A u : u # t => S!ColumnsOf(g, u) = S!ColumnsOf(f, u)

\* Columns are those of the pairs in the file.
LEMMA ColumnsAre ==
  ASSUME NEW f, S!IsFile(f), NEW t
  PROVE  /\ \A c : c \in S!ColumnsOf(f, t) <=> <<t, c>> \in DOMAIN f
         /\ t \in S!Tables(f) <=> S!ColumnsOf(f, t) # {}
<1>1. \A x \in DOMAIN f : x = <<x[1], x[2]>>
  BY DEF S!IsFile
<1>2. \A c : c \in S!ColumnsOf(f, t) => <<t, c>> \in DOMAIN f
  BY <1>1 DEF S!ColumnsOf
<1>3. \A c : <<t, c>> \in DOMAIN f => c \in S!ColumnsOf(f, t)
  <2> SUFFICES ASSUME NEW c, <<t, c>> \in DOMAIN f PROVE c \in S!ColumnsOf(f, t)
    OBVIOUS
  <2>1. <<t, c>>[1] = t /\ <<t, c>>[2] = c
    OBVIOUS
  <2> QED BY <2>1 DEF S!ColumnsOf
<1>4. t \in S!Tables(f) => S!ColumnsOf(f, t) # {}
  <2> SUFFICES ASSUME t \in S!Tables(f) PROVE S!ColumnsOf(f, t) # {}
    OBVIOUS
  <2>1. PICK x \in DOMAIN f : t = x[1]
    BY DEF S!Tables
  <2> QED BY <2>1 DEF S!ColumnsOf
<1>5. S!ColumnsOf(f, t) # {} => t \in S!Tables(f)
  <2> SUFFICES ASSUME S!ColumnsOf(f, t) # {} PROVE t \in S!Tables(f)
    OBVIOUS
  <2>1. PICK c : c \in S!ColumnsOf(f, t)
    OBVIOUS
  <2>2. <<t, c>> \in DOMAIN f /\ <<t, c>>[1] = t
    BY <1>2, <2>1
  <2> QED BY <2>2 DEF S!Tables
<1> QED BY <1>2, <1>3, <1>4, <1>5

\* A statement succeeds if its table's columns let it.
LEMMA SucceedsIs ==
  ASSUME NEW f, S!IsFile(f), NEW s, s.op \in Ops
  PROVE  S!Succeeds(f, s) <=> Can(S!ColumnsOf(f, s.table), s)
<1>1. PICK t : t = s.table
  OBVIOUS
<1>2. PICK cs : cs = S!ColumnsOf(f, t)
  OBVIOUS
<1>3. t \in S!Tables(f) <=> cs # {}
  BY <1>2, ColumnsAre
<1> QED
  BY <1>1, <1>2, <1>3 DEF S!Succeeds, Can, Ops

Grows(f, g) == \A x \in DOMAIN f : x \in DOMAIN g /\ g[x] = f[x]
Loses(f, g, here) == DOMAIN g = DOMAIN f \ {here} /\ \A x \in DOMAIN g : g[x] = f[x]
Sets(f, g, there, v) ==
  /\ DOMAIN g = DOMAIN f /\ \A x \in DOMAIN f : x # there => g[x] = f[x]
  /\ there \in DOMAIN f => g[there] = v
Copies(f, g, s) ==
  LET here == <<s.table, s.column>> there == <<s.table, s.to>> IN
  Sets(f, g, there, IF s.op = "copy" THEN f[here] ELSE f[there] \cup f[here])
Pairs(xs) == \A x \in xs : x = <<x[1], x[2]>>
Widens(f, xs, v, g) ==
  /\ S!IsFile(g) /\ DOMAIN g = DOMAIN f \cup xs
  /\ \A x \in DOMAIN f : g[x] = f[x]
  /\ \A x \in xs \ DOMAIN f : g[x] = v
Narrows(f, xs, g) ==
  /\ S!IsFile(g) /\ DOMAIN g = DOMAIN f \ xs
  /\ \A x \in DOMAIN g : g[x] = f[x]

\* Files that lose and gain columns are files.
LEMMA WithIs ==
  ASSUME NEW f, S!IsFile(f), NEW xs, Pairs(xs), NEW v
  PROVE  Widens(f, xs, v, S!With(f, xs, v))
BY DEF S!IsFile, S!With, Pairs, Widens

\* Taking columns away leaves the others, and what they hold.
LEMMA WithoutIs ==
  ASSUME NEW f, S!IsFile(f), NEW xs
  PROVE  Narrows(f, xs, S!Without(f, xs))
BY DEF S!IsFile, S!Without, S!Restrict, Narrows

\* What each statement makes of the file.
LEMMA CreateRuns ==
  ASSUME NEW f, S!IsFile(f), NEW s, s.op = "create", NEW g, g = S!Run(f, s)
  PROVE  /\ S!IsFile(g)
         /\ Grows(f, g)
         /\ OthersStay(f, g, s.table)
         /\ Makes(S!ColumnsOf(f, s.table), s, S!ColumnsOf(g, s.table))
<1>1. PICK t : t = s.table
  OBVIOUS
<1>2. PICK xs : xs = {<<t, c>> : c \in s.column}
  OBVIOUS
<1>3. g = IF t \in S!Tables(f) THEN f ELSE S!With(f, xs, {})
  BY <1>1, <1>2 DEF S!Run
<1>4. CASE t \in S!Tables(f)
  BY <1>1, <1>3, <1>4, ColumnsAre DEF Makes, Grows, OthersStay
<1>5. CASE t \notin S!Tables(f)
  <2>1. \A x \in xs : x = <<x[1], x[2]>> /\ x[1] = t
    BY <1>2
  <2>2. S!IsFile(g) /\ DOMAIN g = DOMAIN f \cup xs /\ \A x \in DOMAIN f : g[x] = f[x]
    <3>1. Pairs(xs)
      BY <2>1 DEF Pairs
    <3>2. Widens(f, xs, {}, S!With(f, xs, {}))
      BY <3>1, WithIs, Zenon
    <3> QED BY <1>3, <1>5, <3>2 DEF Widens
  <2>3. S!ColumnsOf(f, t) = {}
    BY <1>5, ColumnsAre
  <2>4. \A c : <<t, c>> \in xs <=> c \in s.column
    <3>1. \A c, e : <<t, c>> = <<t, e>> => c = e
      OBVIOUS
    <3> QED BY <1>2, <3>1
  <2>5. \A c : c \in S!ColumnsOf(g, t) <=> c \in s.column
    BY <2>2, <2>3, <2>4, ColumnsAre
  <2>6. \A u, c : u # t => <<u, c>> \notin xs
    <3>1. \A u, c : <<u, c>>[1] = u
      OBVIOUS
    <3> QED BY <2>1, <3>1
  <2>7. \A u, c : u # t => (c \in S!ColumnsOf(g, u) <=> c \in S!ColumnsOf(f, u))
    BY <2>2, <2>6, ColumnsAre
  <2>8. OthersStay(f, g, t)
    <3> SUFFICES ASSUME NEW u, u # t PROVE S!ColumnsOf(g, u) = S!ColumnsOf(f, u)
      BY DEF OthersStay
    <3>1. \A c : c \in S!ColumnsOf(g, u) <=> c \in S!ColumnsOf(f, u)
      BY <2>7
    <3> QED BY <3>1
  <2>9. S!ColumnsOf(g, t) = s.column
    BY <2>5
  <2> QED BY <1>1, <2>2, <2>3, <2>8, <2>9 DEF Makes, Grows
<1> QED BY <1>4, <1>5

\* A column is added empty.
LEMMA AddRuns ==
  ASSUME NEW f, S!IsFile(f), NEW s, s.op = "add", NEW g, g = S!Run(f, s),
         Can(S!ColumnsOf(f, s.table), s)
  PROVE  /\ S!IsFile(g)
         /\ Grows(f, g)
         /\ <<s.table, s.column>> \in DOMAIN g /\ g[<<s.table, s.column>>] = {}
         /\ OthersStay(f, g, s.table)
         /\ Makes(S!ColumnsOf(f, s.table), s, S!ColumnsOf(g, s.table))
<1>1. PICK t, c : t = s.table /\ c = s.column
  OBVIOUS
<1>2. PICK here : here = <<t, c>>
  OBVIOUS
<1>3. g = S!With(f, {here}, {})
  BY <1>1, <1>2 DEF S!Run
<1>4. c \notin S!ColumnsOf(f, t)
  BY <1>1 DEF Can
<1>5. here \notin DOMAIN f
  BY <1>2, <1>4, ColumnsAre
<1>6. here = <<here[1], here[2]>>
  BY <1>2
<1>7. /\ S!IsFile(g) /\ DOMAIN g = DOMAIN f \cup {here}
      /\ \A x \in DOMAIN f : g[x] = f[x]
      /\ g[here] = {}
  <2>1. Pairs({here})
    BY <1>6 DEF Pairs
  <2>2. Widens(f, {here}, {}, S!With(f, {here}, {}))
    BY <2>1, WithIs, Zenon
  <2>3. here \in {here} \ DOMAIN f
    BY <1>5
  <2> QED BY <1>3, <2>2, <2>3 DEF Widens
<1>8. \A u, e : <<u, e>> = here <=> u = t /\ e = c
  BY <1>2
<1>9. \A u, e : <<u, e>> \in DOMAIN g <=> <<u, e>> \in DOMAIN f \/ (u = t /\ e = c)
  BY <1>7, <1>8
<1>10. \A u, e : e \in S!ColumnsOf(g, u) <=> e \in S!ColumnsOf(f, u) \/ (u = t /\ e = c)
  BY <1>7, <1>9, ColumnsAre
<1>11. OthersStay(f, g, t)
  <2> SUFFICES ASSUME NEW u, u # t PROVE S!ColumnsOf(g, u) = S!ColumnsOf(f, u)
    BY DEF OthersStay
  <2>1. \A e : e \in S!ColumnsOf(g, u) <=> e \in S!ColumnsOf(f, u)
    BY <1>10
  <2> QED BY <2>1
<1>12. S!ColumnsOf(g, t) = S!ColumnsOf(f, t) \cup {c}
  <2>1. \A e : e \in S!ColumnsOf(g, t) <=> e \in S!ColumnsOf(f, t) \/ e = c
    BY <1>10, Zenon
  <2> QED BY <2>1
<1> QED
  BY <1>1, <1>2, <1>7, <1>11, <1>12 DEF Makes, Grows

\* A column is dropped with what it holds.
LEMMA DropRuns ==
  ASSUME NEW f, S!IsFile(f), NEW s, s.op = "drop", NEW g, g = S!Run(f, s)
  PROVE  /\ S!IsFile(g) /\ Loses(f, g, <<s.table, s.column>>)
         /\ OthersStay(f, g, s.table)
         /\ Makes(S!ColumnsOf(f, s.table), s, S!ColumnsOf(g, s.table))
<1>1. PICK t, c : t = s.table /\ c = s.column
  OBVIOUS
<1>2. PICK here : here = <<t, c>>
  OBVIOUS
<1>3. g = S!Without(f, {here})
  BY <1>1, <1>2 DEF S!Run
<1>7. /\ S!IsFile(g) /\ DOMAIN g = DOMAIN f \ {here}
      /\ \A x \in DOMAIN g : g[x] = f[x]
  <2>1. Narrows(f, {here}, S!Without(f, {here}))
    BY WithoutIs, Zenon
  <2> QED BY <1>3, <2>1 DEF Narrows
<1>8. \A u, e : <<u, e>> = here <=> u = t /\ e = c
  BY <1>2
<1>9. \A u, e : <<u, e>> \in DOMAIN g <=> <<u, e>> \in DOMAIN f /\ ~(u = t /\ e = c)
  BY <1>7, <1>8
<1>10. \A u, e : e \in S!ColumnsOf(g, u) <=> e \in S!ColumnsOf(f, u) /\ ~(u = t /\ e = c)
  BY <1>7, <1>9, ColumnsAre
<1>11. OthersStay(f, g, t)
  <2> SUFFICES ASSUME NEW u, u # t PROVE S!ColumnsOf(g, u) = S!ColumnsOf(f, u)
    BY DEF OthersStay
  <2>1. \A e : e \in S!ColumnsOf(g, u) <=> e \in S!ColumnsOf(f, u)
    BY <1>10
  <2> QED BY <2>1
<1>12. S!ColumnsOf(g, t) = S!ColumnsOf(f, t) \ {c}
  <2>1. \A e : e \in S!ColumnsOf(g, t) <=> e \in S!ColumnsOf(f, t) /\ e # c
    BY <1>10, Zenon
  <2> QED BY <2>1
<1> QED
  BY <1>1, <1>2, <1>7, <1>11, <1>12 DEF Makes, Loses

\* A renamed column keeps what it holds.
LEMMA RenameRuns ==
  ASSUME NEW f, S!IsFile(f), NEW s, s.op = "rename", NEW g, g = S!Run(f, s),
         Can(S!ColumnsOf(f, s.table), s)
  PROVE  LET here == <<s.table, s.column>> there == <<s.table, s.to>> IN
         /\ S!IsFile(g) /\ DOMAIN g = (DOMAIN f \ {here}) \cup {there}
         /\ \A x \in DOMAIN g : x # there => g[x] = f[x]
         /\ g[there] = f[here]
         /\ OthersStay(f, g, s.table)
         /\ Makes(S!ColumnsOf(f, s.table), s, S!ColumnsOf(g, s.table))
<1>1. PICK t, c, d : t = s.table /\ c = s.column /\ d = s.to
  OBVIOUS
<1>2. PICK here, there : here = <<t, c>> /\ there = <<t, d>>
  OBVIOUS
<1>3. PICK h : h = S!Without(f, {here})
  OBVIOUS
<1>4. g = S!With(h, {there}, f[here])
  BY <1>1, <1>2, <1>3 DEF S!Run
<1>5. c \in S!ColumnsOf(f, t) /\ d \notin S!ColumnsOf(f, t)
  BY <1>1 DEF Can
<1>6. here \in DOMAIN f /\ there \notin DOMAIN f /\ there = <<there[1], there[2]>>
  BY <1>2, <1>5, ColumnsAre
<1>7. S!IsFile(h) /\ DOMAIN h = DOMAIN f \ {here} /\ \A x \in DOMAIN h : h[x] = f[x]
  <2>1. Narrows(f, {here}, S!Without(f, {here}))
    BY WithoutIs, Zenon
  <2> QED BY <1>3, <2>1 DEF Narrows
<1>8. /\ S!IsFile(g) /\ DOMAIN g = (DOMAIN f \ {here}) \cup {there}
      /\ \A x \in DOMAIN h : g[x] = f[x]
      /\ g[there] = f[here]
  <2>1. there \notin DOMAIN h
    BY <1>6, <1>7
  <2>2. /\ S!IsFile(g) /\ DOMAIN g = DOMAIN h \cup {there} /\ \A x \in DOMAIN h : g[x] = h[x]
        /\ g[there] = f[here]
    <3>1. Pairs({there})
      BY <1>6 DEF Pairs
    <3>2. Widens(h, {there}, f[here], S!With(h, {there}, f[here]))
      BY <1>7, <3>1, WithIs, Zenon
    <3>3. there \in {there} \ DOMAIN h
      BY <2>1
    <3> QED BY <1>4, <3>2, <3>3 DEF Widens
  <2> QED BY <1>7, <2>2
<1>9. \A u, e : (<<u, e>> = here <=> u = t /\ e = c) /\ (<<u, e>> = there <=> u = t /\ e = d)
  BY <1>2
<1>10. \A u, e : <<u, e>> \in DOMAIN g <=> (<<u, e>> \in DOMAIN f /\ ~(u = t /\ e = c)) \/ (u = t /\ e = d)
  BY <1>8, <1>9
<1>11. \A u, e : e \in S!ColumnsOf(g, u) <=> (e \in S!ColumnsOf(f, u) /\ ~(u = t /\ e = c)) \/ (u = t /\ e = d)
  BY <1>8, <1>10, ColumnsAre
<1>12. OthersStay(f, g, t)
  <2> SUFFICES ASSUME NEW u, u # t PROVE S!ColumnsOf(g, u) = S!ColumnsOf(f, u)
    BY DEF OthersStay
  <2>1. \A e : e \in S!ColumnsOf(g, u) <=> e \in S!ColumnsOf(f, u)
    BY <1>11
  <2> QED BY <2>1
<1>13. S!ColumnsOf(g, t) = (S!ColumnsOf(f, t) \ {c}) \cup {d}
  BY <1>11
<1>14. \A x \in DOMAIN g : x # there => g[x] = f[x]
  BY <1>7, <1>8
<1> QED
  BY <1>1, <1>2, <1>8, <1>12, <1>13, <1>14 DEF Makes

\* Copying and json_set change what one column holds.
LEMMA CopyRuns ==
  ASSUME NEW f, S!IsFile(f), NEW s, s.op = "json_set" \/ s.op = "copy", NEW g, g = S!Run(f, s)
  PROVE  /\ S!IsFile(g) /\ Copies(f, g, s)
         /\ OthersStay(f, g, s.table)
         /\ Makes(S!ColumnsOf(f, s.table), s, S!ColumnsOf(g, s.table))
<1>1. PICK t, c, d : t = s.table /\ c = s.column /\ d = s.to
  OBVIOUS
<1>2. PICK here, there : here = <<t, c>> /\ there = <<t, d>>
  OBVIOUS
<1>3. PICK v : v = IF s.op = "copy" THEN f[here] ELSE f[there] \cup f[here]
  OBVIOUS
<1>4. g = [f EXCEPT ![there] = v]
  BY <1>1, <1>2, <1>3 DEF S!Run
<1>5. f = [x \in DOMAIN f |-> f[x]] /\ \A x \in DOMAIN f : x = <<x[1], x[2]>>
  BY DEF S!IsFile
<1>6. /\ g = [x \in DOMAIN g |-> g[x]] /\ DOMAIN g = DOMAIN f
      /\ \A x \in DOMAIN f : x # there => g[x] = f[x]
      /\ there \in DOMAIN f => g[there] = v
  BY <1>4, <1>5
<1>7. S!IsFile(g)
  BY <1>5, <1>6 DEF S!IsFile
<1>8. OthersStay(f, g, t) /\ S!ColumnsOf(g, t) = S!ColumnsOf(f, t)
  BY <1>6 DEF S!ColumnsOf, OthersStay
<1> QED
  BY <1>1, <1>2, <1>3, <1>6, <1>7, <1>8 DEF Makes, Sets, Copies

\* So a statement that succeeds changes the columns of its table only.
LEMMA Runs ==
  ASSUME NEW f, S!IsFile(f), NEW s, s.op \in Ops, S!Succeeds(f, s), NEW g, g = S!Run(f, s)
  PROVE  /\ S!IsFile(g)
         /\ OthersStay(f, g, s.table)
         /\ Can(S!ColumnsOf(f, s.table), s)
         /\ Makes(S!ColumnsOf(f, s.table), s, S!ColumnsOf(g, s.table))
<1>1. Can(S!ColumnsOf(f, s.table), s)
  BY SucceedsIs
<1>2. CASE s.op = "create"
  BY <1>1, <1>2, CreateRuns
<1>3. CASE s.op = "add"
  BY <1>1, <1>3, AddRuns
<1>4. CASE s.op = "drop"
  BY <1>1, <1>4, DropRuns
<1>5. CASE s.op = "rename"
  BY <1>1, <1>5, RenameRuns
<1>6. CASE s.op \in {"json_set", "copy"}
  <2>1. S!IsFile(g) /\ OthersStay(f, g, s.table) /\ Makes(S!ColumnsOf(f, s.table), s, S!ColumnsOf(g, s.table))
    BY <1>6, CopyRuns, Zenon
  <2> QED BY <1>1, <2>1
<1> QED BY <1>2, <1>3, <1>4, <1>5, <1>6 DEF Ops

-----------------------------------------------------------------------------
(* The columns at each position.                                            *)

\* The statements on each table, by migration and number.
ItemStatement(a, i, s) ==
  \/ a = 1 /\ i = 1 /\ Creates(s, "stock_item")
  \/ a = 6 /\ i = 1 /\ Is(s, "add", "stock_item", "minimum_profit", "none")
  \/ a = 6 /\ i = 2 /\ Is(s, "add", "stock_item", "minimum_sma", "none")
  \/ a = 12 /\ i = 1 /\ Is(s, "add", "stock_item", "properties", "none")
  \/ a = 13 /\ i = 1 /\ Is(s, "json_set", "stock_item", "minimum_price", "properties")
  \/ a = 13 /\ i = 2 /\ Is(s, "json_set", "stock_item", "minimum_profit", "properties")
  \/ a = 13 /\ i = 3 /\ Is(s, "json_set", "stock_item", "minimum_sma", "properties")
  \/ a = 13 /\ i = 7 /\ Is(s, "drop", "stock_item", "minimum_price", "none")
  \/ a = 13 /\ i = 8 /\ Is(s, "drop", "stock_item", "minimum_profit", "none")
  \/ a = 13 /\ i = 9 /\ Is(s, "drop", "stock_item", "minimum_sma", "none")
RivenStatement(a, i, s) ==
  \/ a = 2 /\ i = 1 /\ Creates(s, "stock_riven")
  \/ a = 5 /\ i = 1 /\ Tolerated(s, "add", "stock_riven", "uuid", "none")
  \/ a = 5 /\ i = 2 /\ Tolerated(s, "drop", "stock_riven", "wfm_order_id", "none")
  \/ a = 12 /\ i = 2 /\ Is(s, "add", "stock_riven", "properties", "none")
  \/ a = 13 /\ i = 6 /\ Is(s, "json_set", "stock_riven", "minimum_price", "properties")
  \/ a = 13 /\ i = 10 /\ Is(s, "drop", "stock_riven", "minimum_price", "none")
  \/ a = 14 /\ i = 1 /\ Is(s, "add", "stock_riven", "properties_new", "none")
  \/ a = 14 /\ i = 2 /\ Is(s, "copy", "stock_riven", "properties", "properties_new")
  \/ a = 14 /\ i = 3 /\ Is(s, "drop", "stock_riven", "properties", "none")
  \/ a = 14 /\ i = 4 /\ Is(s, "rename", "stock_riven", "properties_new", "properties")
WishStatement(a, i, s) ==
  \/ a = 3 /\ i = 1 /\ Creates(s, "wish_list")
  \/ a = 4 /\ i = 1 /\ Is(s, "add", "wish_list", "is_hidden", "none")
  \/ a = 10 /\ i = 1 /\ Is(s, "add", "wish_list", "minimum_price", "none")
  \/ a = 12 /\ i = 3 /\ Is(s, "add", "wish_list", "properties", "none")
  \/ a = 13 /\ i = 4 /\ Is(s, "json_set", "wish_list", "maximum_price", "properties")
  \/ a = 13 /\ i = 5 /\ Is(s, "json_set", "wish_list", "minimum_price", "properties")
  \/ a = 13 /\ i = 11 /\ Is(s, "drop", "wish_list", "minimum_price", "none")
  \/ a = 13 /\ i = 12 /\ Is(s, "drop", "wish_list", "maximum_price", "none")
  \/ a = 14 /\ i = 5 /\ Is(s, "add", "wish_list", "properties_new", "none")
  \/ a = 14 /\ i = 6 /\ Is(s, "copy", "wish_list", "properties", "properties_new")
  \/ a = 14 /\ i = 7 /\ Is(s, "drop", "wish_list", "properties", "none")
  \/ a = 14 /\ i = 8 /\ Is(s, "rename", "wish_list", "properties_new", "properties")
TransactionStatement(a, i, s) ==
  \/ a = 0 /\ i = 1 /\ Creates(s, "transaction")
  \/ a = 7 /\ i = 1 /\ Is(s, "add", "transaction", "profit", "none")
  \/ a = 11 /\ i = 1 /\ Is(s, "add", "transaction", "credits", "none")
StateStatement(a, i, s) ==
  \/ a = 18 /\ i = 1 /\ Creates(s, "trader_state")
  \/ a = 20 /\ i = 1 /\ Is(s, "drop", "trader_state", "helper_override", "none")
EventStatement(a, i, s) ==
  \/ a = 21 /\ i = 1 /\ Creates(s, "helper_events")
  \/ a = 22 /\ i = 1 /\ Is(s, "add", "helper_events", "alerted_at", "none")
EntryStatement(a, i, s) == a = 8 /\ i = 1 /\ Creates(s, "trade_entry")
SettingStatement(a, i, s) == a = 9 /\ i = 1 /\ Creates(s, "setting")
Tables8 == {"stock_item", "stock_riven", "wish_list", "transaction", "trader_state", "helper_events", "trade_entry", "setting"}
OtherStatement(s) == s.op = "create" /\ s.table \notin Tables8 /\ s.tolerant = FALSE

\* A statement touches one of the tables the program reads, or none of them.
LEMMA EachStatement ==
  ASSUME NEW a \in 0..24, NEW i \in 1..Len(Up(a)), NEW s, s = Up(a)[i]
  PROVE  \/ OtherStatement(s)
         \/ ItemStatement(a, i, s) \/ RivenStatement(a, i, s)
         \/ WishStatement(a, i, s) \/ TransactionStatement(a, i, s)
         \/ StateStatement(a, i, s) \/ EventStatement(a, i, s)
         \/ EntryStatement(a, i, s) \/ SettingStatement(a, i, s)
<1>0. CASE a = 0
  <2>1. Len(Up(a)) = 1
    BY <1>0, UpLengths, Zenon
  <2>2. i = 1
    BY <2>1
  <2> QED BY <1>0, <2>2, UpCreations DEF TransactionStatement
<1>1. CASE a = 1
  <2>1. Len(Up(a)) = 1
    BY <1>1, UpLengths, Zenon
  <2>2. i = 1
    BY <2>1
  <2> QED BY <1>1, <2>2, UpCreations DEF ItemStatement
<1>2. CASE a = 2
  <2>1. Len(Up(a)) = 1
    BY <1>2, UpLengths, Zenon
  <2>2. i = 1
    BY <2>1
  <2> QED BY <1>2, <2>2, UpCreations DEF RivenStatement
<1>3. CASE a = 3
  <2>1. Len(Up(a)) = 1
    BY <1>3, UpLengths, Zenon
  <2>2. i = 1
    BY <2>1
  <2> QED BY <1>3, <2>2, UpCreations DEF WishStatement
<1>4. CASE a = 4
  <2>1. Len(Up(a)) = 1
    BY <1>4, UpLengths, Zenon
  <2>2. i = 1
    BY <2>1
  <2> QED BY <1>4, <2>2, UpStatements DEF WishStatement
<1>5. CASE a = 5
  <2>1. Len(Up(a)) = 2
    BY <1>5, UpLengths, Zenon
  <2>2. i \in 1..2
    BY <2>1
  <2>3. i = 1 \/ i = 2
    BY ONLY <2>2
  <2> QED BY <1>5, <2>3, UpStatements DEF RivenStatement
<1>6. CASE a = 6
  <2>1. Len(Up(a)) = 2
    BY <1>6, UpLengths, Zenon
  <2>2. i \in 1..2
    BY <2>1
  <2>3. i = 1 \/ i = 2
    BY ONLY <2>2
  <2> QED BY <1>6, <2>3, UpStatements DEF ItemStatement
<1>7. CASE a = 7
  <2>1. Len(Up(a)) = 1
    BY <1>7, UpLengths, Zenon
  <2>2. i = 1
    BY <2>1
  <2> QED BY <1>7, <2>2, UpStatements DEF TransactionStatement
<1>8. CASE a = 8
  <2>1. Len(Up(a)) = 1
    BY <1>8, UpLengths, Zenon
  <2>2. i = 1
    BY <2>1
  <2> QED BY <1>8, <2>2, UpCreations DEF EntryStatement
<1>9. CASE a = 9
  <2>1. Len(Up(a)) = 1
    BY <1>9, UpLengths, Zenon
  <2>2. i = 1
    BY <2>1
  <2> QED BY <1>9, <2>2, UpCreations DEF SettingStatement
<1>10. CASE a = 10
  <2>1. Len(Up(a)) = 1
    BY <1>10, UpLengths, Zenon
  <2>2. i = 1
    BY <2>1
  <2> QED BY <1>10, <2>2, UpStatements DEF WishStatement
<1>11. CASE a = 11
  <2>1. Len(Up(a)) = 1
    BY <1>11, UpLengths, Zenon
  <2>2. i = 1
    BY <2>1
  <2> QED BY <1>11, <2>2, UpStatements DEF TransactionStatement
<1>12. CASE a = 12
  <2>1. Len(Up(a)) = 3
    BY <1>12, UpLengths, Zenon
  <2>2. i \in 1..3
    BY <2>1
  <2>3. i = 1 \/ i = 2 \/ i = 3
    BY ONLY <2>2
  <2> QED BY <1>12, <2>3, UpStatements DEF ItemStatement, RivenStatement, WishStatement
<1>13. CASE a = 13
  <2>1. Len(Up(a)) = 12
    BY <1>13, UpLengths, Zenon
  <2>2. i \in 1..12
    BY <2>1
  <2>3. i = 1 \/ i = 2 \/ i = 3 \/ i = 4 \/ i = 5 \/ i = 6 \/ i = 7 \/ i = 8 \/ i = 9 \/ i = 10 \/ i = 11 \/ i = 12
    BY ONLY <2>2
  <2> QED BY <1>13, <2>3, UpStatements DEF ItemStatement, WishStatement, RivenStatement
<1>14. CASE a = 14
  <2>1. Len(Up(a)) = 8
    BY <1>14, UpLengths, Zenon
  <2>2. i \in 1..8
    BY <2>1
  <2>3. i = 1 \/ i = 2 \/ i = 3 \/ i = 4 \/ i = 5 \/ i = 6 \/ i = 7 \/ i = 8
    BY ONLY <2>2
  <2> QED BY <1>14, <2>3, UpStatements DEF RivenStatement, WishStatement
<1>15. CASE a = 15
  <2>1. Len(Up(a)) = 1
    BY <1>15, UpLengths, Zenon
  <2>2. i = 1
    BY <2>1
  <2> QED BY <1>15, <2>2, UpCreations DEF OtherStatement, Creates, Tables8
<1>16. CASE a = 16
  <2>1. Len(Up(a)) = 1
    BY <1>16, UpLengths, Zenon
  <2>2. i = 1
    BY <2>1
  <2> QED BY <1>16, <2>2, UpCreations DEF OtherStatement, Creates, Tables8
<1>17. CASE a = 17
  <2>1. Len(Up(a)) = 7
    BY <1>17, UpLengths, Zenon
  <2>2. \E t \in OtherNames : Creates(s, t)
    BY <1>17, <2>1, UpCreations
  <2> QED BY <2>2 DEF OtherStatement, Creates, OtherNames, Tables8
<1>18. CASE a = 18
  <2>1. Len(Up(a)) = 2
    BY <1>18, UpLengths, Zenon
  <2>2. i \in 1..2
    BY <2>1
  <2>3. i = 1 \/ i = 2
    BY ONLY <2>2
  <2>4. CASE i = 1
    BY <1>18, <2>4, UpCreations DEF StateStatement, OtherStatement, Creates, Tables8
  <2>5. CASE i = 2
    BY <1>18, <2>5, UpCreations DEF StateStatement, OtherStatement, Creates, Tables8
  <2> QED BY <2>3, <2>4, <2>5
<1>19. CASE a = 19
  <2>1. Len(Up(a)) = 1
    BY <1>19, UpLengths, Zenon
  <2>2. i = 1
    BY <2>1
  <2> QED BY <1>19, <2>2, UpCreations DEF OtherStatement, Creates, Tables8
<1>20. CASE a = 20
  <2>1. Len(Up(a)) = 1
    BY <1>20, UpLengths, Zenon
  <2>2. i = 1
    BY <2>1
  <2> QED BY <1>20, <2>2, UpStatements DEF StateStatement
<1>21. CASE a = 21
  <2>1. Len(Up(a)) = 1
    BY <1>21, UpLengths, Zenon
  <2>2. i = 1
    BY <2>1
  <2> QED BY <1>21, <2>2, UpCreations DEF EventStatement
<1>22. CASE a = 22
  <2>1. Len(Up(a)) = 1
    BY <1>22, UpLengths, Zenon
  <2>2. i = 1
    BY <2>1
  <2> QED BY <1>22, <2>2, UpStatements DEF EventStatement
<1>23. CASE a = 23
  <2>1. Len(Up(a)) = 2
    BY <1>23, UpLengths, Zenon
  <2>2. i \in 1..2
    BY <2>1
  <2>3. i = 1 \/ i = 2
    BY ONLY <2>2
  <2>4. CASE i = 1
    BY <1>23, <2>4, UpCreations DEF OtherStatement, Creates, Tables8
  <2>5. CASE i = 2
    BY <1>23, <2>5, UpCreations DEF OtherStatement, Creates, Tables8
  <2> QED BY <2>3, <2>4, <2>5
<1>24. CASE a = 24
  <2>1. Len(Up(a)) = 1
    BY <1>24, UpLengths, Zenon
  <2>2. i = 1
    BY <2>1
  <2> QED BY <1>24, <2>2, UpCreations DEF OtherStatement, Creates, Tables8
<1> QED
  BY EachMigration, <1>0, <1>1, <1>2, <1>3, <1>4, <1>5, <1>6, <1>7, <1>8, <1>9, <1>10, <1>11, <1>12, <1>13, <1>14, <1>15, <1>16, <1>17, <1>18, <1>19, <1>20, <1>21, <1>22, <1>23, <1>24

\* Each is on its table.
LEMMA StatementTables ==
  ASSUME NEW a, NEW i, NEW s
  PROVE  /\ OtherStatement(s) => s.table \notin Tables8
         /\ ItemStatement(a, i, s) => s.table = "stock_item"
         /\ RivenStatement(a, i, s) => s.table = "stock_riven"
         /\ WishStatement(a, i, s) => s.table = "wish_list"
         /\ TransactionStatement(a, i, s) => s.table = "transaction"
         /\ StateStatement(a, i, s) => s.table = "trader_state"
         /\ EventStatement(a, i, s) => s.table = "helper_events"
         /\ EntryStatement(a, i, s) => s.table = "trade_entry"
         /\ SettingStatement(a, i, s) => s.table = "setting"
<1>1. OtherStatement(s) => s.table \notin Tables8
  BY DEF OtherStatement
<1>2. ItemStatement(a, i, s) => s.table = "stock_item"
  BY DEF ItemStatement, Creates, Either, Is
<1>3. RivenStatement(a, i, s) => s.table = "stock_riven"
  BY DEF RivenStatement, Creates, Either, Is, Tolerated
<1>4. WishStatement(a, i, s) => s.table = "wish_list"
  BY DEF WishStatement, Creates, Either, Is
<1>5. TransactionStatement(a, i, s) => s.table = "transaction"
  BY DEF TransactionStatement, Creates, Either, Is
<1>6. StateStatement(a, i, s) => s.table = "trader_state"
  BY DEF StateStatement, Creates, Either, Is
<1>7. EventStatement(a, i, s) => s.table = "helper_events"
  BY DEF EventStatement, Creates, Either, Is
<1>8. EntryStatement(a, i, s) => s.table = "trade_entry"
  BY DEF EntryStatement, Creates
<1>9. SettingStatement(a, i, s) => s.table = "setting"
  BY DEF SettingStatement, Creates
<1> QED
  BY ONLY <1>1, <1>2, <1>3, <1>4, <1>5, <1>6, <1>7, <1>8, <1>9
\* So the statements on a table are those.
LEMMA StatementsOn ==
  ASSUME NEW a \in 0..24, NEW i \in 1..Len(Up(a)), NEW s, s = Up(a)[i]
  PROVE  /\ s.table = "stock_item" => ItemStatement(a, i, s)
         /\ s.table = "stock_riven" => RivenStatement(a, i, s)
         /\ s.table = "wish_list" => WishStatement(a, i, s)
         /\ s.table = "transaction" => TransactionStatement(a, i, s)
         /\ s.table = "trader_state" => StateStatement(a, i, s)
         /\ s.table = "helper_events" => EventStatement(a, i, s)
         /\ s.table = "trade_entry" => EntryStatement(a, i, s)
         /\ s.table = "setting" => SettingStatement(a, i, s)
<1>1. \/ OtherStatement(s) \/ ItemStatement(a, i, s) \/ RivenStatement(a, i, s)
      \/ WishStatement(a, i, s) \/ TransactionStatement(a, i, s) \/ StateStatement(a, i, s)
      \/ EventStatement(a, i, s) \/ EntryStatement(a, i, s) \/ SettingStatement(a, i, s)
  BY EachStatement
<1>2. PICK t : t = s.table
  OBVIOUS
<1>3. /\ OtherStatement(s) => t \notin Tables8
      /\ ItemStatement(a, i, s) => t = "stock_item"
      /\ RivenStatement(a, i, s) => t = "stock_riven"
      /\ WishStatement(a, i, s) => t = "wish_list"
      /\ TransactionStatement(a, i, s) => t = "transaction"
      /\ StateStatement(a, i, s) => t = "trader_state"
      /\ EventStatement(a, i, s) => t = "helper_events"
      /\ EntryStatement(a, i, s) => t = "trade_entry"
      /\ SettingStatement(a, i, s) => t = "setting"
  BY <1>2, StatementTables
<1> QED BY ONLY <1>1, <1>2, <1>3 DEF Tables8

\* Every table keeps some of the columns it is made with; what is dropped is not among them.
LEMMA BaseIs ==
  /\ "id" \in S!Base["stock_item"]
  /\ {"minimum_price", "minimum_profit", "minimum_sma", "properties"} \cap S!Base["stock_item"] = {}
  /\ "id" \in S!Base["stock_riven"]
  /\ {"wfm_order_id", "minimum_price", "properties", "properties_new"} \cap S!Base["stock_riven"] = {}
  /\ "id" \in S!Base["wish_list"]
  /\ {"maximum_price", "minimum_price", "properties", "properties_new"} \cap S!Base["wish_list"] = {}
  /\ "id" \in S!Base["transaction"]
  /\ "id" \in S!Base["trade_entry"]
  /\ "id" \in S!Base["setting"]
<1>1. S!Base["stock_item"] = S!stock_item_Model \ {"properties"}
  BY DEF S!Base
<1>11. /\ "id" \in S!Base["stock_item"]
       /\ {"minimum_price", "minimum_profit", "minimum_sma", "properties"} \cap S!Base["stock_item"] = {}
  BY <1>1 DEF S!stock_item_Model
<1>2. S!Base["stock_riven"] = S!stock_riven_Model \ {"properties", "uuid"}
  BY DEF S!Base
<1>12. /\ "id" \in S!Base["stock_riven"]
       /\ {"wfm_order_id", "minimum_price", "properties", "properties_new"} \cap S!Base["stock_riven"] = {}
  BY <1>2 DEF S!stock_riven_Model
<1>3. S!Base["wish_list"] = S!wish_list_Model \ {"properties", "is_hidden"}
  BY DEF S!Base
<1>13. /\ "id" \in S!Base["wish_list"]
       /\ {"maximum_price", "minimum_price", "properties", "properties_new"} \cap S!Base["wish_list"] = {}
  BY <1>3 DEF S!wish_list_Model
<1>4. S!Base["transaction"] = S!transaction_Model \ {"profit", "credits"}
  BY DEF S!Base
<1>14. /\ "id" \in S!Base["transaction"]
  BY <1>4 DEF S!transaction_Model
<1>5. S!Base["trade_entry"] = S!trade_entry_Model
  BY DEF S!Base
<1>15. /\ "id" \in S!Base["trade_entry"]
  BY <1>5 DEF S!trade_entry_Model
<1>6. S!Base["setting"] = S!setting_Model
  BY DEF S!Base
<1>16. /\ "id" \in S!Base["setting"]
  BY <1>6 DEF S!setting_Model
<1> QED BY ONLY <1>11, <1>12, <1>13, <1>14, <1>15, <1>16

\* What the tables are made with.
LEMMA CreatedIs ==
  /\ S!Base["stock_item"] \subseteq Up(1)[1].column
  /\ "minimum_price" \in Up(1)[1].column
  /\ "minimum_profit" \notin Up(1)[1].column
  /\ "minimum_sma" \notin Up(1)[1].column
  /\ "properties" \notin Up(1)[1].column
  /\ S!Base["stock_riven"] \subseteq Up(2)[1].column
  /\ "minimum_price" \in Up(2)[1].column
  /\ "properties" \notin Up(2)[1].column
  /\ "properties_new" \notin Up(2)[1].column
  /\ S!Base["wish_list"] \subseteq Up(3)[1].column
  /\ "maximum_price" \in Up(3)[1].column
  /\ "is_hidden" \notin Up(3)[1].column
  /\ "minimum_price" \notin Up(3)[1].column
  /\ "properties" \notin Up(3)[1].column
  /\ "properties_new" \notin Up(3)[1].column
  /\ S!Base["transaction"] \subseteq Up(0)[1].column
  /\ "profit" \notin Up(0)[1].column
  /\ "credits" \notin Up(0)[1].column
  /\ S!Base["trade_entry"] \subseteq Up(8)[1].column
  /\ S!Base["setting"] \subseteq Up(9)[1].column
  /\ "helper_override" \in Up(18)[1].column
  /\ "id" \in Up(21)[1].column
  /\ "alerted_at" \notin Up(21)[1].column
<1>1. /\ S!Base["stock_item"] \subseteq Up(1)[1].column
      /\ "minimum_price" \in Up(1)[1].column
      /\ "minimum_profit" \notin Up(1)[1].column
      /\ "minimum_sma" \notin Up(1)[1].column
      /\ "properties" \notin Up(1)[1].column
  BY DEF Up, S!migrations, S!create_stock_item_table, S!Create, S!Statement, S!Base, S!stock_item_Model
<1>2. /\ S!Base["stock_riven"] \subseteq Up(2)[1].column
      /\ "minimum_price" \in Up(2)[1].column
      /\ "properties" \notin Up(2)[1].column
      /\ "properties_new" \notin Up(2)[1].column
  BY DEF Up, S!migrations, S!create_stock_riven_table, S!Create, S!Statement, S!Base, S!stock_riven_Model
<1>3. /\ S!Base["wish_list"] \subseteq Up(3)[1].column
      /\ "maximum_price" \in Up(3)[1].column
      /\ "is_hidden" \notin Up(3)[1].column
      /\ "minimum_price" \notin Up(3)[1].column
      /\ "properties" \notin Up(3)[1].column
      /\ "properties_new" \notin Up(3)[1].column
  BY DEF Up, S!migrations, S!create_wish_list_table, S!Create, S!Statement, S!Base, S!wish_list_Model
<1>4. /\ S!Base["transaction"] \subseteq Up(0)[1].column
      /\ "profit" \notin Up(0)[1].column
      /\ "credits" \notin Up(0)[1].column
  BY DEF Up, S!migrations, S!create_transaction_table, S!Create, S!Statement, S!Base, S!transaction_Model
<1>5. /\ S!Base["trade_entry"] \subseteq Up(8)[1].column
  BY DEF Up, S!migrations, S!create_trade_entry, S!Create, S!Statement, S!Base, S!trade_entry_Model
<1>6. /\ S!Base["setting"] \subseteq Up(9)[1].column
  BY DEF Up, S!migrations, S!create_settings, S!Create, S!Statement, S!Base, S!setting_Model
<1>7. /\ "helper_override" \in Up(18)[1].column
  BY DEF Up, S!migrations, S!create_trader_tables, S!Create, S!Statement
<1>8. /\ "id" \in Up(21)[1].column
      /\ "alerted_at" \notin Up(21)[1].column
  BY DEF Up, S!migrations, S!create_helper_events, S!Create, S!Statement
<1> QED BY ONLY <1>1, <1>2, <1>3, <1>4, <1>5, <1>6, <1>7, <1>8

\* A position is on the same side of every mark.
SameSide(p, q, marks) == \A m \in marks : m < p <=> m < q
ItemMarks == {101, 601, 602, 1201, 1307, 1308, 1309}
RivenMarks == {201, 501, 1202, 1310, 1401, 1403, 1404}
WishMarks == {301, 401, 1001, 1203, 1311, 1312, 1405, 1407, 1408}
TransactionMarks == {1, 701, 1101}
StateMarks == {1801, 2001}
EventMarks == {2101, 2201}
EntryMarks == {801}
SettingMarks == {901}

\* What is said of a table stays true where no mark is passed, and in a start that
\* goes back to the first statement of its migration what is said of every file.
LEMMA ItemQuiet ==
  ASSUME NEW cs, NEW p \in Nat, NEW q \in Nat, NEW fresh \in BOOLEAN, S!StockItems(cs, p, fresh)
  PROVE  /\ SameSide(p, q, ItemMarks) => S!StockItems(cs, q, fresh)
         /\ q <= p => S!StockItems(cs, q, FALSE)
<1>1. ASSUME SameSide(p, q, ItemMarks) PROVE S!StockItems(cs, q, fresh)
  <2>1. /\ (101 < p <=> 101 < q) /\ (601 < p <=> 601 < q) /\ (602 < p <=> 602 < q)
        /\ (1201 < p <=> 1201 < q) /\ (1307 < p <=> 1307 < q) /\ (1308 < p <=> 1308 < q)
        /\ (1309 < p <=> 1309 < q)
    BY <1>1 DEF SameSide, ItemMarks
  <2> QED BY <2>1 DEF S!StockItems, S!Made, S!Alive, S!Unborn
<1>2. ASSUME q <= p PROVE S!StockItems(cs, q, FALSE)
  BY <1>2 DEF S!StockItems, S!Made, S!Alive, S!Unborn
<1> QED BY <1>1, <1>2

\* The same of the riven table.
LEMMA RivenQuiet ==
  ASSUME NEW cs, NEW p \in Nat, NEW q \in Nat, NEW fresh \in BOOLEAN, S!StockRivens(cs, p, fresh)
  PROVE  /\ SameSide(p, q, RivenMarks) => S!StockRivens(cs, q, fresh)
         /\ q <= p => S!StockRivens(cs, q, FALSE)
<1>1. ASSUME SameSide(p, q, RivenMarks) PROVE S!StockRivens(cs, q, fresh)
  <2>1. /\ (201 < p <=> 201 < q) /\ (501 < p <=> 501 < q) /\ (1202 < p <=> 1202 < q)
        /\ (1310 < p <=> 1310 < q) /\ (1401 < p <=> 1401 < q) /\ (1403 < p <=> 1403 < q)
        /\ (1404 < p <=> 1404 < q)
    BY <1>1 DEF SameSide, RivenMarks
  <2> QED BY <2>1 DEF S!StockRivens, S!Made, S!Alive, S!Unborn
<1>2. ASSUME q <= p PROVE S!StockRivens(cs, q, FALSE)
  BY <1>2 DEF S!StockRivens, S!Made, S!Alive, S!Unborn
<1> QED BY <1>1, <1>2

\* The same of the wish list.
LEMMA WishQuiet ==
  ASSUME NEW cs, NEW p \in Nat, NEW q \in Nat, NEW fresh \in BOOLEAN, S!WishLists(cs, p, fresh)
  PROVE  /\ SameSide(p, q, WishMarks) => S!WishLists(cs, q, fresh)
         /\ q <= p => S!WishLists(cs, q, FALSE)
<1>1. ASSUME SameSide(p, q, WishMarks) PROVE S!WishLists(cs, q, fresh)
  <2>1. /\ (301 < p <=> 301 < q) /\ (401 < p <=> 401 < q) /\ (1001 < p <=> 1001 < q)
        /\ (1203 < p <=> 1203 < q) /\ (1311 < p <=> 1311 < q) /\ (1312 < p <=> 1312 < q)
        /\ (1405 < p <=> 1405 < q) /\ (1407 < p <=> 1407 < q) /\ (1408 < p <=> 1408 < q)
    BY <1>1 DEF SameSide, WishMarks
  <2> QED BY <2>1 DEF S!WishLists, S!Made, S!Alive, S!Unborn
<1>2. ASSUME q <= p PROVE S!WishLists(cs, q, FALSE)
  BY <1>2 DEF S!WishLists, S!Made, S!Alive, S!Unborn
<1> QED BY <1>1, <1>2

\* The same of the transactions.
LEMMA TransactionQuiet ==
  ASSUME NEW cs, NEW p \in Nat, NEW q \in Nat, NEW fresh \in BOOLEAN, S!Transactions(cs, p, fresh)
  PROVE  /\ SameSide(p, q, TransactionMarks) => S!Transactions(cs, q, fresh)
         /\ q <= p => S!Transactions(cs, q, FALSE)
<1>1. ASSUME SameSide(p, q, TransactionMarks) PROVE S!Transactions(cs, q, fresh)
  <2>1. /\ (1 < p <=> 1 < q) /\ (701 < p <=> 701 < q) /\ (1101 < p <=> 1101 < q)
    BY <1>1 DEF SameSide, TransactionMarks
  <2> QED BY <2>1 DEF S!Transactions, S!Made, S!Unborn
<1>2. ASSUME q <= p PROVE S!Transactions(cs, q, FALSE)
  BY <1>2 DEF S!Transactions, S!Made, S!Unborn
<1> QED BY <1>1, <1>2

\* The same of the trader's state.
LEMMA StateQuiet ==
  ASSUME NEW cs, NEW p \in Nat, NEW q \in Nat, NEW fresh \in BOOLEAN, S!TraderStates(cs, p, fresh)
  PROVE  /\ SameSide(p, q, StateMarks) => S!TraderStates(cs, q, fresh)
         /\ q <= p => S!TraderStates(cs, q, FALSE)
BY DEF SameSide, StateMarks, S!TraderStates

\* The same of the helper's events.
LEMMA EventQuiet ==
  ASSUME NEW cs, NEW p \in Nat, NEW q \in Nat, NEW fresh \in BOOLEAN, S!HelperEvents(cs, p, fresh)
  PROVE  /\ SameSide(p, q, EventMarks) => S!HelperEvents(cs, q, fresh)
         /\ q <= p => S!HelperEvents(cs, q, FALSE)
BY DEF SameSide, EventMarks, S!HelperEvents, S!Unborn

\* The same of the trade entries.
LEMMA EntryQuiet ==
  ASSUME NEW cs, NEW p \in Nat, NEW q \in Nat, S!TradeEntries(cs, p)
  PROVE  /\ SameSide(p, q, EntryMarks) => S!TradeEntries(cs, q)
         /\ q <= p => S!TradeEntries(cs, q)
<1>1. ASSUME SameSide(p, q, EntryMarks) PROVE S!TradeEntries(cs, q)
  <2>1. /\ (801 < p <=> 801 < q)
    BY <1>1 DEF SameSide, EntryMarks
  <2> QED BY <2>1 DEF S!TradeEntries, S!Made
<1>2. ASSUME q <= p PROVE S!TradeEntries(cs, q)
  BY <1>2 DEF S!TradeEntries, S!Made
<1> QED BY <1>1, <1>2

\* The same of the settings.
LEMMA SettingQuiet ==
  ASSUME NEW cs, NEW p \in Nat, NEW q \in Nat, S!Settings(cs, p)
  PROVE  /\ SameSide(p, q, SettingMarks) => S!Settings(cs, q)
         /\ q <= p => S!Settings(cs, q)
<1>1. ASSUME SameSide(p, q, SettingMarks) PROVE S!Settings(cs, q)
  <2>1. /\ (901 < p <=> 901 < q)
    BY <1>1 DEF SameSide, SettingMarks
  <2> QED BY <2>1 DEF S!Settings, S!Made
<1>2. ASSUME q <= p PROVE S!Settings(cs, q)
  BY <1>2 DEF S!Settings, S!Made
<1> QED BY <1>1, <1>2

\* In a fresh file the statements on stock_item succeed.
LEMMA ItemCan ==
  ASSUME NEW a \in 0..24, NEW i \in 1..12, NEW s, ItemStatement(a, i, s), NEW p, p = 100 * a + i,
         NEW cs, S!StockItems(cs, p, TRUE)
  PROVE  Can(cs, s) \/ s.tolerant
<1>1. CASE a = 1 /\ i = 1 /\ Creates(s, "stock_item")
  BY <1>1 DEF Creates, Can
<1>2. CASE a = 6 /\ i = 1 /\ Is(s, "add", "stock_item", "minimum_profit", "none")
  <2>1. p = 601
    BY <1>2
  <2>2. "minimum_profit" \notin cs /\ cs # {}
    BY <2>1, BaseIs DEF S!StockItems, S!Made, S!Alive, S!Unborn
  <2>3. Is(s, "add", "stock_item", "minimum_profit", "none")
    BY <1>2
  <2> QED BY <2>2, <2>3 DEF Can, Is, Either
<1>3. CASE a = 6 /\ i = 2 /\ Is(s, "add", "stock_item", "minimum_sma", "none")
  <2>1. p = 602
    BY <1>3
  <2>2. "minimum_sma" \notin cs /\ cs # {}
    BY <2>1, BaseIs DEF S!StockItems, S!Made, S!Alive, S!Unborn
  <2>3. Is(s, "add", "stock_item", "minimum_sma", "none")
    BY <1>3
  <2> QED BY <2>2, <2>3 DEF Can, Is, Either
<1>4. CASE a = 12 /\ i = 1 /\ Is(s, "add", "stock_item", "properties", "none")
  <2>1. p = 1201
    BY <1>4
  <2>2. "properties" \notin cs /\ cs # {}
    BY <2>1, BaseIs DEF S!StockItems, S!Made, S!Alive, S!Unborn
  <2>3. Is(s, "add", "stock_item", "properties", "none")
    BY <1>4
  <2> QED BY <2>2, <2>3 DEF Can, Is, Either
<1>5. CASE a = 13 /\ i = 1 /\ Is(s, "json_set", "stock_item", "minimum_price", "properties")
  <2>1. p = 1301
    BY <1>5
  <2>2. "minimum_price" \in cs /\ "properties" \in cs
    BY <2>1 DEF S!StockItems, S!Made, S!Alive, S!Unborn
  <2>3. Is(s, "json_set", "stock_item", "minimum_price", "properties")
    BY <1>5
  <2> QED BY <2>2, <2>3 DEF Can, Is, Either
<1>6. CASE a = 13 /\ i = 2 /\ Is(s, "json_set", "stock_item", "minimum_profit", "properties")
  <2>1. p = 1302
    BY <1>6
  <2>2. "minimum_profit" \in cs /\ "properties" \in cs
    BY <2>1 DEF S!StockItems, S!Made, S!Alive, S!Unborn
  <2>3. Is(s, "json_set", "stock_item", "minimum_profit", "properties")
    BY <1>6
  <2> QED BY <2>2, <2>3 DEF Can, Is, Either
<1>7. CASE a = 13 /\ i = 3 /\ Is(s, "json_set", "stock_item", "minimum_sma", "properties")
  <2>1. p = 1303
    BY <1>7
  <2>2. "minimum_sma" \in cs /\ "properties" \in cs
    BY <2>1 DEF S!StockItems, S!Made, S!Alive, S!Unborn
  <2>3. Is(s, "json_set", "stock_item", "minimum_sma", "properties")
    BY <1>7
  <2> QED BY <2>2, <2>3 DEF Can, Is, Either
<1>8. CASE a = 13 /\ i = 7 /\ Is(s, "drop", "stock_item", "minimum_price", "none")
  <2>1. p = 1307
    BY <1>8
  <2>2. "minimum_price" \in cs
    BY <2>1 DEF S!StockItems, S!Made, S!Alive, S!Unborn
  <2>3. Is(s, "drop", "stock_item", "minimum_price", "none")
    BY <1>8
  <2> QED BY <2>2, <2>3 DEF Can, Is, Either
<1>9. CASE a = 13 /\ i = 8 /\ Is(s, "drop", "stock_item", "minimum_profit", "none")
  <2>1. p = 1308
    BY <1>9
  <2>2. "minimum_profit" \in cs
    BY <2>1 DEF S!StockItems, S!Made, S!Alive, S!Unborn
  <2>3. Is(s, "drop", "stock_item", "minimum_profit", "none")
    BY <1>9
  <2> QED BY <2>2, <2>3 DEF Can, Is, Either
<1>10. CASE a = 13 /\ i = 9 /\ Is(s, "drop", "stock_item", "minimum_sma", "none")
  <2>1. p = 1309
    BY <1>10
  <2>2. "minimum_sma" \in cs
    BY <2>1 DEF S!StockItems, S!Made, S!Alive, S!Unborn
  <2>3. Is(s, "drop", "stock_item", "minimum_sma", "none")
    BY <1>10
  <2> QED BY <2>2, <2>3 DEF Can, Is, Either
<1> QED BY <1>1, <1>2, <1>3, <1>4, <1>5, <1>6, <1>7, <1>8, <1>9, <1>10 DEF ItemStatement

\* What a statement on stock_item makes of its columns.
LEMMA ItemRun ==
  ASSUME NEW a \in 0..24, NEW i \in 1..12, NEW s, ItemStatement(a, i, s), s = Up(a)[i], NEW p, p = 100 * a + i,
         NEW cs, NEW cs2, Can(cs, s), Makes(cs, s, cs2), NEW fresh \in BOOLEAN, S!StockItems(cs, p, fresh)
  PROVE  S!StockItems(cs2, p + 1, fresh)
<1>0. S!StockItems(cs, p, fresh) /\ fresh \in BOOLEAN
  OBVIOUS
<1>1. CASE a = 1 /\ i = 1 /\ Creates(s, "stock_item")
  <2>1. p = 101 /\ Creates(s, "stock_item")
    BY <1>1
  <2>2. cs2 = IF cs = {} THEN Up(1)[1].column ELSE cs
    BY <1>1 DEF Creates, Makes
  <2> QED BY ONLY <1>0, <2>1, <2>2, CreatedIs, BaseIs DEF S!StockItems, S!Made, S!Alive, S!Unborn
<1>2. CASE a = 6 /\ i = 1 /\ Is(s, "add", "stock_item", "minimum_profit", "none")
  <2>1. p = 601 /\ Is(s, "add", "stock_item", "minimum_profit", "none")
    BY <1>2
  <2>2. cs2 = cs \cup {"minimum_profit"}
    BY <2>1 DEF Makes, Is, Either
  <2>3. "minimum_profit" \notin cs /\ cs # {}
    BY <2>1 DEF Can, Is, Either
  <2> QED BY ONLY <1>0, <2>1, <2>2, <2>3, BaseIs DEF S!StockItems, S!Made, S!Alive, S!Unborn
<1>3. CASE a = 6 /\ i = 2 /\ Is(s, "add", "stock_item", "minimum_sma", "none")
  <2>1. p = 602 /\ Is(s, "add", "stock_item", "minimum_sma", "none")
    BY <1>3
  <2>2. cs2 = cs \cup {"minimum_sma"}
    BY <2>1 DEF Makes, Is, Either
  <2>3. "minimum_sma" \notin cs /\ cs # {}
    BY <2>1 DEF Can, Is, Either
  <2> QED BY ONLY <1>0, <2>1, <2>2, <2>3, BaseIs DEF S!StockItems, S!Made, S!Alive, S!Unborn
<1>4. CASE a = 12 /\ i = 1 /\ Is(s, "add", "stock_item", "properties", "none")
  <2>1. p = 1201 /\ Is(s, "add", "stock_item", "properties", "none")
    BY <1>4
  <2>2. cs2 = cs \cup {"properties"}
    BY <2>1 DEF Makes, Is, Either
  <2>3. "properties" \notin cs /\ cs # {}
    BY <2>1 DEF Can, Is, Either
  <2> QED BY ONLY <1>0, <2>1, <2>2, <2>3, BaseIs DEF S!StockItems, S!Made, S!Alive, S!Unborn
<1>5. CASE a = 13 /\ i = 1 /\ Is(s, "json_set", "stock_item", "minimum_price", "properties")
  <2>1. p = 1301 /\ Is(s, "json_set", "stock_item", "minimum_price", "properties")
    BY <1>5
  <2>2. cs2 = cs
    BY <2>1 DEF Makes, Is, Either
  <2> QED BY ONLY <1>0, <2>1, <2>2 DEF S!StockItems, S!Made, S!Alive, S!Unborn
<1>6. CASE a = 13 /\ i = 2 /\ Is(s, "json_set", "stock_item", "minimum_profit", "properties")
  <2>1. p = 1302 /\ Is(s, "json_set", "stock_item", "minimum_profit", "properties")
    BY <1>6
  <2>2. cs2 = cs
    BY <2>1 DEF Makes, Is, Either
  <2> QED BY ONLY <1>0, <2>1, <2>2 DEF S!StockItems, S!Made, S!Alive, S!Unborn
<1>7. CASE a = 13 /\ i = 3 /\ Is(s, "json_set", "stock_item", "minimum_sma", "properties")
  <2>1. p = 1303 /\ Is(s, "json_set", "stock_item", "minimum_sma", "properties")
    BY <1>7
  <2>2. cs2 = cs
    BY <2>1 DEF Makes, Is, Either
  <2> QED BY ONLY <1>0, <2>1, <2>2 DEF S!StockItems, S!Made, S!Alive, S!Unborn
<1>8. CASE a = 13 /\ i = 7 /\ Is(s, "drop", "stock_item", "minimum_price", "none")
  <2>1. p = 1307 /\ Is(s, "drop", "stock_item", "minimum_price", "none")
    BY <1>8
  <2>2. cs2 = cs \ {"minimum_price"}
    BY <2>1 DEF Makes, Is, Either
  <2>3. "minimum_price" \in cs
    BY <2>1 DEF Can, Is, Either
  <2> QED BY ONLY <1>0, <2>1, <2>2, <2>3, BaseIs DEF S!StockItems, S!Made, S!Alive, S!Unborn
<1>9. CASE a = 13 /\ i = 8 /\ Is(s, "drop", "stock_item", "minimum_profit", "none")
  <2>1. p = 1308 /\ Is(s, "drop", "stock_item", "minimum_profit", "none")
    BY <1>9
  <2>2. cs2 = cs \ {"minimum_profit"}
    BY <2>1 DEF Makes, Is, Either
  <2>3. "minimum_profit" \in cs
    BY <2>1 DEF Can, Is, Either
  <2> QED BY ONLY <1>0, <2>1, <2>2, <2>3, BaseIs DEF S!StockItems, S!Made, S!Alive, S!Unborn
<1>10. CASE a = 13 /\ i = 9 /\ Is(s, "drop", "stock_item", "minimum_sma", "none")
  <2>1. p = 1309 /\ Is(s, "drop", "stock_item", "minimum_sma", "none")
    BY <1>10
  <2>2. cs2 = cs \ {"minimum_sma"}
    BY <2>1 DEF Makes, Is, Either
  <2>3. "minimum_sma" \in cs
    BY <2>1 DEF Can, Is, Either
  <2> QED BY ONLY <1>0, <2>1, <2>2, <2>3, BaseIs DEF S!StockItems, S!Made, S!Alive, S!Unborn
<1> QED BY <1>1, <1>2, <1>3, <1>4, <1>5, <1>6, <1>7, <1>8, <1>9, <1>10 DEF ItemStatement

\* In a fresh file the statements on stock_riven succeed.
LEMMA RivenCan ==
  ASSUME NEW a \in 0..24, NEW i \in 1..12, NEW s, RivenStatement(a, i, s), NEW p, p = 100 * a + i,
         NEW cs, S!StockRivens(cs, p, TRUE)
  PROVE  Can(cs, s) \/ s.tolerant
<1>1. CASE a = 2 /\ i = 1 /\ Creates(s, "stock_riven")
  BY <1>1 DEF Creates, Can
<1>2. CASE a = 5 /\ i = 1 /\ Tolerated(s, "add", "stock_riven", "uuid", "none")
  BY <1>2 DEF Tolerated
<1>3. CASE a = 5 /\ i = 2 /\ Tolerated(s, "drop", "stock_riven", "wfm_order_id", "none")
  BY <1>3 DEF Tolerated
<1>4. CASE a = 12 /\ i = 2 /\ Is(s, "add", "stock_riven", "properties", "none")
  <2>1. p = 1202
    BY <1>4
  <2>2. "properties" \notin cs /\ cs # {}
    BY <2>1, BaseIs DEF S!StockRivens, S!Made, S!Alive, S!Unborn
  <2>3. Is(s, "add", "stock_riven", "properties", "none")
    BY <1>4
  <2> QED BY <2>2, <2>3 DEF Can, Is, Either
<1>5. CASE a = 13 /\ i = 6 /\ Is(s, "json_set", "stock_riven", "minimum_price", "properties")
  <2>1. p = 1306
    BY <1>5
  <2>2. "minimum_price" \in cs /\ "properties" \in cs
    BY <2>1 DEF S!StockRivens, S!Made, S!Alive, S!Unborn
  <2>3. Is(s, "json_set", "stock_riven", "minimum_price", "properties")
    BY <1>5
  <2> QED BY <2>2, <2>3 DEF Can, Is, Either
<1>6. CASE a = 13 /\ i = 10 /\ Is(s, "drop", "stock_riven", "minimum_price", "none")
  <2>1. p = 1310
    BY <1>6
  <2>2. "minimum_price" \in cs
    BY <2>1 DEF S!StockRivens, S!Made, S!Alive, S!Unborn
  <2>3. Is(s, "drop", "stock_riven", "minimum_price", "none")
    BY <1>6
  <2> QED BY <2>2, <2>3 DEF Can, Is, Either
<1>7. CASE a = 14 /\ i = 1 /\ Is(s, "add", "stock_riven", "properties_new", "none")
  <2>1. p = 1401
    BY <1>7
  <2>2. "properties_new" \notin cs /\ cs # {}
    BY <2>1, BaseIs DEF S!StockRivens, S!Made, S!Alive, S!Unborn
  <2>3. Is(s, "add", "stock_riven", "properties_new", "none")
    BY <1>7
  <2> QED BY <2>2, <2>3 DEF Can, Is, Either
<1>8. CASE a = 14 /\ i = 2 /\ Is(s, "copy", "stock_riven", "properties", "properties_new")
  <2>1. p = 1402
    BY <1>8
  <2>2. "properties" \in cs /\ "properties_new" \in cs
    BY <2>1 DEF S!StockRivens, S!Made, S!Alive, S!Unborn
  <2>3. Is(s, "copy", "stock_riven", "properties", "properties_new")
    BY <1>8
  <2> QED BY <2>2, <2>3 DEF Can, Is, Either
<1>9. CASE a = 14 /\ i = 3 /\ Is(s, "drop", "stock_riven", "properties", "none")
  <2>1. p = 1403
    BY <1>9
  <2>2. "properties" \in cs
    BY <2>1 DEF S!StockRivens, S!Made, S!Alive, S!Unborn
  <2>3. Is(s, "drop", "stock_riven", "properties", "none")
    BY <1>9
  <2> QED BY <2>2, <2>3 DEF Can, Is, Either
<1>10. CASE a = 14 /\ i = 4 /\ Is(s, "rename", "stock_riven", "properties_new", "properties")
  <2>1. p = 1404
    BY <1>10
  <2>2. "properties_new" \in cs /\ "properties" \notin cs
    BY <2>1 DEF S!StockRivens, S!Made, S!Alive, S!Unborn
  <2>3. Is(s, "rename", "stock_riven", "properties_new", "properties")
    BY <1>10
  <2> QED BY <2>2, <2>3 DEF Can, Is, Either
<1> QED BY <1>1, <1>2, <1>3, <1>4, <1>5, <1>6, <1>7, <1>8, <1>9, <1>10 DEF RivenStatement

\* What a statement on stock_riven makes of its columns.
LEMMA RivenRun ==
  ASSUME NEW a \in 0..24, NEW i \in 1..12, NEW s, RivenStatement(a, i, s), s = Up(a)[i], NEW p, p = 100 * a + i,
         NEW cs, NEW cs2, Can(cs, s), Makes(cs, s, cs2), NEW fresh \in BOOLEAN, S!StockRivens(cs, p, fresh)
  PROVE  S!StockRivens(cs2, p + 1, fresh)
<1>0. S!StockRivens(cs, p, fresh) /\ fresh \in BOOLEAN
  OBVIOUS
<1>1. CASE a = 2 /\ i = 1 /\ Creates(s, "stock_riven")
  <2>1. p = 201 /\ Creates(s, "stock_riven")
    BY <1>1
  <2>2. cs2 = IF cs = {} THEN Up(2)[1].column ELSE cs
    BY <1>1 DEF Creates, Makes
  <2> QED BY ONLY <1>0, <2>1, <2>2, CreatedIs, BaseIs DEF S!StockRivens, S!Made, S!Alive, S!Unborn
<1>2. CASE a = 5 /\ i = 1 /\ Tolerated(s, "add", "stock_riven", "uuid", "none")
  <2>1. p = 501 /\ Tolerated(s, "add", "stock_riven", "uuid", "none")
    BY <1>2
  <2>2. cs2 = cs \cup {"uuid"}
    BY <2>1 DEF Makes, Tolerated, Either
  <2>3. "uuid" \notin cs /\ cs # {}
    BY <2>1 DEF Can, Tolerated, Either
  <2> QED BY ONLY <1>0, <2>1, <2>2, <2>3, BaseIs DEF S!StockRivens, S!Made, S!Alive, S!Unborn
<1>3. CASE a = 5 /\ i = 2 /\ Tolerated(s, "drop", "stock_riven", "wfm_order_id", "none")
  <2>1. p = 502 /\ Tolerated(s, "drop", "stock_riven", "wfm_order_id", "none")
    BY <1>3
  <2>2. cs2 = cs \ {"wfm_order_id"}
    BY <2>1 DEF Makes, Tolerated, Either
  <2>3. "wfm_order_id" \in cs
    BY <2>1 DEF Can, Tolerated, Either
  <2> QED BY ONLY <1>0, <2>1, <2>2, <2>3, BaseIs DEF S!StockRivens, S!Made, S!Alive, S!Unborn
<1>4. CASE a = 12 /\ i = 2 /\ Is(s, "add", "stock_riven", "properties", "none")
  <2>1. p = 1202 /\ Is(s, "add", "stock_riven", "properties", "none")
    BY <1>4
  <2>2. cs2 = cs \cup {"properties"}
    BY <2>1 DEF Makes, Is, Either
  <2>3. "properties" \notin cs /\ cs # {}
    BY <2>1 DEF Can, Is, Either
  <2> QED BY ONLY <1>0, <2>1, <2>2, <2>3, BaseIs DEF S!StockRivens, S!Made, S!Alive, S!Unborn
<1>5. CASE a = 13 /\ i = 6 /\ Is(s, "json_set", "stock_riven", "minimum_price", "properties")
  <2>1. p = 1306 /\ Is(s, "json_set", "stock_riven", "minimum_price", "properties")
    BY <1>5
  <2>2. cs2 = cs
    BY <2>1 DEF Makes, Is, Either
  <2> QED BY ONLY <1>0, <2>1, <2>2 DEF S!StockRivens, S!Made, S!Alive, S!Unborn
<1>6. CASE a = 13 /\ i = 10 /\ Is(s, "drop", "stock_riven", "minimum_price", "none")
  <2>1. p = 1310 /\ Is(s, "drop", "stock_riven", "minimum_price", "none")
    BY <1>6
  <2>2. cs2 = cs \ {"minimum_price"}
    BY <2>1 DEF Makes, Is, Either
  <2>3. "minimum_price" \in cs
    BY <2>1 DEF Can, Is, Either
  <2> QED BY ONLY <1>0, <2>1, <2>2, <2>3, BaseIs DEF S!StockRivens, S!Made, S!Alive, S!Unborn
<1>7. CASE a = 14 /\ i = 1 /\ Is(s, "add", "stock_riven", "properties_new", "none")
  <2>1. p = 1401 /\ Is(s, "add", "stock_riven", "properties_new", "none")
    BY <1>7
  <2>2. cs2 = cs \cup {"properties_new"}
    BY <2>1 DEF Makes, Is, Either
  <2>3. "properties_new" \notin cs /\ cs # {}
    BY <2>1 DEF Can, Is, Either
  <2> QED BY ONLY <1>0, <2>1, <2>2, <2>3, BaseIs DEF S!StockRivens, S!Made, S!Alive, S!Unborn
<1>8. CASE a = 14 /\ i = 2 /\ Is(s, "copy", "stock_riven", "properties", "properties_new")
  <2>1. p = 1402 /\ Is(s, "copy", "stock_riven", "properties", "properties_new")
    BY <1>8
  <2>2. cs2 = cs
    BY <2>1 DEF Makes, Is, Either
  <2> QED BY ONLY <1>0, <2>1, <2>2 DEF S!StockRivens, S!Made, S!Alive, S!Unborn
<1>9. CASE a = 14 /\ i = 3 /\ Is(s, "drop", "stock_riven", "properties", "none")
  <2>1. p = 1403 /\ Is(s, "drop", "stock_riven", "properties", "none")
    BY <1>9
  <2>2. cs2 = cs \ {"properties"}
    BY <2>1 DEF Makes, Is, Either
  <2>3. "properties" \in cs
    BY <2>1 DEF Can, Is, Either
  <2> QED BY ONLY <1>0, <2>1, <2>2, <2>3, BaseIs DEF S!StockRivens, S!Made, S!Alive, S!Unborn
<1>10. CASE a = 14 /\ i = 4 /\ Is(s, "rename", "stock_riven", "properties_new", "properties")
  <2>1. p = 1404 /\ Is(s, "rename", "stock_riven", "properties_new", "properties")
    BY <1>10
  <2>2. cs2 = (cs \ {"properties_new"}) \cup {"properties"}
    BY <2>1 DEF Makes, Is, Either
  <2>3. "properties_new" \in cs /\ "properties" \notin cs
    BY <2>1 DEF Can, Is, Either
  <2> QED BY ONLY <1>0, <2>1, <2>2, <2>3, BaseIs DEF S!StockRivens, S!Made, S!Alive, S!Unborn
<1> QED BY <1>1, <1>2, <1>3, <1>4, <1>5, <1>6, <1>7, <1>8, <1>9, <1>10 DEF RivenStatement

\* In a fresh file the statements on wish_list succeed.
LEMMA WishCan ==
  ASSUME NEW a \in 0..24, NEW i \in 1..12, NEW s, WishStatement(a, i, s), NEW p, p = 100 * a + i,
         NEW cs, S!WishLists(cs, p, TRUE)
  PROVE  Can(cs, s) \/ s.tolerant
<1>1. CASE a = 3 /\ i = 1 /\ Creates(s, "wish_list")
  BY <1>1 DEF Creates, Can
<1>2. CASE a = 4 /\ i = 1 /\ Is(s, "add", "wish_list", "is_hidden", "none")
  <2>1. p = 401
    BY <1>2
  <2>2. "is_hidden" \notin cs /\ cs # {}
    BY <2>1, BaseIs DEF S!WishLists, S!Made, S!Alive, S!Unborn
  <2>3. Is(s, "add", "wish_list", "is_hidden", "none")
    BY <1>2
  <2> QED BY <2>2, <2>3 DEF Can, Is, Either
<1>3. CASE a = 10 /\ i = 1 /\ Is(s, "add", "wish_list", "minimum_price", "none")
  <2>1. p = 1001
    BY <1>3
  <2>2. "minimum_price" \notin cs /\ cs # {}
    BY <2>1, BaseIs DEF S!WishLists, S!Made, S!Alive, S!Unborn
  <2>3. Is(s, "add", "wish_list", "minimum_price", "none")
    BY <1>3
  <2> QED BY <2>2, <2>3 DEF Can, Is, Either
<1>4. CASE a = 12 /\ i = 3 /\ Is(s, "add", "wish_list", "properties", "none")
  <2>1. p = 1203
    BY <1>4
  <2>2. "properties" \notin cs /\ cs # {}
    BY <2>1, BaseIs DEF S!WishLists, S!Made, S!Alive, S!Unborn
  <2>3. Is(s, "add", "wish_list", "properties", "none")
    BY <1>4
  <2> QED BY <2>2, <2>3 DEF Can, Is, Either
<1>5. CASE a = 13 /\ i = 4 /\ Is(s, "json_set", "wish_list", "maximum_price", "properties")
  <2>1. p = 1304
    BY <1>5
  <2>2. "maximum_price" \in cs /\ "properties" \in cs
    BY <2>1 DEF S!WishLists, S!Made, S!Alive, S!Unborn
  <2>3. Is(s, "json_set", "wish_list", "maximum_price", "properties")
    BY <1>5
  <2> QED BY <2>2, <2>3 DEF Can, Is, Either
<1>6. CASE a = 13 /\ i = 5 /\ Is(s, "json_set", "wish_list", "minimum_price", "properties")
  <2>1. p = 1305
    BY <1>6
  <2>2. "minimum_price" \in cs /\ "properties" \in cs
    BY <2>1 DEF S!WishLists, S!Made, S!Alive, S!Unborn
  <2>3. Is(s, "json_set", "wish_list", "minimum_price", "properties")
    BY <1>6
  <2> QED BY <2>2, <2>3 DEF Can, Is, Either
<1>7. CASE a = 13 /\ i = 11 /\ Is(s, "drop", "wish_list", "minimum_price", "none")
  <2>1. p = 1311
    BY <1>7
  <2>2. "minimum_price" \in cs
    BY <2>1 DEF S!WishLists, S!Made, S!Alive, S!Unborn
  <2>3. Is(s, "drop", "wish_list", "minimum_price", "none")
    BY <1>7
  <2> QED BY <2>2, <2>3 DEF Can, Is, Either
<1>8. CASE a = 13 /\ i = 12 /\ Is(s, "drop", "wish_list", "maximum_price", "none")
  <2>1. p = 1312
    BY <1>8
  <2>2. "maximum_price" \in cs
    BY <2>1 DEF S!WishLists, S!Made, S!Alive, S!Unborn
  <2>3. Is(s, "drop", "wish_list", "maximum_price", "none")
    BY <1>8
  <2> QED BY <2>2, <2>3 DEF Can, Is, Either
<1>9. CASE a = 14 /\ i = 5 /\ Is(s, "add", "wish_list", "properties_new", "none")
  <2>1. p = 1405
    BY <1>9
  <2>2. "properties_new" \notin cs /\ cs # {}
    BY <2>1, BaseIs DEF S!WishLists, S!Made, S!Alive, S!Unborn
  <2>3. Is(s, "add", "wish_list", "properties_new", "none")
    BY <1>9
  <2> QED BY <2>2, <2>3 DEF Can, Is, Either
<1>10. CASE a = 14 /\ i = 6 /\ Is(s, "copy", "wish_list", "properties", "properties_new")
  <2>1. p = 1406
    BY <1>10
  <2>2. "properties" \in cs /\ "properties_new" \in cs
    BY <2>1 DEF S!WishLists, S!Made, S!Alive, S!Unborn
  <2>3. Is(s, "copy", "wish_list", "properties", "properties_new")
    BY <1>10
  <2> QED BY <2>2, <2>3 DEF Can, Is, Either
<1>11. CASE a = 14 /\ i = 7 /\ Is(s, "drop", "wish_list", "properties", "none")
  <2>1. p = 1407
    BY <1>11
  <2>2. "properties" \in cs
    BY <2>1 DEF S!WishLists, S!Made, S!Alive, S!Unborn
  <2>3. Is(s, "drop", "wish_list", "properties", "none")
    BY <1>11
  <2> QED BY <2>2, <2>3 DEF Can, Is, Either
<1>12. CASE a = 14 /\ i = 8 /\ Is(s, "rename", "wish_list", "properties_new", "properties")
  <2>1. p = 1408
    BY <1>12
  <2>2. "properties_new" \in cs /\ "properties" \notin cs
    BY <2>1 DEF S!WishLists, S!Made, S!Alive, S!Unborn
  <2>3. Is(s, "rename", "wish_list", "properties_new", "properties")
    BY <1>12
  <2> QED BY <2>2, <2>3 DEF Can, Is, Either
<1> QED BY <1>1, <1>2, <1>3, <1>4, <1>5, <1>6, <1>7, <1>8, <1>9, <1>10, <1>11, <1>12 DEF WishStatement

\* What a statement on wish_list makes of its columns.
LEMMA WishRun ==
  ASSUME NEW a \in 0..24, NEW i \in 1..12, NEW s, WishStatement(a, i, s), s = Up(a)[i], NEW p, p = 100 * a + i,
         NEW cs, NEW cs2, Can(cs, s), Makes(cs, s, cs2), NEW fresh \in BOOLEAN, S!WishLists(cs, p, fresh)
  PROVE  S!WishLists(cs2, p + 1, fresh)
<1>0. S!WishLists(cs, p, fresh) /\ fresh \in BOOLEAN
  OBVIOUS
<1>1. CASE a = 3 /\ i = 1 /\ Creates(s, "wish_list")
  <2>1. p = 301 /\ Creates(s, "wish_list")
    BY <1>1
  <2>2. cs2 = IF cs = {} THEN Up(3)[1].column ELSE cs
    BY <1>1 DEF Creates, Makes
  <2> QED BY ONLY <1>0, <2>1, <2>2, CreatedIs, BaseIs DEF S!WishLists, S!Made, S!Alive, S!Unborn
<1>2. CASE a = 4 /\ i = 1 /\ Is(s, "add", "wish_list", "is_hidden", "none")
  <2>1. p = 401 /\ Is(s, "add", "wish_list", "is_hidden", "none")
    BY <1>2
  <2>2. cs2 = cs \cup {"is_hidden"}
    BY <2>1 DEF Makes, Is, Either
  <2>3. "is_hidden" \notin cs /\ cs # {}
    BY <2>1 DEF Can, Is, Either
  <2> QED BY ONLY <1>0, <2>1, <2>2, <2>3, BaseIs DEF S!WishLists, S!Made, S!Alive, S!Unborn
<1>3. CASE a = 10 /\ i = 1 /\ Is(s, "add", "wish_list", "minimum_price", "none")
  <2>1. p = 1001 /\ Is(s, "add", "wish_list", "minimum_price", "none")
    BY <1>3
  <2>2. cs2 = cs \cup {"minimum_price"}
    BY <2>1 DEF Makes, Is, Either
  <2>3. "minimum_price" \notin cs /\ cs # {}
    BY <2>1 DEF Can, Is, Either
  <2> QED BY ONLY <1>0, <2>1, <2>2, <2>3, BaseIs DEF S!WishLists, S!Made, S!Alive, S!Unborn
<1>4. CASE a = 12 /\ i = 3 /\ Is(s, "add", "wish_list", "properties", "none")
  <2>1. p = 1203 /\ Is(s, "add", "wish_list", "properties", "none")
    BY <1>4
  <2>2. cs2 = cs \cup {"properties"}
    BY <2>1 DEF Makes, Is, Either
  <2>3. "properties" \notin cs /\ cs # {}
    BY <2>1 DEF Can, Is, Either
  <2> QED BY ONLY <1>0, <2>1, <2>2, <2>3, BaseIs DEF S!WishLists, S!Made, S!Alive, S!Unborn
<1>5. CASE a = 13 /\ i = 4 /\ Is(s, "json_set", "wish_list", "maximum_price", "properties")
  <2>1. p = 1304 /\ Is(s, "json_set", "wish_list", "maximum_price", "properties")
    BY <1>5
  <2>2. cs2 = cs
    BY <2>1 DEF Makes, Is, Either
  <2> QED BY ONLY <1>0, <2>1, <2>2 DEF S!WishLists, S!Made, S!Alive, S!Unborn
<1>6. CASE a = 13 /\ i = 5 /\ Is(s, "json_set", "wish_list", "minimum_price", "properties")
  <2>1. p = 1305 /\ Is(s, "json_set", "wish_list", "minimum_price", "properties")
    BY <1>6
  <2>2. cs2 = cs
    BY <2>1 DEF Makes, Is, Either
  <2> QED BY ONLY <1>0, <2>1, <2>2 DEF S!WishLists, S!Made, S!Alive, S!Unborn
<1>7. CASE a = 13 /\ i = 11 /\ Is(s, "drop", "wish_list", "minimum_price", "none")
  <2>1. p = 1311 /\ Is(s, "drop", "wish_list", "minimum_price", "none")
    BY <1>7
  <2>2. cs2 = cs \ {"minimum_price"}
    BY <2>1 DEF Makes, Is, Either
  <2>3. "minimum_price" \in cs
    BY <2>1 DEF Can, Is, Either
  <2> QED BY ONLY <1>0, <2>1, <2>2, <2>3, BaseIs DEF S!WishLists, S!Made, S!Alive, S!Unborn
<1>8. CASE a = 13 /\ i = 12 /\ Is(s, "drop", "wish_list", "maximum_price", "none")
  <2>1. p = 1312 /\ Is(s, "drop", "wish_list", "maximum_price", "none")
    BY <1>8
  <2>2. cs2 = cs \ {"maximum_price"}
    BY <2>1 DEF Makes, Is, Either
  <2>3. "maximum_price" \in cs
    BY <2>1 DEF Can, Is, Either
  <2> QED BY ONLY <1>0, <2>1, <2>2, <2>3, BaseIs DEF S!WishLists, S!Made, S!Alive, S!Unborn
<1>9. CASE a = 14 /\ i = 5 /\ Is(s, "add", "wish_list", "properties_new", "none")
  <2>1. p = 1405 /\ Is(s, "add", "wish_list", "properties_new", "none")
    BY <1>9
  <2>2. cs2 = cs \cup {"properties_new"}
    BY <2>1 DEF Makes, Is, Either
  <2>3. "properties_new" \notin cs /\ cs # {}
    BY <2>1 DEF Can, Is, Either
  <2> QED BY ONLY <1>0, <2>1, <2>2, <2>3, BaseIs DEF S!WishLists, S!Made, S!Alive, S!Unborn
<1>10. CASE a = 14 /\ i = 6 /\ Is(s, "copy", "wish_list", "properties", "properties_new")
  <2>1. p = 1406 /\ Is(s, "copy", "wish_list", "properties", "properties_new")
    BY <1>10
  <2>2. cs2 = cs
    BY <2>1 DEF Makes, Is, Either
  <2> QED BY ONLY <1>0, <2>1, <2>2 DEF S!WishLists, S!Made, S!Alive, S!Unborn
<1>11. CASE a = 14 /\ i = 7 /\ Is(s, "drop", "wish_list", "properties", "none")
  <2>1. p = 1407 /\ Is(s, "drop", "wish_list", "properties", "none")
    BY <1>11
  <2>2. cs2 = cs \ {"properties"}
    BY <2>1 DEF Makes, Is, Either
  <2>3. "properties" \in cs
    BY <2>1 DEF Can, Is, Either
  <2> QED BY ONLY <1>0, <2>1, <2>2, <2>3, BaseIs DEF S!WishLists, S!Made, S!Alive, S!Unborn
<1>12. CASE a = 14 /\ i = 8 /\ Is(s, "rename", "wish_list", "properties_new", "properties")
  <2>1. p = 1408 /\ Is(s, "rename", "wish_list", "properties_new", "properties")
    BY <1>12
  <2>2. cs2 = (cs \ {"properties_new"}) \cup {"properties"}
    BY <2>1 DEF Makes, Is, Either
  <2>3. "properties_new" \in cs /\ "properties" \notin cs
    BY <2>1 DEF Can, Is, Either
  <2> QED BY ONLY <1>0, <2>1, <2>2, <2>3, BaseIs DEF S!WishLists, S!Made, S!Alive, S!Unborn
<1> QED BY <1>1, <1>2, <1>3, <1>4, <1>5, <1>6, <1>7, <1>8, <1>9, <1>10, <1>11, <1>12 DEF WishStatement

\* In a fresh file the statements on transaction succeed.
LEMMA TransactionCan ==
  ASSUME NEW a \in 0..24, NEW i \in 1..12, NEW s, TransactionStatement(a, i, s), NEW p, p = 100 * a + i,
         NEW cs, S!Transactions(cs, p, TRUE)
  PROVE  Can(cs, s) \/ s.tolerant
<1>1. CASE a = 0 /\ i = 1 /\ Creates(s, "transaction")
  BY <1>1 DEF Creates, Can
<1>2. CASE a = 7 /\ i = 1 /\ Is(s, "add", "transaction", "profit", "none")
  <2>1. p = 701
    BY <1>2
  <2>2. "profit" \notin cs /\ cs # {}
    BY <2>1, BaseIs DEF S!Transactions, S!Made, S!Unborn
  <2>3. Is(s, "add", "transaction", "profit", "none")
    BY <1>2
  <2> QED BY <2>2, <2>3 DEF Can, Is, Either
<1>3. CASE a = 11 /\ i = 1 /\ Is(s, "add", "transaction", "credits", "none")
  <2>1. p = 1101
    BY <1>3
  <2>2. "credits" \notin cs /\ cs # {}
    BY <2>1, BaseIs DEF S!Transactions, S!Made, S!Unborn
  <2>3. Is(s, "add", "transaction", "credits", "none")
    BY <1>3
  <2> QED BY <2>2, <2>3 DEF Can, Is, Either
<1> QED BY <1>1, <1>2, <1>3 DEF TransactionStatement

\* What a statement on transaction makes of its columns.
LEMMA TransactionRun ==
  ASSUME NEW a \in 0..24, NEW i \in 1..12, NEW s, TransactionStatement(a, i, s), s = Up(a)[i], NEW p, p = 100 * a + i,
         NEW cs, NEW cs2, Can(cs, s), Makes(cs, s, cs2), NEW fresh \in BOOLEAN, S!Transactions(cs, p, fresh)
  PROVE  S!Transactions(cs2, p + 1, fresh)
<1>0. S!Transactions(cs, p, fresh) /\ fresh \in BOOLEAN
  OBVIOUS
<1>1. CASE a = 0 /\ i = 1 /\ Creates(s, "transaction")
  <2>1. p = 1 /\ Creates(s, "transaction")
    BY <1>1
  <2>2. cs2 = IF cs = {} THEN Up(0)[1].column ELSE cs
    BY <1>1 DEF Creates, Makes
  <2> QED BY ONLY <1>0, <2>1, <2>2, CreatedIs, BaseIs DEF S!Transactions, S!Made, S!Unborn
<1>2. CASE a = 7 /\ i = 1 /\ Is(s, "add", "transaction", "profit", "none")
  <2>1. p = 701 /\ Is(s, "add", "transaction", "profit", "none")
    BY <1>2
  <2>2. cs2 = cs \cup {"profit"}
    BY <2>1 DEF Makes, Is, Either
  <2>3. "profit" \notin cs /\ cs # {}
    BY <2>1 DEF Can, Is, Either
  <2> QED BY ONLY <1>0, <2>1, <2>2, <2>3, BaseIs DEF S!Transactions, S!Made, S!Unborn
<1>3. CASE a = 11 /\ i = 1 /\ Is(s, "add", "transaction", "credits", "none")
  <2>1. p = 1101 /\ Is(s, "add", "transaction", "credits", "none")
    BY <1>3
  <2>2. cs2 = cs \cup {"credits"}
    BY <2>1 DEF Makes, Is, Either
  <2>3. "credits" \notin cs /\ cs # {}
    BY <2>1 DEF Can, Is, Either
  <2> QED BY ONLY <1>0, <2>1, <2>2, <2>3, BaseIs DEF S!Transactions, S!Made, S!Unborn
<1> QED BY <1>1, <1>2, <1>3 DEF TransactionStatement

\* In a fresh file the statements on trader_state succeed.
LEMMA StateCan ==
  ASSUME NEW a \in 0..24, NEW i \in 1..12, NEW s, StateStatement(a, i, s), NEW p, p = 100 * a + i,
         NEW cs, S!TraderStates(cs, p, TRUE)
  PROVE  Can(cs, s) \/ s.tolerant
<1>1. CASE a = 18 /\ i = 1 /\ Creates(s, "trader_state")
  BY <1>1 DEF Creates, Can
<1>2. CASE a = 20 /\ i = 1 /\ Is(s, "drop", "trader_state", "helper_override", "none")
  <2>1. p = 2001
    BY <1>2
  <2>2. "helper_override" \in cs
    BY <2>1 DEF S!TraderStates
  <2>3. Is(s, "drop", "trader_state", "helper_override", "none")
    BY <1>2
  <2> QED BY <2>2, <2>3 DEF Can, Is, Either
<1> QED BY <1>1, <1>2 DEF StateStatement

\* What a statement on trader_state makes of its columns.
LEMMA StateRun ==
  ASSUME NEW a \in 0..24, NEW i \in 1..12, NEW s, StateStatement(a, i, s), s = Up(a)[i], NEW p, p = 100 * a + i,
         NEW cs, NEW cs2, Can(cs, s), Makes(cs, s, cs2), NEW fresh \in BOOLEAN, S!TraderStates(cs, p, fresh)
  PROVE  S!TraderStates(cs2, p + 1, fresh)
<1>0. S!TraderStates(cs, p, fresh) /\ fresh \in BOOLEAN
  OBVIOUS
<1>1. CASE a = 18 /\ i = 1 /\ Creates(s, "trader_state")
  <2>1. p = 1801 /\ Creates(s, "trader_state")
    BY <1>1
  <2>2. cs2 = IF cs = {} THEN Up(18)[1].column ELSE cs
    BY <1>1 DEF Creates, Makes
  <2> QED BY ONLY <1>0, <2>1, <2>2, CreatedIs DEF S!TraderStates
<1>2. CASE a = 20 /\ i = 1 /\ Is(s, "drop", "trader_state", "helper_override", "none")
  <2>1. p = 2001 /\ Is(s, "drop", "trader_state", "helper_override", "none")
    BY <1>2
  <2>2. cs2 = cs \ {"helper_override"}
    BY <2>1 DEF Makes, Is, Either
  <2>3. "helper_override" \in cs
    BY <2>1 DEF Can, Is, Either
  <2> QED BY ONLY <1>0, <2>1, <2>2, <2>3 DEF S!TraderStates
<1> QED BY <1>1, <1>2 DEF StateStatement

\* In a fresh file the statements on helper_events succeed.
LEMMA EventCan ==
  ASSUME NEW a \in 0..24, NEW i \in 1..12, NEW s, EventStatement(a, i, s), NEW p, p = 100 * a + i,
         NEW cs, S!HelperEvents(cs, p, TRUE)
  PROVE  Can(cs, s) \/ s.tolerant
<1>1. CASE a = 21 /\ i = 1 /\ Creates(s, "helper_events")
  BY <1>1 DEF Creates, Can
<1>2. CASE a = 22 /\ i = 1 /\ Is(s, "add", "helper_events", "alerted_at", "none")
  <2>1. p = 2201
    BY <1>2
  <2>2. "alerted_at" \notin cs /\ cs # {}
    BY <2>1 DEF S!HelperEvents, S!Unborn
  <2>3. Is(s, "add", "helper_events", "alerted_at", "none")
    BY <1>2
  <2> QED BY <2>2, <2>3 DEF Can, Is, Either
<1> QED BY <1>1, <1>2 DEF EventStatement

\* What a statement on helper_events makes of its columns.
LEMMA EventRun ==
  ASSUME NEW a \in 0..24, NEW i \in 1..12, NEW s, EventStatement(a, i, s), s = Up(a)[i], NEW p, p = 100 * a + i,
         NEW cs, NEW cs2, Can(cs, s), Makes(cs, s, cs2), NEW fresh \in BOOLEAN, S!HelperEvents(cs, p, fresh)
  PROVE  S!HelperEvents(cs2, p + 1, fresh)
<1>0. S!HelperEvents(cs, p, fresh) /\ fresh \in BOOLEAN
  OBVIOUS
<1>1. CASE a = 21 /\ i = 1 /\ Creates(s, "helper_events")
  <2>1. p = 2101 /\ Creates(s, "helper_events")
    BY <1>1
  <2>2. cs2 = IF cs = {} THEN Up(21)[1].column ELSE cs
    BY <1>1 DEF Creates, Makes
  <2> QED BY ONLY <1>0, <2>1, <2>2, CreatedIs DEF S!HelperEvents, S!Unborn
<1>2. CASE a = 22 /\ i = 1 /\ Is(s, "add", "helper_events", "alerted_at", "none")
  <2>1. p = 2201 /\ Is(s, "add", "helper_events", "alerted_at", "none")
    BY <1>2
  <2>2. cs2 = cs \cup {"alerted_at"}
    BY <2>1 DEF Makes, Is, Either
  <2>3. "alerted_at" \notin cs /\ cs # {}
    BY <2>1 DEF Can, Is, Either
  <2> QED BY ONLY <1>0, <2>1, <2>2, <2>3 DEF S!HelperEvents, S!Unborn
<1> QED BY <1>1, <1>2 DEF EventStatement

\* What a statement on trade_entry makes of its columns.
LEMMA EntryRun ==
  ASSUME NEW a \in 0..24, NEW i \in 1..12, NEW s, EntryStatement(a, i, s), s = Up(a)[i], NEW p, p = 100 * a + i,
         NEW cs, NEW cs2, Can(cs, s), Makes(cs, s, cs2), S!TradeEntries(cs, p)
  PROVE  S!TradeEntries(cs2, p + 1)
<1>0. S!TradeEntries(cs, p)
  OBVIOUS
<1>1. CASE a = 8 /\ i = 1 /\ Creates(s, "trade_entry")
  <2>1. p = 801 /\ Creates(s, "trade_entry")
    BY <1>1
  <2>2. cs2 = IF cs = {} THEN Up(8)[1].column ELSE cs
    BY <1>1 DEF Creates, Makes
  <2> QED BY ONLY <1>0, <2>1, <2>2, CreatedIs, BaseIs DEF S!TradeEntries, S!Made
<1> QED BY <1>1 DEF EntryStatement

\* What a statement on setting makes of its columns.
LEMMA SettingRun ==
  ASSUME NEW a \in 0..24, NEW i \in 1..12, NEW s, SettingStatement(a, i, s), s = Up(a)[i], NEW p, p = 100 * a + i,
         NEW cs, NEW cs2, Can(cs, s), Makes(cs, s, cs2), S!Settings(cs, p)
  PROVE  S!Settings(cs2, p + 1)
<1>0. S!Settings(cs, p)
  OBVIOUS
<1>1. CASE a = 9 /\ i = 1 /\ Creates(s, "setting")
  <2>1. p = 901 /\ Creates(s, "setting")
    BY <1>1
  <2>2. cs2 = IF cs = {} THEN Up(9)[1].column ELSE cs
    BY <1>1 DEF Creates, Makes
  <2> QED BY ONLY <1>0, <2>1, <2>2, CreatedIs, BaseIs DEF S!Settings, S!Made
<1> QED BY <1>1 DEF SettingStatement

\* Where one of the tolerated statements fails, nothing has to change.
LEMMA RivenTolerates ==
  ASSUME NEW i \in 1..2, NEW s, RivenStatement(5, i, s),
         NEW cs, ~Can(cs, s), NEW fresh \in BOOLEAN, S!StockRivens(cs, 500 + i, fresh)
  PROVE  S!StockRivens(cs, 500 + i + 1, fresh)
<1>1. CASE i = 1
  <2>1. Tolerated(s, "add", "stock_riven", "uuid", "none")
    BY <1>1 DEF RivenStatement
  <2>2. "uuid" \in cs \/ cs = {}
    BY <2>1 DEF Can, Tolerated, Either
  <2> QED BY <1>1, <2>2, BaseIs DEF S!StockRivens, S!Made, S!Alive, S!Unborn
<1>2. CASE i = 2
  BY <1>2 DEF S!StockRivens, S!Made, S!Alive, S!Unborn
<1> QED BY <1>1, <1>2

\* Positions are numbers.
LEMMA PositionIs ==
  ASSUME NEW a \in 0..24, NEW i \in 1..Len(Up(a)), NEW p, p = 100 * a + i
  PROVE  i \in 1..12 /\ p \in Nat /\ p + 1 \in Nat
<1>1. PICK l : l = Len(Up(a))
  OBVIOUS
<1>2. l \in 1..12
  BY <1>1, UpsAreShort, Zenon
<1>3. i \in 1..l
  BY <1>1
<1>4. i \in 1..12
  BY ONLY <1>2, <1>3
<1> QED BY <1>4

\* Every statement is one a table's columns are tested for; two may fail.
LEMMA StatementKinds ==
  ASSUME NEW a \in 0..24, NEW i \in 1..Len(Up(a)), NEW s, s = Up(a)[i]
  PROVE  /\ s.op \in Ops
         /\ s.tolerant => RivenStatement(a, i, s) /\ a = 5 /\ i \in 1..2
         /\ s.table \notin Tables8 \/ s.table \in {"trade_entry", "setting"} => s.op = "create"
<1>1. ItemStatement(a, i, s) => /\ s.op \in Ops /\ s.table = "stock_item"
                                 /\ ~s.tolerant
  BY DEF ItemStatement, Ops, Creates, Is, Either
<1>2. RivenStatement(a, i, s) => /\ s.op \in Ops /\ s.table = "stock_riven"
                                 /\ s.tolerant => a = 5 /\ i \in 1..2
  BY DEF RivenStatement, Ops, Creates, Tolerated, Either, Is
<1>3. WishStatement(a, i, s) => /\ s.op \in Ops /\ s.table = "wish_list"
                                 /\ ~s.tolerant
  BY DEF WishStatement, Ops, Creates, Is, Either
<1>4. TransactionStatement(a, i, s) => /\ s.op \in Ops /\ s.table = "transaction"
                                 /\ ~s.tolerant
  BY DEF TransactionStatement, Ops, Creates, Is, Either
<1>5. StateStatement(a, i, s) => /\ s.op \in Ops /\ s.table = "trader_state"
                                 /\ ~s.tolerant
  BY DEF StateStatement, Ops, Creates, Is, Either
<1>6. EventStatement(a, i, s) => /\ s.op \in Ops /\ s.table = "helper_events"
                                 /\ ~s.tolerant
  BY DEF EventStatement, Ops, Creates, Is, Either
<1>7. EntryStatement(a, i, s) => /\ s.op \in Ops /\ s.table = "trade_entry"
                                 /\ ~s.tolerant
                                 /\ s.op = "create"
  BY DEF EntryStatement, Ops, Creates
<1>8. SettingStatement(a, i, s) => /\ s.op \in Ops /\ s.table = "setting"
                                 /\ ~s.tolerant
                                 /\ s.op = "create"
  BY DEF SettingStatement, Ops, Creates
<1>9. OtherStatement(s) => s.op = "create" /\ s.op \in Ops /\ s.table \notin Tables8 /\ ~s.tolerant
  BY DEF OtherStatement, Ops
<1>10. Tables8 = {"stock_item", "stock_riven", "wish_list", "transaction", "trader_state",
                  "helper_events", "trade_entry", "setting"}
  BY DEF Tables8
<1>11. \/ OtherStatement(s) \/ ItemStatement(a, i, s) \/ RivenStatement(a, i, s)
       \/ WishStatement(a, i, s) \/ TransactionStatement(a, i, s) \/ StateStatement(a, i, s)
       \/ EventStatement(a, i, s) \/ EntryStatement(a, i, s) \/ SettingStatement(a, i, s)
  BY EachStatement
<1> QED BY ONLY <1>1, <1>2, <1>3, <1>4, <1>5, <1>6, <1>7, <1>8, <1>9, <1>10, <1>11

\* A mark of stock_item is passed only by its statements.
LEMMA ItemPasses ==
  ASSUME NEW a \in 0..24, NEW i \in 1..Len(Up(a)), Up(a)[i].table # "stock_item", NEW p, p = 100 * a + i
  PROVE  SameSide(p, p + 1, ItemMarks)
<1>1. i \in 1..12 /\ p \in Nat
  BY PositionIs
<1>2. p # 101
  <2>1. p = 101 => a = 1 /\ i = 1
    BY <1>1
  <2>2. Up(1)[1].table = "stock_item"
    BY UpCreations DEF Creates
  <2> QED BY <2>1, <2>2
<1>3. p # 601
  <2>1. p = 601 => a = 6 /\ i = 1
    BY <1>1
  <2>2. Up(6)[1].table = "stock_item"
    BY UpStatements DEF Is, Either
  <2> QED BY <2>1, <2>2
<1>4. p # 602
  <2>1. p = 602 => a = 6 /\ i = 2
    BY <1>1
  <2>2. Up(6)[2].table = "stock_item"
    BY UpStatements DEF Is, Either
  <2> QED BY <2>1, <2>2
<1>5. p # 1201
  <2>1. p = 1201 => a = 12 /\ i = 1
    BY <1>1
  <2>2. Up(12)[1].table = "stock_item"
    BY UpStatements DEF Is, Either
  <2> QED BY <2>1, <2>2
<1>6. p # 1307
  <2>1. p = 1307 => a = 13 /\ i = 7
    BY <1>1
  <2>2. Up(13)[7].table = "stock_item"
    BY UpStatements DEF Is, Either
  <2> QED BY <2>1, <2>2
<1>7. p # 1308
  <2>1. p = 1308 => a = 13 /\ i = 8
    BY <1>1
  <2>2. Up(13)[8].table = "stock_item"
    BY UpStatements DEF Is, Either
  <2> QED BY <2>1, <2>2
<1>8. p # 1309
  <2>1. p = 1309 => a = 13 /\ i = 9
    BY <1>1
  <2>2. Up(13)[9].table = "stock_item"
    BY UpStatements DEF Is, Either
  <2> QED BY <2>1, <2>2
<1> QED BY <1>1, <1>2, <1>3, <1>4, <1>5, <1>6, <1>7, <1>8 DEF SameSide, ItemMarks

\* A mark of stock_riven is passed only by its statements.
LEMMA RivenPasses ==
  ASSUME NEW a \in 0..24, NEW i \in 1..Len(Up(a)), Up(a)[i].table # "stock_riven", NEW p, p = 100 * a + i
  PROVE  SameSide(p, p + 1, RivenMarks)
<1>1. i \in 1..12 /\ p \in Nat
  BY PositionIs
<1>2. p # 201
  <2>1. p = 201 => a = 2 /\ i = 1
    BY <1>1
  <2>2. Up(2)[1].table = "stock_riven"
    BY UpCreations DEF Creates
  <2> QED BY <2>1, <2>2
<1>3. p # 501
  <2>1. p = 501 => a = 5 /\ i = 1
    BY <1>1
  <2>2. Up(5)[1].table = "stock_riven"
    BY UpStatements DEF Tolerated, Either
  <2> QED BY <2>1, <2>2
<1>4. p # 1202
  <2>1. p = 1202 => a = 12 /\ i = 2
    BY <1>1
  <2>2. Up(12)[2].table = "stock_riven"
    BY UpStatements DEF Is, Either
  <2> QED BY <2>1, <2>2
<1>5. p # 1310
  <2>1. p = 1310 => a = 13 /\ i = 10
    BY <1>1
  <2>2. Up(13)[10].table = "stock_riven"
    BY UpStatements DEF Is, Either
  <2> QED BY <2>1, <2>2
<1>6. p # 1401
  <2>1. p = 1401 => a = 14 /\ i = 1
    BY <1>1
  <2>2. Up(14)[1].table = "stock_riven"
    BY UpStatements DEF Is, Either
  <2> QED BY <2>1, <2>2
<1>7. p # 1403
  <2>1. p = 1403 => a = 14 /\ i = 3
    BY <1>1
  <2>2. Up(14)[3].table = "stock_riven"
    BY UpStatements DEF Is, Either
  <2> QED BY <2>1, <2>2
<1>8. p # 1404
  <2>1. p = 1404 => a = 14 /\ i = 4
    BY <1>1
  <2>2. Up(14)[4].table = "stock_riven"
    BY UpStatements DEF Is, Either
  <2> QED BY <2>1, <2>2
<1> QED BY <1>1, <1>2, <1>3, <1>4, <1>5, <1>6, <1>7, <1>8 DEF SameSide, RivenMarks

\* A mark of wish_list is passed only by its statements.
LEMMA WishPasses ==
  ASSUME NEW a \in 0..24, NEW i \in 1..Len(Up(a)), Up(a)[i].table # "wish_list", NEW p, p = 100 * a + i
  PROVE  SameSide(p, p + 1, WishMarks)
<1>1. i \in 1..12 /\ p \in Nat
  BY PositionIs
<1>2. p # 301
  <2>1. p = 301 => a = 3 /\ i = 1
    BY <1>1
  <2>2. Up(3)[1].table = "wish_list"
    BY UpCreations DEF Creates
  <2> QED BY <2>1, <2>2
<1>3. p # 401
  <2>1. p = 401 => a = 4 /\ i = 1
    BY <1>1
  <2>2. Up(4)[1].table = "wish_list"
    BY UpStatements DEF Is, Either
  <2> QED BY <2>1, <2>2
<1>4. p # 1001
  <2>1. p = 1001 => a = 10 /\ i = 1
    BY <1>1
  <2>2. Up(10)[1].table = "wish_list"
    BY UpStatements DEF Is, Either
  <2> QED BY <2>1, <2>2
<1>5. p # 1203
  <2>1. p = 1203 => a = 12 /\ i = 3
    BY <1>1
  <2>2. Up(12)[3].table = "wish_list"
    BY UpStatements DEF Is, Either
  <2> QED BY <2>1, <2>2
<1>6. p # 1311
  <2>1. p = 1311 => a = 13 /\ i = 11
    BY <1>1
  <2>2. Up(13)[11].table = "wish_list"
    BY UpStatements DEF Is, Either
  <2> QED BY <2>1, <2>2
<1>7. p # 1312
  <2>1. p = 1312 => a = 13 /\ i = 12
    BY <1>1
  <2>2. Up(13)[12].table = "wish_list"
    BY UpStatements DEF Is, Either
  <2> QED BY <2>1, <2>2
<1>8. p # 1405
  <2>1. p = 1405 => a = 14 /\ i = 5
    BY <1>1
  <2>2. Up(14)[5].table = "wish_list"
    BY UpStatements DEF Is, Either
  <2> QED BY <2>1, <2>2
<1>9. p # 1407
  <2>1. p = 1407 => a = 14 /\ i = 7
    BY <1>1
  <2>2. Up(14)[7].table = "wish_list"
    BY UpStatements DEF Is, Either
  <2> QED BY <2>1, <2>2
<1>10. p # 1408
  <2>1. p = 1408 => a = 14 /\ i = 8
    BY <1>1
  <2>2. Up(14)[8].table = "wish_list"
    BY UpStatements DEF Is, Either
  <2> QED BY <2>1, <2>2
<1> QED BY <1>1, <1>2, <1>3, <1>4, <1>5, <1>6, <1>7, <1>8, <1>9, <1>10 DEF SameSide, WishMarks

\* A mark of transaction is passed only by its statements.
LEMMA TransactionPasses ==
  ASSUME NEW a \in 0..24, NEW i \in 1..Len(Up(a)), Up(a)[i].table # "transaction", NEW p, p = 100 * a + i
  PROVE  SameSide(p, p + 1, TransactionMarks)
<1>1. i \in 1..12 /\ p \in Nat
  BY PositionIs
<1>2. p # 1
  <2>1. p = 1 => a = 0 /\ i = 1
    BY <1>1
  <2>2. Up(0)[1].table = "transaction"
    BY UpCreations DEF Creates
  <2> QED BY <2>1, <2>2
<1>3. p # 701
  <2>1. p = 701 => a = 7 /\ i = 1
    BY <1>1
  <2>2. Up(7)[1].table = "transaction"
    BY UpStatements DEF Is, Either
  <2> QED BY <2>1, <2>2
<1>4. p # 1101
  <2>1. p = 1101 => a = 11 /\ i = 1
    BY <1>1
  <2>2. Up(11)[1].table = "transaction"
    BY UpStatements DEF Is, Either
  <2> QED BY <2>1, <2>2
<1> QED BY <1>1, <1>2, <1>3, <1>4 DEF SameSide, TransactionMarks

\* A mark of trader_state is passed only by its statements.
LEMMA StatePasses ==
  ASSUME NEW a \in 0..24, NEW i \in 1..Len(Up(a)), Up(a)[i].table # "trader_state", NEW p, p = 100 * a + i
  PROVE  SameSide(p, p + 1, StateMarks)
<1>1. i \in 1..12 /\ p \in Nat
  BY PositionIs
<1>2. p # 1801
  <2>1. p = 1801 => a = 18 /\ i = 1
    BY <1>1
  <2>2. Up(18)[1].table = "trader_state"
    BY UpCreations DEF Creates
  <2> QED BY <2>1, <2>2
<1>3. p # 2001
  <2>1. p = 2001 => a = 20 /\ i = 1
    BY <1>1
  <2>2. Up(20)[1].table = "trader_state"
    BY UpStatements DEF Is, Either
  <2> QED BY <2>1, <2>2
<1> QED BY <1>1, <1>2, <1>3 DEF SameSide, StateMarks

\* A mark of helper_events is passed only by its statements.
LEMMA EventPasses ==
  ASSUME NEW a \in 0..24, NEW i \in 1..Len(Up(a)), Up(a)[i].table # "helper_events", NEW p, p = 100 * a + i
  PROVE  SameSide(p, p + 1, EventMarks)
<1>1. i \in 1..12 /\ p \in Nat
  BY PositionIs
<1>2. p # 2101
  <2>1. p = 2101 => a = 21 /\ i = 1
    BY <1>1
  <2>2. Up(21)[1].table = "helper_events"
    BY UpCreations DEF Creates
  <2> QED BY <2>1, <2>2
<1>3. p # 2201
  <2>1. p = 2201 => a = 22 /\ i = 1
    BY <1>1
  <2>2. Up(22)[1].table = "helper_events"
    BY UpStatements DEF Is, Either
  <2> QED BY <2>1, <2>2
<1> QED BY <1>1, <1>2, <1>3 DEF SameSide, EventMarks

\* A mark of trade_entry is passed only by its statements.
LEMMA EntryPasses ==
  ASSUME NEW a \in 0..24, NEW i \in 1..Len(Up(a)), Up(a)[i].table # "trade_entry", NEW p, p = 100 * a + i
  PROVE  SameSide(p, p + 1, EntryMarks)
<1>1. i \in 1..12 /\ p \in Nat
  BY PositionIs
<1>2. p # 801
  <2>1. p = 801 => a = 8 /\ i = 1
    BY <1>1
  <2>2. Up(8)[1].table = "trade_entry"
    BY UpCreations DEF Creates
  <2> QED BY <2>1, <2>2
<1> QED BY <1>1, <1>2 DEF SameSide, EntryMarks

\* A mark of setting is passed only by its statements.
LEMMA SettingPasses ==
  ASSUME NEW a \in 0..24, NEW i \in 1..Len(Up(a)), Up(a)[i].table # "setting", NEW p, p = 100 * a + i
  PROVE  SameSide(p, p + 1, SettingMarks)
<1>1. i \in 1..12 /\ p \in Nat
  BY PositionIs
<1>2. p # 901
  <2>1. p = 901 => a = 9 /\ i = 1
    BY <1>1
  <2>2. Up(9)[1].table = "setting"
    BY UpCreations DEF Creates
  <2> QED BY <2>1, <2>2
<1> QED BY <1>1, <1>2 DEF SameSide, SettingMarks

\* What is said of a file, table by table.
LEMMA TablesAre ==
  ASSUME NEW f, NEW p, NEW fresh
  PROVE  S!ColumnsAreThere(f, p, fresh) <=>
           /\ S!StockItems(S!ColumnsOf(f, "stock_item"), p, fresh)
           /\ S!StockRivens(S!ColumnsOf(f, "stock_riven"), p, fresh)
           /\ S!WishLists(S!ColumnsOf(f, "wish_list"), p, fresh)
           /\ S!Transactions(S!ColumnsOf(f, "transaction"), p, fresh)
           /\ S!TraderStates(S!ColumnsOf(f, "trader_state"), p, fresh)
           /\ S!HelperEvents(S!ColumnsOf(f, "helper_events"), p, fresh)
           /\ S!TradeEntries(S!ColumnsOf(f, "trade_entry"), p)
           /\ S!Settings(S!ColumnsOf(f, "setting"), p)
BY DEF S!ColumnsAreThere

\* Noting a migration passes from position p to q.
NotedAt(a, p, q) == p = 100 * a + Len(Up(a)) + 1 /\ q = 100 * (a + 1) + 1

\* No mark of any table lies between p and q.
Passes(p, q) ==
  /\ p \in Nat /\ q \in Nat
  /\ SameSide(p, q, ItemMarks)
  /\ SameSide(p, q, RivenMarks)
  /\ SameSide(p, q, WishMarks)
  /\ SameSide(p, q, TransactionMarks)
  /\ SameSide(p, q, StateMarks)
  /\ SameSide(p, q, EventMarks)
  /\ SameSide(p, q, EntryMarks)
  /\ SameSide(p, q, SettingMarks)

\* The position of the next migration's first statement is past no more marks.
LEMMA NotedIsQuiet ==
  ASSUME NEW a \in 0..24, NEW p, NEW q, NotedAt(a, p, q)
  PROVE  Passes(p, q)
<1>0. p = 100 * a + Len(Up(a)) + 1 /\ q = 100 * (a + 1) + 1
  BY DEF NotedAt
<1> USE <1>0
<1>1. PICK l : l = Len(Up(a))
  OBVIOUS
<1>2. l \in 1..12 /\ p = 100 * a + l + 1 /\ q = 100 * a + 101
  <2>1. l \in 1..12
    BY <1>1, UpsAreShort, Zenon
  <2>2. p = 100 * a + l + 1
    BY <1>1
  <2>3. q = 100 * a + 101
    OBVIOUS
  <2> QED BY <2>1, <2>2, <2>3
<1>3. \A m \in ItemMarks : m < p <=> m < q
  <2>1. 101 < p <=> 101 < q
    <3>1. a = 1 => l = 1
      BY <1>1, UpLengths, Zenon
    <3>2. a \in 0..24
      OBVIOUS
    <3> QED BY ONLY <3>1, <3>2, <1>2
  <2>2. 601 < p <=> 601 < q
    <3>1. a = 6 => l = 2
      BY <1>1, UpLengths, Zenon
    <3>2. a \in 0..24
      OBVIOUS
    <3> QED BY ONLY <3>1, <3>2, <1>2
  <2>3. 602 < p <=> 602 < q
    <3>1. a = 6 => l = 2
      BY <1>1, UpLengths, Zenon
    <3>2. a \in 0..24
      OBVIOUS
    <3> QED BY ONLY <3>1, <3>2, <1>2
  <2>4. 1201 < p <=> 1201 < q
    <3>1. a = 12 => l = 3
      BY <1>1, UpLengths, Zenon
    <3>2. a \in 0..24
      OBVIOUS
    <3> QED BY ONLY <3>1, <3>2, <1>2
  <2>5. 1307 < p <=> 1307 < q
    <3>1. a = 13 => l = 12
      BY <1>1, UpLengths, Zenon
    <3>2. a \in 0..24
      OBVIOUS
    <3> QED BY ONLY <3>1, <3>2, <1>2
  <2>6. 1308 < p <=> 1308 < q
    <3>1. a = 13 => l = 12
      BY <1>1, UpLengths, Zenon
    <3>2. a \in 0..24
      OBVIOUS
    <3> QED BY ONLY <3>1, <3>2, <1>2
  <2>7. 1309 < p <=> 1309 < q
    <3>1. a = 13 => l = 12
      BY <1>1, UpLengths, Zenon
    <3>2. a \in 0..24
      OBVIOUS
    <3> QED BY ONLY <3>1, <3>2, <1>2
  <2> QED BY ONLY <2>1, <2>2, <2>3, <2>4, <2>5, <2>6, <2>7 DEF ItemMarks
<1>4. \A m \in RivenMarks : m < p <=> m < q
  <2>1. 201 < p <=> 201 < q
    <3>1. a = 2 => l = 1
      BY <1>1, UpLengths, Zenon
    <3>2. a \in 0..24
      OBVIOUS
    <3> QED BY ONLY <3>1, <3>2, <1>2
  <2>2. 501 < p <=> 501 < q
    <3>1. a = 5 => l = 2
      BY <1>1, UpLengths, Zenon
    <3>2. a \in 0..24
      OBVIOUS
    <3> QED BY ONLY <3>1, <3>2, <1>2
  <2>3. 1202 < p <=> 1202 < q
    <3>1. a = 12 => l = 3
      BY <1>1, UpLengths, Zenon
    <3>2. a \in 0..24
      OBVIOUS
    <3> QED BY ONLY <3>1, <3>2, <1>2
  <2>4. 1310 < p <=> 1310 < q
    <3>1. a = 13 => l = 12
      BY <1>1, UpLengths, Zenon
    <3>2. a \in 0..24
      OBVIOUS
    <3> QED BY ONLY <3>1, <3>2, <1>2
  <2>5. 1401 < p <=> 1401 < q
    <3>1. a = 14 => l = 8
      BY <1>1, UpLengths, Zenon
    <3>2. a \in 0..24
      OBVIOUS
    <3> QED BY ONLY <3>1, <3>2, <1>2
  <2>6. 1403 < p <=> 1403 < q
    <3>1. a = 14 => l = 8
      BY <1>1, UpLengths, Zenon
    <3>2. a \in 0..24
      OBVIOUS
    <3> QED BY ONLY <3>1, <3>2, <1>2
  <2>7. 1404 < p <=> 1404 < q
    <3>1. a = 14 => l = 8
      BY <1>1, UpLengths, Zenon
    <3>2. a \in 0..24
      OBVIOUS
    <3> QED BY ONLY <3>1, <3>2, <1>2
  <2> QED BY ONLY <2>1, <2>2, <2>3, <2>4, <2>5, <2>6, <2>7 DEF RivenMarks
<1>5. \A m \in WishMarks : m < p <=> m < q
  <2>1. 301 < p <=> 301 < q
    <3>1. a = 3 => l = 1
      BY <1>1, UpLengths, Zenon
    <3>2. a \in 0..24
      OBVIOUS
    <3> QED BY ONLY <3>1, <3>2, <1>2
  <2>2. 401 < p <=> 401 < q
    <3>1. a = 4 => l = 1
      BY <1>1, UpLengths, Zenon
    <3>2. a \in 0..24
      OBVIOUS
    <3> QED BY ONLY <3>1, <3>2, <1>2
  <2>3. 1001 < p <=> 1001 < q
    <3>1. a = 10 => l = 1
      BY <1>1, UpLengths, Zenon
    <3>2. a \in 0..24
      OBVIOUS
    <3> QED BY ONLY <3>1, <3>2, <1>2
  <2>4. 1203 < p <=> 1203 < q
    <3>1. a = 12 => l = 3
      BY <1>1, UpLengths, Zenon
    <3>2. a \in 0..24
      OBVIOUS
    <3> QED BY ONLY <3>1, <3>2, <1>2
  <2>5. 1311 < p <=> 1311 < q
    <3>1. a = 13 => l = 12
      BY <1>1, UpLengths, Zenon
    <3>2. a \in 0..24
      OBVIOUS
    <3> QED BY ONLY <3>1, <3>2, <1>2
  <2>6. 1312 < p <=> 1312 < q
    <3>1. a = 13 => l = 12
      BY <1>1, UpLengths, Zenon
    <3>2. a \in 0..24
      OBVIOUS
    <3> QED BY ONLY <3>1, <3>2, <1>2
  <2>7. 1405 < p <=> 1405 < q
    <3>1. a = 14 => l = 8
      BY <1>1, UpLengths, Zenon
    <3>2. a \in 0..24
      OBVIOUS
    <3> QED BY ONLY <3>1, <3>2, <1>2
  <2>8. 1407 < p <=> 1407 < q
    <3>1. a = 14 => l = 8
      BY <1>1, UpLengths, Zenon
    <3>2. a \in 0..24
      OBVIOUS
    <3> QED BY ONLY <3>1, <3>2, <1>2
  <2>9. 1408 < p <=> 1408 < q
    <3>1. a = 14 => l = 8
      BY <1>1, UpLengths, Zenon
    <3>2. a \in 0..24
      OBVIOUS
    <3> QED BY ONLY <3>1, <3>2, <1>2
  <2> QED BY ONLY <2>1, <2>2, <2>3, <2>4, <2>5, <2>6, <2>7, <2>8, <2>9 DEF WishMarks
<1>6. \A m \in TransactionMarks : m < p <=> m < q
  <2>1. 1 < p <=> 1 < q
    <3>1. a = 0 => l = 1
      BY <1>1, UpLengths, Zenon
    <3>2. a \in 0..24
      OBVIOUS
    <3> QED BY ONLY <3>1, <3>2, <1>2
  <2>2. 701 < p <=> 701 < q
    <3>1. a = 7 => l = 1
      BY <1>1, UpLengths, Zenon
    <3>2. a \in 0..24
      OBVIOUS
    <3> QED BY ONLY <3>1, <3>2, <1>2
  <2>3. 1101 < p <=> 1101 < q
    <3>1. a = 11 => l = 1
      BY <1>1, UpLengths, Zenon
    <3>2. a \in 0..24
      OBVIOUS
    <3> QED BY ONLY <3>1, <3>2, <1>2
  <2> QED BY ONLY <2>1, <2>2, <2>3 DEF TransactionMarks
<1>7. \A m \in StateMarks : m < p <=> m < q
  <2>1. 1801 < p <=> 1801 < q
    <3>1. a = 18 => l = 2
      BY <1>1, UpLengths, Zenon
    <3>2. a \in 0..24
      OBVIOUS
    <3> QED BY ONLY <3>1, <3>2, <1>2
  <2>2. 2001 < p <=> 2001 < q
    <3>1. a = 20 => l = 1
      BY <1>1, UpLengths, Zenon
    <3>2. a \in 0..24
      OBVIOUS
    <3> QED BY ONLY <3>1, <3>2, <1>2
  <2> QED BY ONLY <2>1, <2>2 DEF StateMarks
<1>8. \A m \in EventMarks : m < p <=> m < q
  <2>1. 2101 < p <=> 2101 < q
    <3>1. a = 21 => l = 1
      BY <1>1, UpLengths, Zenon
    <3>2. a \in 0..24
      OBVIOUS
    <3> QED BY ONLY <3>1, <3>2, <1>2
  <2>2. 2201 < p <=> 2201 < q
    <3>1. a = 22 => l = 1
      BY <1>1, UpLengths, Zenon
    <3>2. a \in 0..24
      OBVIOUS
    <3> QED BY ONLY <3>1, <3>2, <1>2
  <2> QED BY ONLY <2>1, <2>2 DEF EventMarks
<1>9. \A m \in EntryMarks : m < p <=> m < q
  <2>1. 801 < p <=> 801 < q
    <3>1. a = 8 => l = 1
      BY <1>1, UpLengths, Zenon
    <3>2. a \in 0..24
      OBVIOUS
    <3> QED BY ONLY <3>1, <3>2, <1>2
  <2> QED BY ONLY <2>1 DEF EntryMarks
<1>10. \A m \in SettingMarks : m < p <=> m < q
  <2>1. 901 < p <=> 901 < q
    <3>1. a = 9 => l = 1
      BY <1>1, UpLengths, Zenon
    <3>2. a \in 0..24
      OBVIOUS
    <3> QED BY ONLY <3>1, <3>2, <1>2
  <2> QED BY ONLY <2>1 DEF SettingMarks
<1> QED BY <1>2, <1>3, <1>4, <1>5, <1>6, <1>7, <1>8, <1>9, <1>10 DEF SameSide, Passes

\* A file's columns between statements.
LEMMA ColumnsQuiet ==
  ASSUME NEW f, NEW p \in Nat, NEW q \in Nat, NEW fresh \in BOOLEAN, S!ColumnsAreThere(f, p, fresh)
  PROVE  /\ q <= p => S!ColumnsAreThere(f, q, FALSE)
         /\ (/\ SameSide(p, q, ItemMarks)
             /\ SameSide(p, q, RivenMarks)
             /\ SameSide(p, q, WishMarks)
             /\ SameSide(p, q, TransactionMarks)
             /\ SameSide(p, q, StateMarks)
             /\ SameSide(p, q, EventMarks)
             /\ SameSide(p, q, EntryMarks)
             /\ SameSide(p, q, SettingMarks))
            => S!ColumnsAreThere(f, q, fresh)
<1>1. /\ q <= p => S!StockItems(S!ColumnsOf(f, "stock_item"), q, FALSE)
      /\ SameSide(p, q, ItemMarks) => S!StockItems(S!ColumnsOf(f, "stock_item"), q, fresh)
  BY TablesAre, ItemQuiet, Zenon
<1>2. /\ q <= p => S!StockRivens(S!ColumnsOf(f, "stock_riven"), q, FALSE)
      /\ SameSide(p, q, RivenMarks) => S!StockRivens(S!ColumnsOf(f, "stock_riven"), q, fresh)
  BY TablesAre, RivenQuiet, Zenon
<1>3. /\ q <= p => S!WishLists(S!ColumnsOf(f, "wish_list"), q, FALSE)
      /\ SameSide(p, q, WishMarks) => S!WishLists(S!ColumnsOf(f, "wish_list"), q, fresh)
  BY TablesAre, WishQuiet, Zenon
<1>4. /\ q <= p => S!Transactions(S!ColumnsOf(f, "transaction"), q, FALSE)
      /\ SameSide(p, q, TransactionMarks) => S!Transactions(S!ColumnsOf(f, "transaction"), q, fresh)
  BY TablesAre, TransactionQuiet, Zenon
<1>5. /\ q <= p => S!TraderStates(S!ColumnsOf(f, "trader_state"), q, FALSE)
      /\ SameSide(p, q, StateMarks) => S!TraderStates(S!ColumnsOf(f, "trader_state"), q, fresh)
  BY TablesAre, StateQuiet, Zenon
<1>6. /\ q <= p => S!HelperEvents(S!ColumnsOf(f, "helper_events"), q, FALSE)
      /\ SameSide(p, q, EventMarks) => S!HelperEvents(S!ColumnsOf(f, "helper_events"), q, fresh)
  BY TablesAre, EventQuiet, Zenon
<1>7. /\ q <= p => S!TradeEntries(S!ColumnsOf(f, "trade_entry"), q)
      /\ SameSide(p, q, EntryMarks) => S!TradeEntries(S!ColumnsOf(f, "trade_entry"), q)
  BY TablesAre, EntryQuiet, Zenon
<1>8. /\ q <= p => S!Settings(S!ColumnsOf(f, "setting"), q)
      /\ SameSide(p, q, SettingMarks) => S!Settings(S!ColumnsOf(f, "setting"), q)
  BY TablesAre, SettingQuiet, Zenon
<1>9. q <= p => S!ColumnsAreThere(f, q, FALSE)
  BY <1>1, <1>2, <1>3, <1>4, <1>5, <1>6, <1>7, <1>8, TablesAre
<1> QED BY <1>9, <1>1, <1>2, <1>3, <1>4, <1>5, <1>6, <1>7, <1>8, TablesAre

\* At position p statement s runs next, the i-th of migration a.
StatementAt(a, i, s, p) == i \in 1..Len(Up(a)) /\ s = Up(a)[i] /\ p = 100 * a + i

\* A statement that succeeds moves the file on.
LEMMA ColumnsRun ==
  ASSUME NEW a \in 0..24, NEW i, NEW s, NEW p, StatementAt(a, i, s, p),
         NEW fresh \in BOOLEAN, NEW f, S!IsFile(f), S!ColumnsAreThere(f, p, fresh),
         S!Succeeds(f, s), NEW g, g = S!Run(f, s)
  PROVE  S!IsFile(g) /\ S!ColumnsAreThere(g, p + 1, fresh)
<1>0. i \in 1..Len(Up(a)) /\ s = Up(a)[i] /\ p = 100 * a + i
  BY DEF StatementAt
<1> USE <1>0
<1>1. /\ S!IsFile(g) /\ OthersStay(f, g, s.table) /\ Can(S!ColumnsOf(f, s.table), s)
      /\ Makes(S!ColumnsOf(f, s.table), s, S!ColumnsOf(g, s.table))
  BY StatementKinds, Runs
<1>2. i \in 1..12 /\ p \in Nat /\ p + 1 \in Nat
  BY PositionIs
<1>3. S!StockItems(S!ColumnsOf(g, "stock_item"), p + 1, fresh)
  <2>1. S!StockItems(S!ColumnsOf(f, "stock_item"), p, fresh)
    BY TablesAre
  <2>2. CASE s.table = "stock_item"
    <3>1. ItemStatement(a, i, s)
      BY <2>2, StatementsOn
    <3>2. Can(S!ColumnsOf(f, "stock_item"), s) /\ Makes(S!ColumnsOf(f, "stock_item"), s, S!ColumnsOf(g, "stock_item"))
      BY <1>1, <2>2
    <3> QED BY <1>2, <2>1, <3>1, <3>2, ItemRun
  <2>3. CASE s.table # "stock_item"
    <3>1. SameSide(p, p + 1, ItemMarks)
      BY <2>3, ItemPasses
    <3>2. S!StockItems(S!ColumnsOf(f, "stock_item"), p + 1, fresh)
      BY <1>2, <2>1, <3>1, ItemQuiet
    <3>3. S!ColumnsOf(g, "stock_item") = S!ColumnsOf(f, "stock_item")
      BY <1>1, <2>3 DEF OthersStay
    <3> QED BY <3>2, <3>3
  <2> QED BY <2>2, <2>3
<1>4. S!StockRivens(S!ColumnsOf(g, "stock_riven"), p + 1, fresh)
  <2>1. S!StockRivens(S!ColumnsOf(f, "stock_riven"), p, fresh)
    BY TablesAre
  <2>2. CASE s.table = "stock_riven"
    <3>1. RivenStatement(a, i, s)
      BY <2>2, StatementsOn
    <3>2. Can(S!ColumnsOf(f, "stock_riven"), s) /\ Makes(S!ColumnsOf(f, "stock_riven"), s, S!ColumnsOf(g, "stock_riven"))
      BY <1>1, <2>2
    <3> QED BY <1>2, <2>1, <3>1, <3>2, RivenRun
  <2>3. CASE s.table # "stock_riven"
    <3>1. SameSide(p, p + 1, RivenMarks)
      BY <2>3, RivenPasses
    <3>2. S!StockRivens(S!ColumnsOf(f, "stock_riven"), p + 1, fresh)
      BY <1>2, <2>1, <3>1, RivenQuiet
    <3>3. S!ColumnsOf(g, "stock_riven") = S!ColumnsOf(f, "stock_riven")
      BY <1>1, <2>3 DEF OthersStay
    <3> QED BY <3>2, <3>3
  <2> QED BY <2>2, <2>3
<1>5. S!WishLists(S!ColumnsOf(g, "wish_list"), p + 1, fresh)
  <2>1. S!WishLists(S!ColumnsOf(f, "wish_list"), p, fresh)
    BY TablesAre
  <2>2. CASE s.table = "wish_list"
    <3>1. WishStatement(a, i, s)
      BY <2>2, StatementsOn
    <3>2. Can(S!ColumnsOf(f, "wish_list"), s) /\ Makes(S!ColumnsOf(f, "wish_list"), s, S!ColumnsOf(g, "wish_list"))
      BY <1>1, <2>2
    <3> QED BY <1>2, <2>1, <3>1, <3>2, WishRun
  <2>3. CASE s.table # "wish_list"
    <3>1. SameSide(p, p + 1, WishMarks)
      BY <2>3, WishPasses
    <3>2. S!WishLists(S!ColumnsOf(f, "wish_list"), p + 1, fresh)
      BY <1>2, <2>1, <3>1, WishQuiet
    <3>3. S!ColumnsOf(g, "wish_list") = S!ColumnsOf(f, "wish_list")
      BY <1>1, <2>3 DEF OthersStay
    <3> QED BY <3>2, <3>3
  <2> QED BY <2>2, <2>3
<1>6. S!Transactions(S!ColumnsOf(g, "transaction"), p + 1, fresh)
  <2>1. S!Transactions(S!ColumnsOf(f, "transaction"), p, fresh)
    BY TablesAre
  <2>2. CASE s.table = "transaction"
    <3>1. TransactionStatement(a, i, s)
      BY <2>2, StatementsOn
    <3>2. Can(S!ColumnsOf(f, "transaction"), s) /\ Makes(S!ColumnsOf(f, "transaction"), s, S!ColumnsOf(g, "transaction"))
      BY <1>1, <2>2
    <3> QED BY <1>2, <2>1, <3>1, <3>2, TransactionRun
  <2>3. CASE s.table # "transaction"
    <3>1. SameSide(p, p + 1, TransactionMarks)
      BY <2>3, TransactionPasses
    <3>2. S!Transactions(S!ColumnsOf(f, "transaction"), p + 1, fresh)
      BY <1>2, <2>1, <3>1, TransactionQuiet
    <3>3. S!ColumnsOf(g, "transaction") = S!ColumnsOf(f, "transaction")
      BY <1>1, <2>3 DEF OthersStay
    <3> QED BY <3>2, <3>3
  <2> QED BY <2>2, <2>3
<1>7. S!TraderStates(S!ColumnsOf(g, "trader_state"), p + 1, fresh)
  <2>1. S!TraderStates(S!ColumnsOf(f, "trader_state"), p, fresh)
    BY TablesAre
  <2>2. CASE s.table = "trader_state"
    <3>1. StateStatement(a, i, s)
      BY <2>2, StatementsOn
    <3>2. Can(S!ColumnsOf(f, "trader_state"), s) /\ Makes(S!ColumnsOf(f, "trader_state"), s, S!ColumnsOf(g, "trader_state"))
      BY <1>1, <2>2
    <3> QED BY <1>2, <2>1, <3>1, <3>2, StateRun
  <2>3. CASE s.table # "trader_state"
    <3>1. SameSide(p, p + 1, StateMarks)
      BY <2>3, StatePasses
    <3>2. S!TraderStates(S!ColumnsOf(f, "trader_state"), p + 1, fresh)
      BY <1>2, <2>1, <3>1, StateQuiet
    <3>3. S!ColumnsOf(g, "trader_state") = S!ColumnsOf(f, "trader_state")
      BY <1>1, <2>3 DEF OthersStay
    <3> QED BY <3>2, <3>3
  <2> QED BY <2>2, <2>3
<1>8. S!HelperEvents(S!ColumnsOf(g, "helper_events"), p + 1, fresh)
  <2>1. S!HelperEvents(S!ColumnsOf(f, "helper_events"), p, fresh)
    BY TablesAre
  <2>2. CASE s.table = "helper_events"
    <3>1. EventStatement(a, i, s)
      BY <2>2, StatementsOn
    <3>2. Can(S!ColumnsOf(f, "helper_events"), s) /\ Makes(S!ColumnsOf(f, "helper_events"), s, S!ColumnsOf(g, "helper_events"))
      BY <1>1, <2>2
    <3> QED BY <1>2, <2>1, <3>1, <3>2, EventRun
  <2>3. CASE s.table # "helper_events"
    <3>1. SameSide(p, p + 1, EventMarks)
      BY <2>3, EventPasses
    <3>2. S!HelperEvents(S!ColumnsOf(f, "helper_events"), p + 1, fresh)
      BY <1>2, <2>1, <3>1, EventQuiet
    <3>3. S!ColumnsOf(g, "helper_events") = S!ColumnsOf(f, "helper_events")
      BY <1>1, <2>3 DEF OthersStay
    <3> QED BY <3>2, <3>3
  <2> QED BY <2>2, <2>3
<1>9. S!TradeEntries(S!ColumnsOf(g, "trade_entry"), p + 1)
  <2>1. S!TradeEntries(S!ColumnsOf(f, "trade_entry"), p)
    BY TablesAre
  <2>2. CASE s.table = "trade_entry"
    <3>1. EntryStatement(a, i, s)
      BY <2>2, StatementsOn
    <3>2. Can(S!ColumnsOf(f, "trade_entry"), s) /\ Makes(S!ColumnsOf(f, "trade_entry"), s, S!ColumnsOf(g, "trade_entry"))
      BY <1>1, <2>2
    <3> QED BY <1>2, <2>1, <3>1, <3>2, EntryRun
  <2>3. CASE s.table # "trade_entry"
    <3>1. SameSide(p, p + 1, EntryMarks)
      BY <2>3, EntryPasses
    <3>2. S!TradeEntries(S!ColumnsOf(f, "trade_entry"), p + 1)
      BY <1>2, <2>1, <3>1, EntryQuiet
    <3>3. S!ColumnsOf(g, "trade_entry") = S!ColumnsOf(f, "trade_entry")
      BY <1>1, <2>3 DEF OthersStay
    <3> QED BY <3>2, <3>3
  <2> QED BY <2>2, <2>3
<1>10. S!Settings(S!ColumnsOf(g, "setting"), p + 1)
  <2>1. S!Settings(S!ColumnsOf(f, "setting"), p)
    BY TablesAre
  <2>2. CASE s.table = "setting"
    <3>1. SettingStatement(a, i, s)
      BY <2>2, StatementsOn
    <3>2. Can(S!ColumnsOf(f, "setting"), s) /\ Makes(S!ColumnsOf(f, "setting"), s, S!ColumnsOf(g, "setting"))
      BY <1>1, <2>2
    <3> QED BY <1>2, <2>1, <3>1, <3>2, SettingRun
  <2>3. CASE s.table # "setting"
    <3>1. SameSide(p, p + 1, SettingMarks)
      BY <2>3, SettingPasses
    <3>2. S!Settings(S!ColumnsOf(f, "setting"), p + 1)
      BY <1>2, <2>1, <3>1, SettingQuiet
    <3>3. S!ColumnsOf(g, "setting") = S!ColumnsOf(f, "setting")
      BY <1>1, <2>3 DEF OthersStay
    <3> QED BY <3>2, <3>3
  <2> QED BY <2>2, <2>3
<1> QED BY <1>1, <1>3, <1>4, <1>5, <1>6, <1>7, <1>8, <1>9, <1>10, TablesAre

\* In a fresh file it succeeds, or is tolerated.
LEMMA ColumnsCan ==
  ASSUME NEW a \in 0..24, NEW i \in 1..Len(Up(a)), NEW s, s = Up(a)[i], NEW p, p = 100 * a + i,
         NEW f, S!IsFile(f), S!ColumnsAreThere(f, p, TRUE)
  PROVE  S!Succeeds(f, s) \/ s.tolerant
<1>1. i \in 1..12
  BY PositionIs
<1>2. s.op \in Ops
  BY StatementKinds
<1>3. Can(S!ColumnsOf(f, s.table), s) => S!Succeeds(f, s)
  BY <1>2, SucceedsIs
<1>4. CASE s.table = "stock_item"
  <2>1. ItemStatement(a, i, s)
    BY <1>4, StatementsOn
  <2>2. S!StockItems(S!ColumnsOf(f, "stock_item"), p, TRUE)
    BY TablesAre
  <2>3. Can(S!ColumnsOf(f, "stock_item"), s) \/ s.tolerant
    BY <1>1, <2>1, <2>2, ItemCan
  <2> QED BY <1>3, <1>4, <2>3
<1>5. CASE s.table = "stock_riven"
  <2>1. RivenStatement(a, i, s)
    BY <1>5, StatementsOn
  <2>2. S!StockRivens(S!ColumnsOf(f, "stock_riven"), p, TRUE)
    BY TablesAre
  <2>3. Can(S!ColumnsOf(f, "stock_riven"), s) \/ s.tolerant
    BY <1>1, <2>1, <2>2, RivenCan
  <2> QED BY <1>3, <1>5, <2>3
<1>6. CASE s.table = "wish_list"
  <2>1. WishStatement(a, i, s)
    BY <1>6, StatementsOn
  <2>2. S!WishLists(S!ColumnsOf(f, "wish_list"), p, TRUE)
    BY TablesAre
  <2>3. Can(S!ColumnsOf(f, "wish_list"), s) \/ s.tolerant
    BY <1>1, <2>1, <2>2, WishCan
  <2> QED BY <1>3, <1>6, <2>3
<1>7. CASE s.table = "transaction"
  <2>1. TransactionStatement(a, i, s)
    BY <1>7, StatementsOn
  <2>2. S!Transactions(S!ColumnsOf(f, "transaction"), p, TRUE)
    BY TablesAre
  <2>3. Can(S!ColumnsOf(f, "transaction"), s) \/ s.tolerant
    BY <1>1, <2>1, <2>2, TransactionCan
  <2> QED BY <1>3, <1>7, <2>3
<1>8. CASE s.table = "trader_state"
  <2>1. StateStatement(a, i, s)
    BY <1>8, StatementsOn
  <2>2. S!TraderStates(S!ColumnsOf(f, "trader_state"), p, TRUE)
    BY TablesAre
  <2>3. Can(S!ColumnsOf(f, "trader_state"), s) \/ s.tolerant
    BY <1>1, <2>1, <2>2, StateCan
  <2> QED BY <1>3, <1>8, <2>3
<1>9. CASE s.table = "helper_events"
  <2>1. EventStatement(a, i, s)
    BY <1>9, StatementsOn
  <2>2. S!HelperEvents(S!ColumnsOf(f, "helper_events"), p, TRUE)
    BY TablesAre
  <2>3. Can(S!ColumnsOf(f, "helper_events"), s) \/ s.tolerant
    BY <1>1, <2>1, <2>2, EventCan
  <2> QED BY <1>3, <1>9, <2>3
<1>10. CASE s.table \notin Tables8 \/ s.table \in {"trade_entry", "setting"}
  <2>1. s.op = "create"
    BY <1>10, StatementKinds
  <2> QED BY <1>3, <2>1 DEF Can
<1> QED BY <1>4, <1>5, <1>6, <1>7, <1>8, <1>9, <1>10 DEF Tables8

\* A tolerated statement that fails moves it on, too.
LEMMA ColumnsTolerate ==
  ASSUME NEW a \in 0..24, NEW i, NEW s, NEW p, StatementAt(a, i, s, p),
         NEW fresh \in BOOLEAN, NEW f, S!IsFile(f), S!ColumnsAreThere(f, p, fresh),
         ~S!Succeeds(f, s), s.tolerant
  PROVE  S!ColumnsAreThere(f, p + 1, fresh)
<1>0. i \in 1..Len(Up(a)) /\ s = Up(a)[i] /\ p = 100 * a + i
  BY DEF StatementAt
<1>1. RivenStatement(5, i, s) /\ a = 5 /\ i \in 1..2 /\ s.op \in Ops
  BY <1>0, StatementKinds
<1>2. s.table = "stock_riven"
  BY <1>1, StatementTables
<1>3. ~Can(S!ColumnsOf(f, "stock_riven"), s)
  BY <1>1, <1>2, SucceedsIs
<1>b. p \in Nat /\ p + 1 \in Nat /\ p = 500 + i
  BY <1>0, <1>1
<1>4. p \in Nat /\ p + 1 \in Nat
  BY <1>b
<1>5. S!StockItems(S!ColumnsOf(f, "stock_item"), p + 1, fresh)
  <2>1. S!StockItems(S!ColumnsOf(f, "stock_item"), p, fresh)
    BY TablesAre
  <2>2. SameSide(p, p + 1, ItemMarks)
    BY <1>0, <1>2, ItemPasses
  <2> QED BY <1>4, <2>1, <2>2, ItemQuiet
<1>6. S!StockRivens(S!ColumnsOf(f, "stock_riven"), p + 1, fresh)
  <2>1. S!StockRivens(S!ColumnsOf(f, "stock_riven"), p, fresh)
    BY TablesAre
  <2> QED BY <1>1, <1>3, <1>b, <1>4, <2>1, RivenTolerates
<1>7. S!WishLists(S!ColumnsOf(f, "wish_list"), p + 1, fresh)
  <2>1. S!WishLists(S!ColumnsOf(f, "wish_list"), p, fresh)
    BY TablesAre
  <2>2. SameSide(p, p + 1, WishMarks)
    BY <1>0, <1>2, WishPasses
  <2> QED BY <1>4, <2>1, <2>2, WishQuiet
<1>8. S!Transactions(S!ColumnsOf(f, "transaction"), p + 1, fresh)
  <2>1. S!Transactions(S!ColumnsOf(f, "transaction"), p, fresh)
    BY TablesAre
  <2>2. SameSide(p, p + 1, TransactionMarks)
    BY <1>0, <1>2, TransactionPasses
  <2> QED BY <1>4, <2>1, <2>2, TransactionQuiet
<1>9. S!TraderStates(S!ColumnsOf(f, "trader_state"), p + 1, fresh)
  <2>1. S!TraderStates(S!ColumnsOf(f, "trader_state"), p, fresh)
    BY TablesAre
  <2>2. SameSide(p, p + 1, StateMarks)
    BY <1>0, <1>2, StatePasses
  <2> QED BY <1>4, <2>1, <2>2, StateQuiet
<1>10. S!HelperEvents(S!ColumnsOf(f, "helper_events"), p + 1, fresh)
  <2>1. S!HelperEvents(S!ColumnsOf(f, "helper_events"), p, fresh)
    BY TablesAre
  <2>2. SameSide(p, p + 1, EventMarks)
    BY <1>0, <1>2, EventPasses
  <2> QED BY <1>4, <2>1, <2>2, EventQuiet
<1>11. S!TradeEntries(S!ColumnsOf(f, "trade_entry"), p + 1)
  <2>1. S!TradeEntries(S!ColumnsOf(f, "trade_entry"), p)
    BY TablesAre
  <2>2. SameSide(p, p + 1, EntryMarks)
    BY <1>0, <1>2, EntryPasses
  <2> QED BY <1>4, <2>1, <2>2, EntryQuiet
<1>12. S!Settings(S!ColumnsOf(f, "setting"), p + 1)
  <2>1. S!Settings(S!ColumnsOf(f, "setting"), p)
    BY TablesAre
  <2>2. SameSide(p, p + 1, SettingMarks)
    BY <1>0, <1>2, SettingPasses
  <2> QED BY <1>4, <2>1, <2>2, SettingQuiet
<1> QED BY <1>5, <1>6, <1>7, <1>8, <1>9, <1>10, <1>11, <1>12, TablesAre

-----------------------------------------------------------------------------
(* Where the user's limits are at each position.                            *)

\* Columns that can hold a limit.
Place(x) == \E l \in S!Limits : x \in {l, S!Properties(l[1]), S!Replacing(l[1])}
Retains(f, g, x) == x \in DOMAIN f => x \in DOMAIN g /\ f[x] \subseteq g[x]

\* A limit's own column is neither properties nor what replaces them.
LEMMA LimitsAre ==
  ASSUME NEW l \in S!Limits
  PROVE  /\ l = <<l[1], l[2]>> /\ l[2] \notin {"properties", "properties_new", "wfm_order_id", "helper_override"}
         /\ l[1] \in {"stock_item", "stock_riven", "wish_list"}
         /\ \A t : l # S!Properties(t) /\ l # S!Replacing(t)
<1>1. /\ l = <<l[1], l[2]>> /\ l[2] \notin {"properties", "properties_new", "wfm_order_id", "helper_override"}
      /\ l[1] \in {"stock_item", "stock_riven", "wish_list"}
  BY DEF S!Limits
<1>2. \A t : S!Properties(t)[2] = "properties" /\ S!Replacing(t)[2] = "properties_new"
  BY DEF S!Properties, S!Replacing
<1> QED BY <1>1, <1>2

\* A limit, the properties of its row and what replaces them are three columns, and no
\* limit is in a column that comes and goes without it.
LEMMA PlacesAre ==
  /\ \A t, u : S!Properties(t) # S!Replacing(u)
  /\ \A t, u : S!Properties(t) = S!Properties(u) => t = u
  /\ \A t, u : S!Replacing(t) = S!Replacing(u) => t = u
  /\ \A x : Place(x) => /\ x = <<x[1], x[2]>> /\ x[2] \notin {"wfm_order_id", "helper_override"}
<1>1. \A t : /\ S!Properties(t)[1] = t /\ S!Properties(t)[2] = "properties"
             /\ S!Replacing(t)[1] = t /\ S!Replacing(t)[2] = "properties_new"
  BY DEF S!Properties, S!Replacing
<1>2. ASSUME NEW x, Place(x)
      PROVE  x = <<x[1], x[2]>> /\ x[2] \notin {"wfm_order_id", "helper_override"}
  <2>1. PICK l \in S!Limits : x \in {l, S!Properties(l[1]), S!Replacing(l[1])}
    BY <1>2 DEF Place
  <2>2. CASE x = l
    BY <2>2, LimitsAre
  <2>3. CASE x # l
    BY <2>1, <2>3, <1>1 DEF S!Properties, S!Replacing
  <2> QED BY <2>2, <2>3
<1>3. "properties" # "properties_new"
  OBVIOUS
<1>4. \A t, u : S!Properties(t) # S!Replacing(u)
  <2> SUFFICES ASSUME NEW t, NEW u, S!Properties(t) = S!Replacing(u) PROVE FALSE
    OBVIOUS
  <2>1. S!Properties(t)[2] = "properties" /\ S!Replacing(u)[2] = "properties_new"
    BY <1>1
  <2> QED BY <2>1, <1>3
<1> QED BY <1>1, <1>2, <1>4

\* A limit stays where it is found if the column it is in is kept.
LEMMA StillThereStays ==
  ASSUME NEW f, NEW g, NEW l \in S!Limits, S!StillThere(f, l), \A x : Place(x) => Retains(f, g, x)
  PROVE  S!StillThere(g, l)
<1>1. PICK x \in {l, S!Properties(l[1]), S!Replacing(l[1])} : x \in DOMAIN f /\ l \in f[x]
  BY DEF S!StillThere
<1>2. Place(x)
  BY DEF Place
<1>3. x \in DOMAIN g /\ l \in g[x]
  BY <1>1, <1>2 DEF Retains
<1> QED BY <1>1, <1>3 DEF S!StillThere

\* When limits are copied to the properties.
LEMMA CopiedAtIs ==
  /\ S!CopiedAt(<<"stock_item", "minimum_price">>) = 1301
  /\ S!CopiedAt(<<"stock_item", "minimum_profit">>) = 1302
  /\ S!CopiedAt(<<"stock_item", "minimum_sma">>) = 1303
  /\ S!CopiedAt(<<"wish_list", "maximum_price">>) = 1304
  /\ S!CopiedAt(<<"wish_list", "minimum_price">>) = 1305
  /\ S!CopiedAt(<<"stock_riven", "minimum_price">>) = 1306
BY DEF S!CopiedAt

\* The limits are these six.
LEMMA EachLimit ==
  ASSUME NEW l \in S!Limits
  PROVE  \/ l = <<"stock_item", "minimum_price">> /\ S!CopiedAt(l) = 1301
         \/ l = <<"stock_item", "minimum_profit">> /\ S!CopiedAt(l) = 1302
         \/ l = <<"stock_item", "minimum_sma">> /\ S!CopiedAt(l) = 1303
         \/ l = <<"wish_list", "maximum_price">> /\ S!CopiedAt(l) = 1304
         \/ l = <<"wish_list", "minimum_price">> /\ S!CopiedAt(l) = 1305
         \/ l = <<"stock_riven", "minimum_price">> /\ S!CopiedAt(l) = 1306
<1>1. \/ l = <<"stock_item", "minimum_price">> \/ l = <<"stock_item", "minimum_profit">>
      \/ l = <<"stock_item", "minimum_sma">> \/ l = <<"wish_list", "maximum_price">>
      \/ l = <<"wish_list", "minimum_price">> \/ l = <<"stock_riven", "minimum_price">>
  BY DEF S!Limits
<1> QED BY <1>1, CopiedAtIs

\* The limits are copied by the first six statements of their migration
\* (drop_min_price_columns).
LEMMA CopiedAtRange ==
  ASSUME NEW l \in S!Limits
  PROVE  S!CopiedAt(l) \in 1301..1306
<1>1. PICK n : n = S!CopiedAt(l)
  OBVIOUS
<1>2. n = 1301 \/ n = 1302 \/ n = 1303 \/ n = 1304 \/ n = 1305 \/ n = 1306
  BY <1>1, EachLimit
<1>3. n \in 1301..1306
  BY ONLY <1>2
<1> QED BY <1>1, <1>3

\* Each of them by one of its own.
LEMMA CopiedAtDiffers ==
  ASSUME NEW l \in S!Limits, NEW m \in S!Limits, S!CopiedAt(l) = S!CopiedAt(m)
  PROVE  l = m
<1>1. PICK n : n = S!CopiedAt(l)
  OBVIOUS
<1>2. /\ n = 1301 => l = <<"stock_item", "minimum_price">> /\ m = <<"stock_item", "minimum_price">>
      /\ n = 1302 => l = <<"stock_item", "minimum_profit">> /\ m = <<"stock_item", "minimum_profit">>
      /\ n = 1303 => l = <<"stock_item", "minimum_sma">> /\ m = <<"stock_item", "minimum_sma">>
      /\ n = 1304 => l = <<"wish_list", "maximum_price">> /\ m = <<"wish_list", "maximum_price">>
      /\ n = 1305 => l = <<"wish_list", "minimum_price">> /\ m = <<"wish_list", "minimum_price">>
      /\ n = 1306 => l = <<"stock_riven", "minimum_price">> /\ m = <<"stock_riven", "minimum_price">>
  <2>1. S!CopiedAt(m) = n
    BY <1>1
  <2>2. /\ n = 1301 => l = <<"stock_item", "minimum_price">>
        /\ n = 1302 => l = <<"stock_item", "minimum_profit">>
        /\ n = 1303 => l = <<"stock_item", "minimum_sma">>
        /\ n = 1304 => l = <<"wish_list", "maximum_price">>
        /\ n = 1305 => l = <<"wish_list", "minimum_price">>
        /\ n = 1306 => l = <<"stock_riven", "minimum_price">>
    BY <1>1, EachLimit
  <2>3. /\ n = 1301 => m = <<"stock_item", "minimum_price">>
        /\ n = 1302 => m = <<"stock_item", "minimum_profit">>
        /\ n = 1303 => m = <<"stock_item", "minimum_sma">>
        /\ n = 1304 => m = <<"wish_list", "maximum_price">>
        /\ n = 1305 => m = <<"wish_list", "minimum_price">>
        /\ n = 1306 => m = <<"stock_riven", "minimum_price">>
    BY <2>1, EachLimit
  <2> QED BY <2>2, <2>3
<1>3. n \in 1301..1306
  BY <1>1, CopiedAtRange
<1>4. n = 1301 \/ n = 1302 \/ n = 1303 \/ n = 1304 \/ n = 1305 \/ n = 1306
  BY ONLY <1>3
<1> QED BY <1>2, <1>4

\* Away from those two migrations nothing is promised about single columns.
LEMMA FarFromLimits ==
  ASSUME NEW f, NEW p \in Nat
  PROVE  /\ p \notin 1302..1313 => S!CopiedBeforeDropped(f, p)
         /\ p \notin {1402, 1403} => S!Replaces(f, "stock_riven", p, 1401)
         /\ p \notin {1406, 1407} => S!Replaces(f, "wish_list", p, 1405)
<1>1. ASSUME p \notin 1302..1313 PROVE S!CopiedBeforeDropped(f, p)
  <2> SUFFICES ASSUME NEW l \in S!Limits, S!CopiedAt(l) < p, p <= 1313 PROVE FALSE
    BY DEF S!CopiedBeforeDropped
  <2>1. PICK n : n = S!CopiedAt(l)
    OBVIOUS
  <2>2. n \in 1301..1306 /\ n < p
    BY <2>1, CopiedAtRange
  <2> QED BY <1>1, <2>2
<1>2. ASSUME p \notin {1402, 1403} PROVE S!Replaces(f, "stock_riven", p, 1401)
  BY <1>2 DEF S!Replaces
<1>3. ASSUME p \notin {1406, 1407} PROVE S!Replaces(f, "wish_list", p, 1405)
  BY <1>3 DEF S!Replaces
<1> QED BY <1>1, <1>2, <1>3

\* A file that loses nothing a limit is in keeps the limits.
LEMMA LimitsStay ==
  ASSUME NEW f, NEW g, NEW limits \in SUBSET S!Limits, NEW p, S!LimitsAreThere(f, limits, p),
         NEW q \in Nat, q \notin (1302..1313) \cup {1402, 1403, 1406, 1407},
         \A x : Place(x) => Retains(f, g, x)
  PROVE  S!LimitsAreThere(g, limits, q)
<1>1. \A l \in limits : S!StillThere(g, l)
  <2> SUFFICES ASSUME NEW l \in limits PROVE S!StillThere(g, l)
    OBVIOUS
  <2>1. l \in S!Limits /\ S!StillThere(f, l)
    BY DEF S!LimitsAreThere
  <2> QED BY <2>1, StillThereStays
<1>2. q \notin 1302..1313 /\ q \notin {1402, 1403} /\ q \notin {1406, 1407}
  OBVIOUS
<1> QED BY <1>1, <1>2, FarFromLimits DEF S!LimitsAreThere

\* Creating and adding columns and dropping those that hold no limits leaves the limits where they are.
LEMMA PlacesKept ==
  ASSUME NEW f, S!IsFile(f), NEW s, S!Succeeds(f, s), NEW g, g = S!Run(f, s),
         \/ s.op = "create" \/ s.op = "add"
         \/ s.op = "drop" /\ s.column \in {"wfm_order_id", "helper_override"}
  PROVE  \A x : Place(x) => Retains(f, g, x)
<1>0. s.op \in Ops
  BY DEF Ops
<1>1. CASE s.op = "create"
  BY <1>1, CreateRuns DEF Retains, Grows
<1>2. CASE s.op = "add"
  <2>1. Can(S!ColumnsOf(f, s.table), s)
    BY <1>0, Runs
  <2>2. Grows(f, g)
    BY <1>2, <2>1, AddRuns
  <2> QED BY <2>2 DEF Retains, Grows
<1>3. CASE s.op = "drop" /\ s.column \in {"wfm_order_id", "helper_override"}
  <2> SUFFICES ASSUME NEW x, Place(x), x \in DOMAIN f PROVE x \in DOMAIN g /\ f[x] \subseteq g[x]
    BY DEF Retains
  <2>1. x[2] \notin {"wfm_order_id", "helper_override"}
    BY PlacesAre
  <2>2. x # <<s.table, s.column>>
    BY <1>3, <2>1
  <2>3. DOMAIN g = DOMAIN f \ {<<s.table, s.column>>} /\ \A y \in DOMAIN g : g[y] = f[y]
    BY <1>3, DropRuns DEF Loses
  <2> QED BY <2>2, <2>3
<1> QED BY <1>1, <1>2, <1>3

\* The six statements that copy a limit into the properties of its row.
LEMMA CopyKeepsLimits ==
  ASSUME NEW f, S!IsFile(f), NEW limits \in SUBSET S!Limits, NEW p \in 1301..1306, S!LimitsAreThere(f, limits, p),
         NEW t, NEW c, NEW l0 \in S!Limits, l0 = <<t, c>>, S!CopiedAt(l0) = p,
         NEW s, Is(s, "json_set", t, c, "properties"), S!Succeeds(f, s), NEW g, g = S!Run(f, s)
  PROVE  S!LimitsAreThere(g, limits, p + 1)
<1>1. PICK props : props = S!Properties(t)
  OBVIOUS
<1>2. l0[1] = t
  OBVIOUS
<1>3. s.op = "json_set" /\ <<s.table, s.column>> = l0 /\ <<s.table, s.to>> = props
  BY <1>1 DEF Is, Either, S!Properties
<1>4. l0 # props
  BY <1>1, LimitsAre
<1>5. /\ DOMAIN g = DOMAIN f
      /\ \A x \in DOMAIN f : x # props => g[x] = f[x]
      /\ props \in DOMAIN f => g[props] = f[props] \cup f[l0]
  <2>1. Copies(f, g, s)
    BY <1>3, CopyRuns
  <2>2. Sets(f, g, props, f[props] \cup f[l0])
    BY <1>3, <2>1 DEF Copies
  <2> QED BY <2>2 DEF Sets
<1>6. props \in DOMAIN f
  <2>1. Can(S!ColumnsOf(f, s.table), s)
    BY <1>3, SucceedsIs DEF Ops
  <2>2. s.to \in S!ColumnsOf(f, s.table)
    BY <1>3, <2>1 DEF Can
  <2> QED BY <1>3, <2>2, ColumnsAre
<1>7. \A x : Place(x) => Retains(f, g, x)
  BY <1>5 DEF Retains
<1>8. \A l \in limits : S!StillThere(g, l)
  <2> SUFFICES ASSUME NEW l \in limits PROVE S!StillThere(g, l)
    OBVIOUS
  <2>1. l \in S!Limits /\ S!StillThere(f, l)
    BY DEF S!LimitsAreThere
  <2> QED BY <1>7, <2>1, StillThereStays
<1>9. S!CopiedBeforeDropped(g, p + 1)
  <2> SUFFICES ASSUME NEW l \in S!Limits, S!CopiedAt(l) < p + 1, l \in DOMAIN g
               PROVE  S!Copied(g, l)
    BY DEF S!CopiedBeforeDropped
  <2>1. PICK n : n = S!CopiedAt(l)
    OBVIOUS
  <2>2. n = p \/ n < p
    <3>1. n \in 1301..1306 /\ n < p + 1
      BY <2>1, CopiedAtRange
    <3> QED BY <3>1
  <2>3. CASE n = p
    <3>1. l = l0
      <4>1. S!CopiedAt(l) = S!CopiedAt(l0)
        BY <2>1, <2>3
      <4> QED BY <4>1, CopiedAtDiffers
    <3>2. g[l] = f[l] /\ f[l] \subseteq g[props] /\ props \in DOMAIN g
      BY <1>4, <1>5, <1>6, <3>1
    <3> QED BY <1>1, <1>2, <3>1, <3>2 DEF S!Copied
  <2>4. CASE n < p
    <3>1. S!Copied(f, l)
      BY <1>5, <2>1, <2>4 DEF S!LimitsAreThere, S!CopiedBeforeDropped
    <3>2. PICK q : q = S!Properties(l[1])
      OBVIOUS
    <3>3. q \in DOMAIN f /\ f[l] \subseteq f[q]
      BY <3>1, <3>2 DEF S!Copied
    <3>4. l # props
      BY <1>1, LimitsAre
    <3>5. f[q] \subseteq g[q]
      BY <1>5, <3>3
    <3>6. g[l] = f[l]
      BY <1>5, <3>4
    <3> QED BY <1>5, <3>2, <3>3, <3>5, <3>6 DEF S!Copied
  <2> QED BY <2>2, <2>3, <2>4
<1>10. p + 1 \in Nat /\ p + 1 \notin {1402, 1403} /\ p + 1 \notin {1406, 1407}
  OBVIOUS
<1> QED BY <1>8, <1>9, <1>10, FarFromLimits DEF S!LimitsAreThere

\* The six that drop a limit's own column: by then it is in the properties.
LEMMA DropKeepsLimits ==
  ASSUME NEW f, S!IsFile(f), NEW limits \in SUBSET S!Limits, NEW p \in 1307..1312, S!LimitsAreThere(f, limits, p),
         NEW t, NEW c, NEW l0 \in S!Limits, l0 = <<t, c>>,
         NEW s, Is(s, "drop", t, c, "none"), S!Succeeds(f, s), NEW g, g = S!Run(f, s)
  PROVE  S!LimitsAreThere(g, limits, p + 1)
<1>1. s.op = "drop" /\ <<s.table, s.column>> = l0
  BY DEF Is, Either
<1>2. DOMAIN g = DOMAIN f \ {l0} /\ \A x \in DOMAIN g : g[x] = f[x]
  BY <1>1, DropRuns DEF Loses
<1>3. ASSUME NEW l \in S!Limits, l \in DOMAIN f PROVE S!Copied(f, l)
  <2>1. PICK n : n = S!CopiedAt(l)
    OBVIOUS
  <2>2. n \in 1301..1306
    BY <2>1, CopiedAtRange
  <2>3. n < p /\ p <= 1313
    BY <2>2
  <2> QED BY <1>3, <2>1, <2>3 DEF S!LimitsAreThere, S!CopiedBeforeDropped
<1>4. \A u : S!Properties(u) # l0 /\ S!Replacing(u) # l0
  BY LimitsAre
<1>5. ASSUME NEW l \in limits PROVE S!StillThere(g, l)
  <2>1. l \in S!Limits /\ S!StillThere(f, l)
    BY DEF S!LimitsAreThere
  <2>2. PICK x \in {l, S!Properties(l[1]), S!Replacing(l[1])} : x \in DOMAIN f /\ l \in f[x]
    BY <2>1 DEF S!StillThere
  <2>3. CASE x # l0
    BY <1>2, <2>2, <2>3 DEF S!StillThere
  <2>4. CASE x = l0
    <3>1. x = l
      BY <1>4, <2>2, <2>4
    <3>2. S!Properties(l[1]) \in DOMAIN f /\ l \in f[S!Properties(l[1])]
      BY <1>3, <2>1, <2>2, <3>1 DEF S!Copied
    <3> QED BY <1>2, <1>4, <3>2 DEF S!StillThere
  <2> QED BY <2>3, <2>4
<1>6. S!CopiedBeforeDropped(g, p + 1)
  <2> SUFFICES ASSUME NEW l \in S!Limits, l \in DOMAIN g
               PROVE  S!Copied(g, l)
    BY DEF S!CopiedBeforeDropped
  <2>1. S!Copied(f, l)
    BY <1>2, <1>3
  <2> QED BY <1>2, <1>4, <2>1 DEF S!Copied
<1>7. p + 1 \in Nat /\ p + 1 \notin {1402, 1403} /\ p + 1 \notin {1406, 1407}
  OBVIOUS
<1> QED BY <1>5, <1>6, <1>7, FarFromLimits DEF S!LimitsAreThere

ReplacingStatement(s, t, p, from) ==
  \/ p = from /\ Is(s, "add", t, "properties_new", "none")
  \/ p = from + 1 /\ Is(s, "copy", t, "properties", "properties_new")
  \/ p = from + 2 /\ Is(s, "drop", t, "properties", "none")
  \/ p = from + 3 /\ Is(s, "rename", t, "properties_new", "properties")

\* Replacing the properties of a table, in four statements: what they hold is in the
\* new column before they go.
LEMMA ReplacingKeeps ==
  ASSUME NEW f, S!IsFile(f), NEW t, NEW p \in Nat, NEW from \in Nat, S!Replaces(f, t, p, from),
         NEW s, S!Succeeds(f, s), NEW g, g = S!Run(f, s),
         ReplacingStatement(s, t, p, from)
  PROVE  /\ S!Replaces(g, t, p + 1, from)
         /\ \A l \in S!Limits : S!StillThere(f, l) => S!StillThere(g, l)
<1>1. PICK old, new : old = S!Properties(t) /\ new = S!Replacing(t)
  OBVIOUS
<1>2. old # new
  BY <1>1, PlacesAre
<1>3. old = <<t, "properties">> /\ new = <<t, "properties_new">>
  BY <1>1 DEF S!Properties, S!Replacing
<1>4. /\ p = from + 1 => new \in DOMAIN f /\ f[new] = {}
      /\ p = from + 2 => new \in DOMAIN f /\ (old \in DOMAIN f => f[old] \subseteq f[new])
  BY <1>1 DEF S!Replaces
<1>5. /\ p = from => p + 1 = from + 1 /\ p + 1 # from + 2
      /\ p = from + 1 => p + 1 # from + 1 /\ p + 1 = from + 2
      /\ p = from + 2 \/ p = from + 3 => p + 1 # from + 1 /\ p + 1 # from + 2
  OBVIOUS
<1>6. CASE p = from /\ Is(s, "add", t, "properties_new", "none")
  <2>1. s.op = "add" /\ s.op \in Ops /\ <<s.table, s.column>> = new
    BY <1>3, <1>6 DEF Is, Either, Ops
  <2>2. Can(S!ColumnsOf(f, s.table), s)
    BY <2>1, SucceedsIs
  <2>3. Grows(f, g) /\ new \in DOMAIN g /\ g[new] = {}
    BY <2>1, <2>2, AddRuns
  <2>4. \A x : Place(x) => Retains(f, g, x)
    BY <2>3 DEF Retains, Grows
  <2>5. \A l \in S!Limits : S!StillThere(f, l) => S!StillThere(g, l)
    BY <2>4, StillThereStays
  <2>6. S!Replaces(g, t, p + 1, from)
    BY <1>1, <1>5, <1>6, <2>3 DEF S!Replaces
  <2> QED BY <2>5, <2>6
<1>7. CASE p = from + 1 /\ Is(s, "copy", t, "properties", "properties_new")
  <2>1. s.op = "copy" /\ s.op \in Ops /\ <<s.table, s.column>> = old /\ <<s.table, s.to>> = new
    BY <1>3, <1>7 DEF Is, Either, Ops
  <2>2. /\ DOMAIN g = DOMAIN f
        /\ \A x \in DOMAIN f : x # new => g[x] = f[x]
        /\ new \in DOMAIN f => g[new] = f[old]
    <3>1. Copies(f, g, s)
      BY <2>1, CopyRuns
    <3>2. Sets(f, g, new, f[old])
      BY <2>1, <3>1 DEF Copies
    <3> QED BY <3>2 DEF Sets
  <2>3. new \in DOMAIN f /\ f[new] = {} /\ g[new] = f[old]
    BY <1>4, <1>7, <2>2
  <2>4. \A x : Place(x) => Retains(f, g, x)
    BY <2>2, <2>3 DEF Retains
  <2>5. \A l \in S!Limits : S!StillThere(f, l) => S!StillThere(g, l)
    BY <2>4, StillThereStays
  <2>6. new \in DOMAIN g /\ (old \in DOMAIN g => g[old] \subseteq g[new])
    BY <1>2, <2>2, <2>3
  <2>7. S!Replaces(g, t, p + 1, from)
    BY <1>1, <1>5, <1>7, <2>6 DEF S!Replaces
  <2> QED BY <2>5, <2>7
<1>8. CASE p = from + 2 /\ Is(s, "drop", t, "properties", "none")
  <2>1. s.op = "drop" /\ <<s.table, s.column>> = old
    BY <1>3, <1>8 DEF Is, Either
  <2>2. DOMAIN g = DOMAIN f \ {old} /\ \A x \in DOMAIN g : g[x] = f[x]
    <3>1. Loses(f, g, <<s.table, s.column>>)
      BY <2>1, DropRuns, Zenon
    <3> QED BY <2>1, <3>1 DEF Loses
  <2>3. ASSUME NEW l \in S!Limits, S!StillThere(f, l) PROVE S!StillThere(g, l)
    <3>1. PICK x \in {l, S!Properties(l[1]), S!Replacing(l[1])} : x \in DOMAIN f /\ l \in f[x]
      BY <2>3 DEF S!StillThere
    <3>2. CASE x # old
      BY <2>2, <3>1, <3>2 DEF S!StillThere
    <3>3. CASE x = old
      <4>1. x = S!Properties(l[1])
        BY <1>1, <3>1, <3>3, LimitsAre, PlacesAre
      <4>2. l[1] = t
        BY <1>1, <3>3, <4>1, PlacesAre
      <4>3. new \in DOMAIN g /\ l \in g[new]
        BY <1>2, <1>4, <1>8, <2>2, <3>1, <3>3
      <4> QED BY <1>1, <4>2, <4>3 DEF S!StillThere
    <3> QED BY <3>2, <3>3
  <2>4. S!Replaces(g, t, p + 1, from)
    BY <1>5, <1>8 DEF S!Replaces
  <2> QED BY <2>3, <2>4
<1>9. CASE p = from + 3 /\ Is(s, "rename", t, "properties_new", "properties")
  <2>1. s.op = "rename" /\ s.op \in Ops /\ <<s.table, s.column>> = new /\ <<s.table, s.to>> = old
    BY <1>3, <1>9 DEF Is, Either, Ops
  <2>2. Can(S!ColumnsOf(f, s.table), s)
    BY <2>1, SucceedsIs
  <2>3. /\ DOMAIN g = (DOMAIN f \ {new}) \cup {old}
        /\ \A x \in DOMAIN g : x # old => g[x] = f[x]
        /\ g[old] = f[new]
    BY <2>1, <2>2, RenameRuns
  <2>4. old \notin DOMAIN f
    <3>1. s.to \notin S!ColumnsOf(f, s.table)
      BY <2>1, <2>2 DEF Can
    <3> QED BY <2>1, <3>1, ColumnsAre
  <2>5. ASSUME NEW l \in S!Limits, S!StillThere(f, l) PROVE S!StillThere(g, l)
    <3>1. PICK x \in {l, S!Properties(l[1]), S!Replacing(l[1])} : x \in DOMAIN f /\ l \in f[x]
      BY <2>5 DEF S!StillThere
    <3>2. CASE x # new
      <4>1. x # old
        BY <2>4, <3>1
      <4>2. x \in DOMAIN g /\ l \in g[x]
        BY <2>3, <3>1, <3>2, <4>1
      <4> QED BY <3>1, <4>2 DEF S!StillThere
    <3>3. CASE x = new
      <4>1. x = S!Replacing(l[1])
        BY <1>1, <3>1, <3>3, LimitsAre, PlacesAre
      <4>2. l[1] = t
        BY <1>1, <3>3, <4>1, PlacesAre
      <4>3. old \in DOMAIN g /\ l \in g[old]
        BY <2>3, <3>1, <3>3
      <4> QED BY <1>1, <4>2, <4>3 DEF S!StillThere
    <3> QED BY <3>2, <3>3
  <2>6. S!Replaces(g, t, p + 1, from)
    BY <1>5, <1>9 DEF S!Replaces
  <2> QED BY <2>5, <2>6
<1> QED BY <1>6, <1>7, <1>8, <1>9 DEF ReplacingStatement

\* Outside the two migrations that move limits, statements create and add columns and drop others.
LEMMA StatementsElsewhere ==
  ASSUME NEW a \in 0..24, a \notin {13, 14}, NEW i \in 1..Len(Up(a)), NEW s, s = Up(a)[i]
  PROVE  \/ s.op = "create" \/ s.op = "add"
         \/ s.op = "drop" /\ s.column \in {"wfm_order_id", "helper_override"}
<1>1. ItemStatement(a, i, s) =>
        \/ s.op = "create" \/ s.op = "add"
        \/ s.op = "drop" /\ s.column \in {"wfm_order_id", "helper_override"}
  BY DEF ItemStatement, Creates, Is, Either
<1>2. RivenStatement(a, i, s) =>
        \/ s.op = "create" \/ s.op = "add"
        \/ s.op = "drop" /\ s.column \in {"wfm_order_id", "helper_override"}
  BY DEF RivenStatement, Creates, Tolerated, Either, Is
<1>3. WishStatement(a, i, s) =>
        \/ s.op = "create" \/ s.op = "add"
        \/ s.op = "drop" /\ s.column \in {"wfm_order_id", "helper_override"}
  BY DEF WishStatement, Creates, Is, Either
<1>4. TransactionStatement(a, i, s) =>
        \/ s.op = "create" \/ s.op = "add"
        \/ s.op = "drop" /\ s.column \in {"wfm_order_id", "helper_override"}
  BY DEF TransactionStatement, Creates, Is, Either
<1>5. StateStatement(a, i, s) =>
        \/ s.op = "create" \/ s.op = "add"
        \/ s.op = "drop" /\ s.column \in {"wfm_order_id", "helper_override"}
  BY DEF StateStatement, Creates, Is, Either
<1>6. EventStatement(a, i, s) =>
        \/ s.op = "create" \/ s.op = "add"
        \/ s.op = "drop" /\ s.column \in {"wfm_order_id", "helper_override"}
  BY DEF EventStatement, Creates, Is, Either
<1>7. EntryStatement(a, i, s) =>
        \/ s.op = "create" \/ s.op = "add"
        \/ s.op = "drop" /\ s.column \in {"wfm_order_id", "helper_override"}
  BY DEF EntryStatement, Creates
<1>8. SettingStatement(a, i, s) =>
        \/ s.op = "create" \/ s.op = "add"
        \/ s.op = "drop" /\ s.column \in {"wfm_order_id", "helper_override"}
  BY DEF SettingStatement, Creates
<1>9. OtherStatement(s) => s.op = "create"
  BY DEF OtherStatement
<1>11. \/ OtherStatement(s) \/ ItemStatement(a, i, s) \/ RivenStatement(a, i, s)
       \/ WishStatement(a, i, s) \/ TransactionStatement(a, i, s) \/ StateStatement(a, i, s)
       \/ EventStatement(a, i, s) \/ EntryStatement(a, i, s) \/ SettingStatement(a, i, s)
  BY EachStatement
<1> QED BY ONLY <1>1, <1>2, <1>3, <1>4, <1>5, <1>6, <1>7, <1>8, <1>9, <1>11

\* A statement that succeeds leaves every limit in the file.
LEMMA LimitsRun ==
  ASSUME NEW a \in 0..24, NEW i \in 1..Len(Up(a)), NEW s, s = Up(a)[i], NEW p, p = 100 * a + i,
         NEW f, S!IsFile(f), NEW limits \in SUBSET S!Limits, S!LimitsAreThere(f, limits, p),
         S!Succeeds(f, s), NEW g, g = S!Run(f, s)
  PROVE  S!LimitsAreThere(g, limits, p + 1)
<1>1. i \in 1..12 /\ p \in Nat /\ p + 1 \in Nat
  BY PositionIs
<1>2. CASE a \notin {13, 14}
  <2>1. \A x : Place(x) => Retains(f, g, x)
    BY <1>2, StatementsElsewhere, PlacesKept
  <2>2. p + 1 \notin (1302..1313) \cup {1402, 1403, 1406, 1407}
    BY <1>1, <1>2
  <2> QED BY <1>1, <2>1, <2>2, LimitsStay
<1>3. CASE a = 13
  <2>1. CASE i = 1
    <3>1. Is(s, "json_set", "stock_item", "minimum_price", "properties")
      BY <1>3, <2>1, UpStatements
    <3>2. p = 1301 /\ p \in 1301..1306
      BY <1>3, <2>1
    <3>3. PICK l0 : l0 = <<"stock_item", "minimum_price">>
      OBVIOUS
    <3>4. l0 \in S!Limits /\ S!CopiedAt(l0) = p
      BY <3>2, <3>3, CopiedAtIs DEF S!Limits
    <3> QED BY <3>1, <3>2, <3>3, <3>4, CopyKeepsLimits
  <2>2. CASE i = 2
    <3>1. Is(s, "json_set", "stock_item", "minimum_profit", "properties")
      BY <1>3, <2>2, UpStatements
    <3>2. p = 1302 /\ p \in 1301..1306
      BY <1>3, <2>2
    <3>3. PICK l0 : l0 = <<"stock_item", "minimum_profit">>
      OBVIOUS
    <3>4. l0 \in S!Limits /\ S!CopiedAt(l0) = p
      BY <3>2, <3>3, CopiedAtIs DEF S!Limits
    <3> QED BY <3>1, <3>2, <3>3, <3>4, CopyKeepsLimits
  <2>3. CASE i = 3
    <3>1. Is(s, "json_set", "stock_item", "minimum_sma", "properties")
      BY <1>3, <2>3, UpStatements
    <3>2. p = 1303 /\ p \in 1301..1306
      BY <1>3, <2>3
    <3>3. PICK l0 : l0 = <<"stock_item", "minimum_sma">>
      OBVIOUS
    <3>4. l0 \in S!Limits /\ S!CopiedAt(l0) = p
      BY <3>2, <3>3, CopiedAtIs DEF S!Limits
    <3> QED BY <3>1, <3>2, <3>3, <3>4, CopyKeepsLimits
  <2>4. CASE i = 4
    <3>1. Is(s, "json_set", "wish_list", "maximum_price", "properties")
      BY <1>3, <2>4, UpStatements
    <3>2. p = 1304 /\ p \in 1301..1306
      BY <1>3, <2>4
    <3>3. PICK l0 : l0 = <<"wish_list", "maximum_price">>
      OBVIOUS
    <3>4. l0 \in S!Limits /\ S!CopiedAt(l0) = p
      BY <3>2, <3>3, CopiedAtIs DEF S!Limits
    <3> QED BY <3>1, <3>2, <3>3, <3>4, CopyKeepsLimits
  <2>5. CASE i = 5
    <3>1. Is(s, "json_set", "wish_list", "minimum_price", "properties")
      BY <1>3, <2>5, UpStatements
    <3>2. p = 1305 /\ p \in 1301..1306
      BY <1>3, <2>5
    <3>3. PICK l0 : l0 = <<"wish_list", "minimum_price">>
      OBVIOUS
    <3>4. l0 \in S!Limits /\ S!CopiedAt(l0) = p
      BY <3>2, <3>3, CopiedAtIs DEF S!Limits
    <3> QED BY <3>1, <3>2, <3>3, <3>4, CopyKeepsLimits
  <2>6. CASE i = 6
    <3>1. Is(s, "json_set", "stock_riven", "minimum_price", "properties")
      BY <1>3, <2>6, UpStatements
    <3>2. p = 1306 /\ p \in 1301..1306
      BY <1>3, <2>6
    <3>3. PICK l0 : l0 = <<"stock_riven", "minimum_price">>
      OBVIOUS
    <3>4. l0 \in S!Limits /\ S!CopiedAt(l0) = p
      BY <3>2, <3>3, CopiedAtIs DEF S!Limits
    <3> QED BY <3>1, <3>2, <3>3, <3>4, CopyKeepsLimits
  <2>7. CASE i = 7
    <3>1. Is(s, "drop", "stock_item", "minimum_price", "none")
      BY <1>3, <2>7, UpStatements
    <3>2. p = 1307 /\ p \in 1307..1312
      BY <1>3, <2>7
    <3>3. PICK l0 : l0 = <<"stock_item", "minimum_price">>
      OBVIOUS
    <3>4. l0 \in S!Limits
      BY <3>2, <3>3 DEF S!Limits
    <3> QED BY <3>1, <3>2, <3>3, <3>4, DropKeepsLimits
  <2>8. CASE i = 8
    <3>1. Is(s, "drop", "stock_item", "minimum_profit", "none")
      BY <1>3, <2>8, UpStatements
    <3>2. p = 1308 /\ p \in 1307..1312
      BY <1>3, <2>8
    <3>3. PICK l0 : l0 = <<"stock_item", "minimum_profit">>
      OBVIOUS
    <3>4. l0 \in S!Limits
      BY <3>2, <3>3 DEF S!Limits
    <3> QED BY <3>1, <3>2, <3>3, <3>4, DropKeepsLimits
  <2>9. CASE i = 9
    <3>1. Is(s, "drop", "stock_item", "minimum_sma", "none")
      BY <1>3, <2>9, UpStatements
    <3>2. p = 1309 /\ p \in 1307..1312
      BY <1>3, <2>9
    <3>3. PICK l0 : l0 = <<"stock_item", "minimum_sma">>
      OBVIOUS
    <3>4. l0 \in S!Limits
      BY <3>2, <3>3 DEF S!Limits
    <3> QED BY <3>1, <3>2, <3>3, <3>4, DropKeepsLimits
  <2>10. CASE i = 10
    <3>1. Is(s, "drop", "stock_riven", "minimum_price", "none")
      BY <1>3, <2>10, UpStatements
    <3>2. p = 1310 /\ p \in 1307..1312
      BY <1>3, <2>10
    <3>3. PICK l0 : l0 = <<"stock_riven", "minimum_price">>
      OBVIOUS
    <3>4. l0 \in S!Limits
      BY <3>2, <3>3 DEF S!Limits
    <3> QED BY <3>1, <3>2, <3>3, <3>4, DropKeepsLimits
  <2>11. CASE i = 11
    <3>1. Is(s, "drop", "wish_list", "minimum_price", "none")
      BY <1>3, <2>11, UpStatements
    <3>2. p = 1311 /\ p \in 1307..1312
      BY <1>3, <2>11
    <3>3. PICK l0 : l0 = <<"wish_list", "minimum_price">>
      OBVIOUS
    <3>4. l0 \in S!Limits
      BY <3>2, <3>3 DEF S!Limits
    <3> QED BY <3>1, <3>2, <3>3, <3>4, DropKeepsLimits
  <2>12. CASE i = 12
    <3>1. Is(s, "drop", "wish_list", "maximum_price", "none")
      BY <1>3, <2>12, UpStatements
    <3>2. p = 1312 /\ p \in 1307..1312
      BY <1>3, <2>12
    <3>3. PICK l0 : l0 = <<"wish_list", "maximum_price">>
      OBVIOUS
    <3>4. l0 \in S!Limits
      BY <3>2, <3>3 DEF S!Limits
    <3> QED BY <3>1, <3>2, <3>3, <3>4, DropKeepsLimits
  <2>13. \/ i = 1 \/ i = 2 \/ i = 3 \/ i = 4 \/ i = 5 \/ i = 6
         \/ i = 7 \/ i = 8 \/ i = 9 \/ i = 10 \/ i = 11 \/ i = 12
    BY ONLY <1>1
  <2> QED BY <2>1, <2>2, <2>3, <2>4, <2>5, <2>6, <2>7, <2>8, <2>9, <2>10, <2>11, <2>12, <2>13
<1>4. CASE a = 14
  <2>1. Len(Up(a)) = 8
    BY <1>4, UpLengths, Zenon
  <2>2. i \in 1..8
    BY <2>1
  <2>3. CASE i \in 1..4
    <3>1. ReplacingStatement(s, "stock_riven", p, 1401)
      <4>1. i = 1 \/ i = 2 \/ i = 3 \/ i = 4
        BY <2>3
      <4> QED BY <1>4, <4>1, UpStatements DEF ReplacingStatement
    <3>2. /\ S!Replaces(g, "stock_riven", p + 1, 1401)
          /\ \A l \in S!Limits : S!StillThere(f, l) => S!StillThere(g, l)
      <4>1. S!Replaces(f, "stock_riven", p, 1401) /\ 1401 \in Nat
        BY DEF S!LimitsAreThere
      <4> QED BY <1>1, <3>1, <4>1, ReplacingKeeps
    <3>3. p + 1 \notin 1302..1313 /\ p + 1 \notin {1406, 1407}
      BY <1>1, <1>4, <2>3
    <3> QED BY <1>1, <3>2, <3>3, FarFromLimits DEF S!LimitsAreThere
  <2>4. CASE i \in 5..8
    <3>1. ReplacingStatement(s, "wish_list", p, 1405)
      <4>1. i = 5 \/ i = 6 \/ i = 7 \/ i = 8
        BY <2>4
      <4> QED BY <1>4, <4>1, UpStatements DEF ReplacingStatement
    <3>2. /\ S!Replaces(g, "wish_list", p + 1, 1405)
          /\ \A l \in S!Limits : S!StillThere(f, l) => S!StillThere(g, l)
      <4>1. S!Replaces(f, "wish_list", p, 1405) /\ 1405 \in Nat
        BY DEF S!LimitsAreThere
      <4> QED BY <1>1, <3>1, <4>1, ReplacingKeeps
    <3>3. p + 1 \notin 1302..1313 /\ p + 1 \notin {1402, 1403}
      BY <1>1, <1>4, <2>4
    <3> QED BY <1>1, <3>2, <3>3, FarFromLimits DEF S!LimitsAreThere
  <2> QED BY <2>2, <2>3, <2>4
<1> QED BY <1>2, <1>3, <1>4

\* Between statements they stay where they are.
LEMMA LimitsWait ==
  ASSUME NEW f, NEW limits \in SUBSET S!Limits, NEW p, S!LimitsAreThere(f, limits, p),
         NEW q \in Nat, q \notin (1302..1313) \cup {1402, 1403, 1406, 1407}
  PROVE  S!LimitsAreThere(f, limits, q)
<1>1. \A x : Place(x) => Retains(f, f, x)
  BY DEF Retains
<1> QED BY <1>1, LimitsStay

\* No migration is moving a limit at p.
BetweenCopies(p) == p \notin (1302..1313) \cup {1402, 1403, 1406, 1407}

\* The limits the release has a place for, and the file once they are saved.
KeptNow == {l \in S!Limits : S!Home(l) \in DOMAIN x5}
SavedNow == [x \in DOMAIN x5 |-> x5[x] \cup {l \in KeptNow : S!Home(l) = x}]

\* The limits a user sets are in the file.
LEMMA LimitsSaved ==
  ASSUME S!IsFile(x5), NEW limits \in SUBSET S!Limits, NEW p \in Nat,
         BetweenCopies(p), S!LimitsAreThere(x5, limits, p)
  PROVE  /\ S!IsFile(SavedNow) /\ DOMAIN SavedNow = DOMAIN x5
         /\ limits \cup KeptNow \in SUBSET S!Limits
         /\ S!LimitsAreThere(SavedNow, limits \cup KeptNow, p)
<1>0. PICK kept, g : kept = KeptNow /\ g = SavedNow
  OBVIOUS
<1>a. /\ kept = {l \in S!Limits : S!Home(l) \in DOMAIN x5}
      /\ g = [x \in DOMAIN x5 |-> x5[x] \cup {l \in kept : S!Home(l) = x}]
      /\ p \notin (1302..1313) \cup {1402, 1403, 1406, 1407}
  BY <1>0 DEF KeptNow, SavedNow, BetweenCopies
<1> USE <1>a
<1>1. S!IsFile(g) /\ DOMAIN g = DOMAIN x5
  BY DEF S!IsFile
<1>2. \A x \in DOMAIN x5 : x5[x] \subseteq g[x]
  OBVIOUS
<1>3. \A x : Place(x) => Retains(x5, g, x)
  BY <1>1, <1>2 DEF Retains
<1>4. S!LimitsAreThere(g, limits, p)
  BY <1>3, LimitsStay
<1>5. ASSUME NEW l \in kept PROVE S!StillThere(g, l)
  <2>1. l \in S!Limits /\ S!Home(l) \in DOMAIN x5
    OBVIOUS
  <2>2. PICK x : x = S!Home(l)
    OBVIOUS
  <2>3. x \in DOMAIN g /\ l \in g[x]
    BY <1>1, <2>1, <2>2
  <2>4. x \in {l, S!Properties(l[1])}
    BY <2>2 DEF S!Home, S!Properties
  <2> QED BY <2>3, <2>4 DEF S!StillThere
<1>6. limits \cup kept \in SUBSET S!Limits
  OBVIOUS
<1>7. S!LimitsAreThere(g, limits \cup kept, p)
  BY <1>4, <1>5 DEF S!LimitsAreThere
<1>8. S!IsFile(SavedNow) /\ DOMAIN SavedNow = DOMAIN x5
  BY ONLY <1>0, <1>1
<1>9. limits \cup KeptNow \in SUBSET S!Limits
  BY ONLY <1>0, <1>6
<1>10. S!LimitsAreThere(SavedNow, limits \cup KeptNow, p)
  BY ONLY <1>0, <1>7
<1> QED BY <1>8, <1>9, <1>10

-----------------------------------------------------------------------------
(* The upgrades' invariant.                                                 *)

\* No migration's mark comes before a table's making.
LEMMA EmptyFile ==
  ASSUME NEW f, \A t \in Tables8 \ {"stock_riven"} : S!ColumnsOf(f, t) = {},
         S!ColumnsOf(f, "stock_riven") \in {{}, Up(2)[1].column \cup {"wfm_order_id"}}
  PROVE  S!ColumnsAreThere(f, 1, TRUE)
<1>1. S!StockItems({}, 1, TRUE) /\ S!WishLists({}, 1, TRUE)
  BY DEF S!StockItems, S!WishLists, S!Made, S!Alive, S!Unborn
<1>2. S!Transactions({}, 1, TRUE) /\ S!TraderStates({}, 1, TRUE) /\ S!HelperEvents({}, 1, TRUE)
  BY DEF S!Transactions, S!TraderStates, S!HelperEvents, S!Made, S!Unborn
<1>3. S!TradeEntries({}, 1) /\ S!Settings({}, 1)
  BY DEF S!TradeEntries, S!Settings, S!Made
<1>4. S!StockRivens(S!ColumnsOf(f, "stock_riven"), 1, TRUE)
  BY CreatedIs DEF S!StockRivens, S!Made, S!Alive, S!Unborn
<1>5. \A t \in {"stock_item", "wish_list", "transaction", "trader_state", "helper_events", "trade_entry", "setting"} :
        S!ColumnsOf(f, t) = {}
  BY DEF Tables8
<1> QED BY <1>1, <1>2, <1>3, <1>4, <1>5, TablesAre

\* A file of the desktop program is like one whose riven table was made and nothing else.
LEMMA LegacyIs ==
  /\ S!IsFile(S!Legacy)
  /\ \A t : t # "stock_riven" => S!ColumnsOf(S!Legacy, t) = {}
  /\ S!ColumnsOf(S!Legacy, "stock_riven") = Up(2)[1].column \cup {"wfm_order_id"}
<1>1. PICK e : e = <<>>
  OBVIOUS
<1>2. S!IsFile(e) /\ DOMAIN e = {}
  BY <1>1 DEF S!IsFile
<1>3. \A t : S!ColumnsOf(e, t) = {}
  BY <1>2 DEF S!ColumnsOf
<1>4. PICK s : s = Up(2)[1]
  OBVIOUS
<1>5. s.op = "create" /\ s.table = "stock_riven"
  BY <1>4, UpCreations DEF Creates
<1>6. PICK h : h = S!Run(e, s)
  OBVIOUS
<1>7. S!IsFile(h) /\ OthersStay(e, h, "stock_riven") /\ Makes(S!ColumnsOf(e, "stock_riven"), s, S!ColumnsOf(h, "stock_riven"))
  BY <1>2, <1>5, <1>6, CreateRuns
<1>8. S!ColumnsOf(h, "stock_riven") = s.column /\ \A t : t # "stock_riven" => S!ColumnsOf(h, t) = {}
  BY <1>3, <1>5, <1>7 DEF Makes, OthersStay
<1>9. PICK x0 : x0 = <<"stock_riven", "wfm_order_id">>
  OBVIOUS
<1>10. S!Legacy = S!With(h, {x0}, {})
  BY <1>1, <1>4, <1>6, <1>9 DEF S!Legacy, Up, S!migrations
<1>11. Pairs({x0})
  BY <1>9 DEF Pairs
<1>12. Widens(h, {x0}, {}, S!Legacy)
  BY <1>7, <1>10, <1>11, WithIs, Zenon
<1>13. S!IsFile(S!Legacy) /\ DOMAIN S!Legacy = DOMAIN h \cup {x0}
  BY <1>12 DEF Widens
<1>14. \A t, c : <<t, c>> = x0 <=> t = "stock_riven" /\ c = "wfm_order_id"
  BY <1>9
<1>15. \A t, c : <<t, c>> \in DOMAIN S!Legacy <=> <<t, c>> \in DOMAIN h \/ (t = "stock_riven" /\ c = "wfm_order_id")
  BY <1>13, <1>14
<1>16. \A t, c : c \in S!ColumnsOf(S!Legacy, t) <=> c \in S!ColumnsOf(h, t) \/ (t = "stock_riven" /\ c = "wfm_order_id")
  BY <1>7, <1>13, <1>15, ColumnsAre
<1>17. ASSUME NEW t, t # "stock_riven" PROVE S!ColumnsOf(S!Legacy, t) = {}
  <2>1. S!ColumnsOf(h, t) = {}
    BY <1>8, <1>17
  <2>2. \A c : c \notin S!ColumnsOf(S!Legacy, t)
    BY <1>16, <1>17, <2>1
  <2> QED BY <2>2
<1>18. S!ColumnsOf(S!Legacy, "stock_riven") = s.column \cup {"wfm_order_id"}
  <2>1. \A c : c \in S!ColumnsOf(S!Legacy, "stock_riven") <=> c \in s.column \/ c = "wfm_order_id"
    BY <1>8, <1>16
  <2> QED BY <2>1
<1> QED BY <1>4, <1>13, <1>17, <1>18

\* A new file, and one of the desktop program, fit.
LEMMA SchemaInit ==
  ASSUME S!Init
  PROVE  S!SchemaInv
<1> USE DEF S!Init
<1>1. x1 \in 0..25 /\ x2 = "off" /\ x3 = 0 /\ x4 = 1 /\ x7 = {} /\ x8 = FALSE /\ x9 = FALSE
  BY SchemaAssumption
<1>2. S!IsFile(x5) /\ S!ColumnsAreThere(x5, 1, TRUE)
  <2>1. CASE x5 = <<>>
    <3>1. S!IsFile(x5) /\ DOMAIN x5 = {}
      BY <2>1 DEF S!IsFile
    <3>2. \A t : S!ColumnsOf(x5, t) = {}
      BY <3>1 DEF S!ColumnsOf
    <3> QED BY <3>1, <3>2, EmptyFile
  <2>2. CASE x5 = S!Legacy
    BY <2>2, LegacyIs, EmptyFile
  <2> QED BY <2>1, <2>2
<1>3. S!LimitsAreThere(x5, {}, 1)
  <2>1. 1 \in Nat /\ 1 \notin 1302..1313 /\ 1 \notin {1402, 1403} /\ 1 \notin {1406, 1407}
    OBVIOUS
  <2> QED BY <2>1, FarFromLimits DEF S!LimitsAreThere
<1>4. S!Position = 1
  BY <1>1 DEF S!Position
<1>5. S!SchemaTypes
  <2>1. x2 \in {"off", "starting", "failed", "ready"} /\ x2 # "ready" /\ x2 # "starting"
    BY <1>1
  <2>2. x3 \in 0..x1 /\ x4 \in 1..13 /\ x8 \in BOOLEAN
    <3>1. x1 \in 0..25 /\ x3 = 0 /\ x4 = 1
      BY <1>1
    <3>2. x3 \in 0..x1 /\ x4 \in 1..13
      BY ONLY <3>1
    <3>3. x8 \in BOOLEAN
      BY <1>1, Zenon
    <3> QED BY <3>2, <3>3
  <2>3. x7 \subseteq S!Limits
    BY <1>1
  <2> HIDE DEF S!Init
  <2> QED BY <1>1, <1>2, <2>1, <2>2, <2>3 DEF S!SchemaTypes
<1>6. S!OnlyInterruptedStartsFail
  BY <1>1 DEF S!OnlyInterruptedStartsFail
<1>7. ~x8 = TRUE
  BY <1>1
<1> QED BY <1>1, <1>2, <1>3, <1>4, <1>5, <1>6, <1>7 DEF S!SchemaInv

\* What the invariant says of a file at a position.
FileFits(f, limits, p, fresh) ==
  /\ S!IsFile(f) /\ limits \in SUBSET S!Limits
  /\ S!ColumnsAreThere(f, p, fresh) /\ S!LimitsAreThere(f, limits, p)

\* What the invariant says before the operator goes back.
LEMMA InvFits ==
  ASSUME S!SchemaInv, ~x9
  PROVE  /\ S!SchemaTypes /\ S!OnlyInterruptedStartsFail
         /\ FileFits(x5, x7, S!Position, ~x8)
BY DEF S!SchemaInv, S!SchemaTypes, FileFits

\* And what it takes to show it again.
LEMMA FitsInv ==
  ASSUME S!SchemaTypes', S!OnlyInterruptedStartsFail', NEW p, S!Position' = p, FileFits(x5', x7', p, ~x8')
  PROVE  S!SchemaInv'
BY DEF S!SchemaInv, S!SchemaTypes, FileFits

\* A start that dies or fails goes back to the first statement of its migration.
LEMMA FitsBack ==
  ASSUME NEW f, NEW limits, NEW a \in 0..25, NEW p \in Nat, 100 * a + 1 <= p, NEW fresh \in BOOLEAN,
         FileFits(f, limits, p, fresh)
  PROVE  FileFits(f, limits, 100 * a + 1, FALSE)
<1>1. PICK q : q = 100 * a + 1
  OBVIOUS
<1>2. q \in Nat /\ q <= p /\ q \notin (1302..1313) \cup {1402, 1403, 1406, 1407}
  BY <1>1
<1>3. S!ColumnsAreThere(f, q, FALSE)
  <2>1. S!ColumnsAreThere(f, p, fresh)
    BY DEF FileFits
  <2>2. q \in Nat /\ q <= p
    BY <1>2
  <2> QED BY <2>1, <2>2, ColumnsQuiet
<1>4. S!LimitsAreThere(f, limits, q)
  BY <1>2, LimitsWait DEF FileFits
<1> QED BY <1>1, <1>3, <1>4 DEF FileFits

\* Where the file is.
LEMMA PositionStays ==
  ASSUME S!SchemaTypes
  PROVE  /\ x2 # "starting" => S!Position = 100 * x3 + 1
         /\ x2 = "starting" => S!Position = 100 * x3 + x4
         /\ S!Position \in Nat /\ 100 * x3 + 1 <= S!Position /\ x3 \in 0..25
<1>1. x3 \in 0..25 /\ x4 \in 1..13
  BY DEF S!SchemaTypes
<1> QED BY <1>1 DEF S!Position

\* A statement that runs, fails and is tolerated, or fails the start, keeps the invariant
\* (Execute).
LEMMA ExecuteFits ==
  ASSUME S!SchemaInv, S!Execute, ~x9'
  PROVE  S!SchemaInv'
<1> USE DEF S!Execute
<1>1. ~x9 /\ UNCHANGED <<x1, x3, x6, x7, x8, x9>>
  OBVIOUS
<1>2. S!SchemaTypes /\ S!OnlyInterruptedStartsFail /\ FileFits(x5, x7, S!Position, ~x8)
  BY <1>1, InvFits
<1>3. x2 = "starting" /\ x3 < x1 /\ x1 \in 0..25 /\ x3 \in 0..x1 /\ x4 \in 1..13 /\ x8 \in BOOLEAN
  BY <1>2 DEF S!Busy, S!SchemaTypes
<1>4. PICK a, i, s, p : a = x3 /\ i = x4 /\ s = Up(a)[i] /\ p = 100 * a + i
  OBVIOUS
<1>5. S!Statements = Up(a)
  BY <1>3, <1>4 DEF S!Statements, Up
<1>6. a \in 0..24
  BY <1>3, <1>4
<1>7. i \in 1..Len(Up(a))
  BY <1>3, <1>4, <1>5, <1>6, UpsAreShort
<1>8. S!Position = p /\ p \in Nat /\ 100 * a + 1 <= p /\ i \in 1..12
  <2>1. p = 100 * a + i
    BY <1>4
  <2>2. p \in Nat /\ i \in 1..12
    BY <1>6, <1>7, <2>1, PositionIs
  <2>3. S!Position = p
    BY <1>2, <1>3, <1>4, PositionStays
  <2>4. 100 * a + 1 <= p
    BY ONLY <1>6, <2>1, <2>2
  <2> QED BY <2>2, <2>3, <2>4
<1>9. FileFits(x5, x7, p, ~x8)
  BY <1>2, <1>8
<1>10. CASE S!Succeeds(x5, s)
  <2>1. x5' = S!Run(x5, s) /\ x4' = i + 1 /\ x2' = x2
    BY <1>4, <1>5, <1>10
  <2>2. S!IsFile(x5') /\ S!ColumnsAreThere(x5', p + 1, ~x8)
    <3>1. PICK fresh : fresh = (~x8)
      OBVIOUS
    <3>2. fresh \in BOOLEAN
      BY <1>3, <3>1
    <3>3. S!IsFile(x5) /\ S!ColumnsAreThere(x5, p, fresh)
      BY <1>9, <3>1 DEF FileFits
    <3>4. StatementAt(a, i, s, p)
      BY <1>4, <1>7 DEF StatementAt
    <3>5. PICK g : g = S!Run(x5, s)
      OBVIOUS
    <3> HIDE DEF S!Execute
    <3>6. S!IsFile(g) /\ S!ColumnsAreThere(g, p + 1, fresh)
      BY <1>6, <1>10, <3>2, <3>3, <3>4, <3>5, ColumnsRun
    <3> QED BY <2>1, <3>1, <3>5, <3>6
  <2>3. S!LimitsAreThere(x5', x7, p + 1)
    <3>1. S!IsFile(x5) /\ x7 \in SUBSET S!Limits /\ S!LimitsAreThere(x5, x7, p)
      BY <1>9 DEF FileFits
    <3>2. s = Up(a)[i] /\ p = 100 * a + i
      BY <1>4
    <3>3. PICK g : g = S!Run(x5, s)
      OBVIOUS
    <3> HIDE DEF S!Execute
    <3>4. S!LimitsAreThere(g, x7, p + 1)
      BY <1>6, <1>7, <1>10, <3>1, <3>2, <3>3, LimitsRun
    <3> QED BY <2>1, <3>3, <3>4
  <2>4. FileFits(x5', x7', p + 1, ~x8')
    BY <1>1, <1>9, <2>2, <2>3 DEF FileFits
  <2>5. S!Position' = p + 1
    BY <1>1, <1>3, <1>4, <1>8, <2>1 DEF S!Position
  <2>6. S!SchemaTypes'
    <3>1. x4' \in 1..13 /\ x4' <= Len(Up(a)) + 1
      BY <1>7, <1>8, <2>1, UpsAreShort
    <3> QED BY <1>1, <1>2, <1>3, <1>4, <2>1, <2>2, <3>1 DEF S!SchemaTypes, Up
  <2>7. S!OnlyInterruptedStartsFail'
    BY <1>3, <2>1 DEF S!OnlyInterruptedStartsFail
  <2> QED BY <2>4, <2>5, <2>6, <2>7, FitsInv
<1>11. CASE ~S!Succeeds(x5, s) /\ s.tolerant
  <2>1. x5' = x5 /\ x4' = i + 1 /\ x2' = x2
    BY <1>4, <1>5, <1>11
  <2>2. S!ColumnsAreThere(x5, p + 1, ~x8)
    <3>1. PICK fresh : fresh = (~x8)
      OBVIOUS
    <3>2. fresh \in BOOLEAN
      BY <1>3, <3>1
    <3>3. S!IsFile(x5) /\ S!ColumnsAreThere(x5, p, fresh)
      BY <1>9, <3>1 DEF FileFits
    <3>4. StatementAt(a, i, s, p)
      BY <1>4, <1>7 DEF StatementAt
    <3> HIDE DEF S!Execute
    <3>5. S!ColumnsAreThere(x5, p + 1, fresh)
      BY <1>6, <1>11, <3>2, <3>3, <3>4, ColumnsTolerate
    <3> QED BY <3>1, <3>5
  <2>3. S!LimitsAreThere(x5, x7, p + 1)
    <3>1. a = 5
      BY <1>4, <1>6, <1>7, <1>11, StatementKinds
    <3>2. PICK q : q = p + 1
      OBVIOUS
    <3>3. q \in Nat /\ q \notin (1302..1313) \cup {1402, 1403, 1406, 1407}
      <4>1. p = 500 + i /\ i \in 1..12
        BY <1>4, <1>8, <3>1
      <4> QED BY ONLY <3>2, <4>1
    <3>4. x7 \in SUBSET S!Limits /\ S!LimitsAreThere(x5, x7, p)
      BY <1>9 DEF FileFits
    <3> HIDE DEF S!Execute
    <3>5. S!LimitsAreThere(x5, x7, q)
      BY <3>3, <3>4, LimitsWait
    <3> QED BY <3>2, <3>5
  <2>4. FileFits(x5', x7', p + 1, ~x8')
    BY <1>1, <1>9, <2>1, <2>2, <2>3 DEF FileFits
  <2>5. S!Position' = p + 1
    BY <1>1, <1>3, <1>4, <1>8, <2>1 DEF S!Position
  <2>6. S!SchemaTypes'
    <3>1. x4' \in 1..13 /\ x4' <= Len(Up(a)) + 1
      BY <1>7, <1>8, <2>1, UpsAreShort
    <3> QED BY <1>1, <1>2, <1>3, <1>4, <2>1, <3>1 DEF S!SchemaTypes, Up
  <2>7. S!OnlyInterruptedStartsFail'
    BY <1>3, <2>1 DEF S!OnlyInterruptedStartsFail
  <2> QED BY <2>4, <2>5, <2>6, <2>7, FitsInv
<1>12. CASE ~S!Succeeds(x5, s) /\ ~s.tolerant
  <2>1. x5' = x5 /\ x4' = x4 /\ x2' = "failed"
    BY <1>4, <1>5, <1>12
  <2>2. x8
    <3> SUFFICES ASSUME ~x8 PROVE FALSE
      OBVIOUS
    <3>1. (~x8) = TRUE
      OBVIOUS
    <3>2. S!IsFile(x5) /\ S!ColumnsAreThere(x5, p, TRUE)
      BY <1>9, <3>1 DEF FileFits
    <3>3. s = Up(a)[i] /\ p = 100 * a + i
      BY <1>4
    <3> HIDE DEF S!Execute
    <3>4. S!Succeeds(x5, s) \/ s.tolerant
      BY <1>6, <1>7, <3>2, <3>3, ColumnsCan
    <3> QED BY <1>12, <3>4
  <2>3. FileFits(x5, x7, 100 * a + 1, FALSE)
    <3>1. PICK fresh : fresh = (~x8)
      OBVIOUS
    <3>2. fresh \in BOOLEAN
      BY <1>3, <3>1
    <3>3. FileFits(x5, x7, p, fresh)
      BY <1>9, <3>1
    <3>4. a \in 0..25
      BY <1>6
    <3> HIDE DEF S!Execute
    <3> QED BY <1>8, <3>2, <3>3, <3>4, FitsBack
  <2>4. (~x8') = FALSE
    BY <1>1, <2>2
  <2>5. S!Position' = 100 * a + 1
    BY <1>1, <1>4, <2>1 DEF S!Position
  <2>6. S!SchemaTypes'
    BY <1>1, <1>2, <2>1 DEF S!SchemaTypes
  <2>7. S!OnlyInterruptedStartsFail'
    BY <1>1, <2>2 DEF S!OnlyInterruptedStartsFail
  <2>8. FileFits(x5', x7', 100 * a + 1, ~x8')
    BY <1>1, <2>1, <2>3, <2>4
  <2> QED BY <2>5, <2>6, <2>7, <2>8, FitsInv
<1> QED BY <1>10, <1>11, <1>12

\* So does noting a migration (Noted).
LEMMA NotedFits ==
  ASSUME S!SchemaInv, S!Noted, ~x9'
  PROVE  S!SchemaInv'
<1> USE DEF S!Noted
<1>1. ~x9 /\ UNCHANGED <<x1, x5, x6, x7, x8, x9>>
  OBVIOUS
<1>2. S!SchemaTypes /\ S!OnlyInterruptedStartsFail /\ FileFits(x5, x7, S!Position, ~x8)
  BY <1>1, InvFits
<1>3. x2 = "starting" /\ x3 < x1 /\ x1 \in 0..25 /\ x3 \in 0..x1 /\ x4 \in 1..13 /\ x8 \in BOOLEAN
  BY <1>2 DEF S!Busy, S!SchemaTypes
<1>4. PICK a : a = x3
  OBVIOUS
<1>5. a \in 0..24 /\ S!Statements = Up(a)
  <2>1. a \in 0..24
    BY <1>3, <1>4
  <2>2. S!Statements = Up(a)
    BY <1>3, <1>4 DEF S!Statements, Up
  <2> QED BY <2>1, <2>2
<1>6. PICK l : l = Len(Up(a))
  OBVIOUS
<1>7. l \in 1..12
  BY <1>5, <1>6, UpsAreShort
<1>8. x4 = l + 1
  <2>1. x4 > l
    BY <1>5, <1>6
  <2>2. x4 <= l + 1
    BY <1>2, <1>3, <1>4, <1>6 DEF S!SchemaTypes, Up
  <2> QED BY <1>3, <1>7, <2>1, <2>2
<1>9. x4' = 1 /\ x3' = a + 1 /\ x2' = "starting"
  BY <1>3, <1>4
<1>10. PICK p, q : p = 100 * a + Len(Up(a)) + 1 /\ q = 100 * (a + 1) + 1
  OBVIOUS
<1>11. S!Position = p
  BY <1>3, <1>4, <1>5, <1>6, <1>7, <1>8, <1>10 DEF S!Position
<1>12. /\ p \in Nat /\ q \in Nat
       /\ SameSide(p, q, ItemMarks) /\ SameSide(p, q, RivenMarks) /\ SameSide(p, q, WishMarks)
       /\ SameSide(p, q, TransactionMarks) /\ SameSide(p, q, StateMarks) /\ SameSide(p, q, EventMarks)
       /\ SameSide(p, q, EntryMarks) /\ SameSide(p, q, SettingMarks)
  <2>1. a \in 0..24
    BY <1>5
  <2>2. NotedAt(a, p, q)
    BY <1>10 DEF NotedAt
  <2> HIDE DEF S!Noted
  <2>3. Passes(p, q)
    BY <2>1, <2>2, NotedIsQuiet
  <2> QED BY <2>3 DEF Passes
<1>13. S!ColumnsAreThere(x5, q, ~x8)
  <2>1. PICK fresh : fresh = (~x8)
    OBVIOUS
  <2>2. fresh \in BOOLEAN
    BY <1>3, <2>1
  <2>3. S!ColumnsAreThere(x5, p, fresh)
    BY <1>2, <1>11, <2>1 DEF FileFits
  <2> HIDE DEF S!Noted
  <2>4. S!ColumnsAreThere(x5, q, fresh)
    BY <1>12, <2>2, <2>3, ColumnsQuiet
  <2> QED BY <2>1, <2>4
<1>14. S!LimitsAreThere(x5, x7, q)
  <2>1. q \notin (1302..1313) \cup {1402, 1403, 1406, 1407}
    BY <1>5, <1>10
  <2> QED BY <1>2, <1>12, <2>1, LimitsWait DEF FileFits
<1>15. FileFits(x5', x7', q, ~x8')
  BY <1>1, <1>2, <1>13, <1>14 DEF FileFits
<1>16. S!Position' = q
  BY <1>5, <1>9, <1>10 DEF S!Position
<1>17. S!SchemaTypes'
  <2>1. x3' \in 0..x1
    BY <1>3, <1>4, <1>9
  <2>2. x3' < x1 => 1 <= Len(Up(x3')) + 1
    <3> SUFFICES ASSUME x3' < x1 PROVE 1 <= Len(Up(x3')) + 1
      OBVIOUS
    <3>1. PICK b : b = x3'
      OBVIOUS
    <3>2. b \in 0..24
      BY <1>3, <2>1, <3>1
    <3>3. Len(Up(b)) \in 1..12
      BY <3>2, UpsAreShort
    <3>4. 1 <= Len(Up(b)) + 1
      BY <3>3
    <3> QED BY <3>1, <3>4
  <2> QED BY <1>1, <1>2, <1>3, <1>9, <2>1, <2>2 DEF S!SchemaTypes, Up
<1>18. S!OnlyInterruptedStartsFail'
  BY <1>9 DEF S!OnlyInterruptedStartsFail
<1> QED BY <1>15, <1>16, <1>17, <1>18, FitsInv

\* So do the user's new limits (Save).
LEMMA SaveFits ==
  ASSUME S!SchemaInv, S!Save, ~x9'
  PROVE  S!SchemaInv'
<1> USE DEF S!Save
<1>1. ~x9 /\ UNCHANGED <<x1, x2, x3, x4, x6, x8, x9>> /\ x2 = "ready"
  OBVIOUS
<1>2. S!SchemaTypes /\ S!OnlyInterruptedStartsFail /\ FileFits(x5, x7, S!Position, ~x8)
  BY <1>1, InvFits
<1>4. x7' = x7 \cup KeptNow /\ x5' = SavedNow
  BY DEF KeptNow, SavedNow
<1>5. PICK p : p = S!Position
  OBVIOUS
<1>6. p = 100 * x3 + 1 /\ x3 \in 0..25 /\ S!Position' = p
  BY <1>1, <1>2, <1>5, PositionStays DEF S!Position
<1>7. p \in Nat /\ BetweenCopies(p)
  BY <1>6 DEF BetweenCopies
<1>8. /\ S!IsFile(x5') /\ DOMAIN x5' = DOMAIN x5
      /\ x7' \in SUBSET S!Limits
      /\ S!LimitsAreThere(x5', x7', p)
  <2>1. S!IsFile(x5) /\ x7 \in SUBSET S!Limits /\ S!LimitsAreThere(x5, x7, p)
    BY <1>2, <1>5 DEF FileFits
  <2> HIDE DEF S!Save
  <2>2. /\ S!IsFile(SavedNow) /\ DOMAIN SavedNow = DOMAIN x5
        /\ x7 \cup KeptNow \in SUBSET S!Limits
        /\ S!LimitsAreThere(SavedNow, x7 \cup KeptNow, p)
    BY <1>7, <2>1, LimitsSaved
  <2> QED BY <1>4, <2>2
<1>9. \A t : S!ColumnsOf(x5', t) = S!ColumnsOf(x5, t)
  BY <1>8 DEF S!ColumnsOf
<1>10. S!ColumnsAreThere(x5', p, ~x8)
  BY <1>2, <1>5, <1>9 DEF FileFits, S!ColumnsAreThere
<1>11. FileFits(x5', x7', p, ~x8')
  BY <1>1, <1>8, <1>10 DEF FileFits
<1>12. S!SchemaTypes'
  BY <1>1, <1>2, <1>8 DEF S!SchemaTypes
<1>13. S!OnlyInterruptedStartsFail'
  BY <1>1 DEF S!OnlyInterruptedStartsFail
<1> QED BY <1>6, <1>11, <1>12, <1>13, FitsInv

\* So does a process that dies in a start (Crash).
LEMMA CrashFits ==
  ASSUME S!SchemaInv, S!Crash, ~x9'
  PROVE  S!SchemaInv'
<1> USE DEF S!Crash
<1>1. ~x9 /\ UNCHANGED <<x1, x3, x4, x5, x6, x7, x9>> /\ x2' = "off" /\ x8' = (x8 \/ x4 > 1)
  OBVIOUS
<1>2. S!SchemaTypes /\ S!OnlyInterruptedStartsFail /\ FileFits(x5, x7, S!Position, ~x8)
  BY <1>1, InvFits
<1>3. x2 = "starting" /\ x3 \in 0..25 /\ x4 \in 1..13 /\ x8 \in BOOLEAN
  BY <1>2 DEF S!SchemaTypes
<1>4. PICK a, p : a = x3 /\ p = S!Position
  OBVIOUS
<1>5. p = 100 * a + x4 /\ p \in Nat /\ 100 * a + 1 <= p /\ a \in 0..25
  BY <1>2, <1>3, <1>4, PositionStays
<1>6. S!Position' = 100 * a + 1
  BY <1>1, <1>4 DEF S!Position
<1>7. FileFits(x5', x7', 100 * a + 1, ~x8')
  <2>1. CASE x4 = 1
    <3>1. x8' = x8 /\ p = 100 * a + 1
      BY <1>1, <1>3, <1>5, <2>1
    <3> QED BY <1>1, <1>2, <1>4, <3>1
  <2>2. CASE x4 > 1
    <3>1. (~x8') = FALSE
      BY <1>1, <2>2
    <3>2. FileFits(x5, x7, 100 * a + 1, FALSE)
      BY <1>2, <1>3, <1>4, <1>5, FitsBack
    <3> QED BY <1>1, <3>1, <3>2
  <2> QED BY <1>3, <2>1, <2>2
<1>8. S!SchemaTypes'
  BY <1>1, <1>2, <1>3 DEF S!SchemaTypes
<1>9. S!OnlyInterruptedStartsFail'
  BY <1>1 DEF S!OnlyInterruptedStartsFail
<1> QED BY <1>6, <1>7, <1>8, <1>9, FitsInv

\* The other steps leave the file, and how far it is, alone.
LEMMA OthersFit ==
  ASSUME S!SchemaInv, S!Install \/ S!connect \/ S!Ready \/ S!Stop, ~x9'
  PROVE  S!SchemaInv'
<1>1. ~x9 /\ UNCHANGED <<x3, x5, x7, x8, x9>>
  BY DEF S!Install, S!connect, S!Ready, S!Stop
<1>2. S!SchemaTypes /\ S!OnlyInterruptedStartsFail /\ FileFits(x5, x7, S!Position, ~x8)
  BY <1>1, InvFits
<1>3. PICK p : p = S!Position
  OBVIOUS
<1>4. FileFits(x5', x7', p, ~x8')
  BY <1>1, <1>2, <1>3
<1>5. p = 100 * x3 + 1 /\ S!Position' = p
  <2>1. CASE S!Install \/ S!connect \/ S!Stop
    <3>1. x2 # "starting" /\ (x2' # "starting" \/ x4' = 1)
      BY <2>1 DEF S!Install, S!connect, S!Stop
    <3>2. p = 100 * x3 + 1
      BY <1>2, <1>3, <3>1, PositionStays
    <3> QED BY <1>1, <3>1, <3>2 DEF S!Position
  <2>2. CASE S!Ready
    <3>1. x2 = "starting" /\ x3 = x1 /\ x2' # "starting"
      BY <2>2 DEF S!Ready
    <3>2. x4 = 1
      BY <1>2, <3>1 DEF S!SchemaTypes
    <3>3. p = 100 * x3 + 1
      BY <1>2, <1>3, <3>1, <3>2, PositionStays
    <3> QED BY <1>1, <3>1, <3>3 DEF S!Position
  <2> QED BY <2>1, <2>2
<1>6. S!SchemaTypes' /\ S!OnlyInterruptedStartsFail'
  <2>1. CASE S!Install
    <3>1. x1' \in 0..25 /\ x1' > x1 /\ x2 = "off" /\ x2' = "off" /\ x4' = x4
      BY <2>1, SchemaAssumption DEF S!Install
    <3>2. x1 \in 0..25 /\ x3 \in 0..x1
      BY <1>2 DEF S!SchemaTypes
    <3>3. x3' \in 0..x1'
      BY <1>1, <3>1, <3>2
    <3> QED BY <1>1, <1>2, <3>1, <3>3 DEF S!SchemaTypes, S!OnlyInterruptedStartsFail
  <2>2. CASE S!connect
    <3>1. x2' = "starting" /\ x4' = 1 /\ x1' = x1
      BY <2>2 DEF S!connect
    <3>2. x3 < x1 => 1 <= Len(Up(x3)) + 1
      <4> SUFFICES ASSUME x3 < x1 PROVE 1 <= Len(Up(x3)) + 1
        OBVIOUS
      <4>1. PICK b : b = x3
        OBVIOUS
      <4>2. x1 \in 0..25 /\ x3 \in 0..x1
        BY <1>2 DEF S!SchemaTypes
      <4>3. b \in 0..24
        BY <4>1, <4>2
      <4>4. Len(Up(b)) \in 1..12
        BY <4>3, UpsAreShort
      <4>5. 1 <= Len(Up(b)) + 1
        BY <4>4
      <4> QED BY <4>1, <4>5
    <3> QED BY <1>1, <1>2, <3>1, <3>2 DEF S!SchemaTypes, S!OnlyInterruptedStartsFail, Up
  <2>3. CASE S!Ready
    BY <1>1, <1>2, <2>3 DEF S!Ready, S!SchemaTypes, S!OnlyInterruptedStartsFail
  <2>4. CASE S!Stop
    BY <1>1, <1>2, <2>4 DEF S!Stop, S!SchemaTypes, S!OnlyInterruptedStartsFail
  <2> QED BY <2>1, <2>2, <2>3, <2>4
<1> QED BY <1>4, <1>5, <1>6, FitsInv

\* Every step keeps the invariant.
LEMMA SchemaNext ==
  ASSUME S!SchemaInv, S!Next
  PROVE  S!SchemaInv'
<1>1. CASE x9'
  BY <1>1 DEF S!SchemaInv
<1>2. CASE ~x9'
  <2>1. ~S!Down
    BY <1>2 DEF S!Down
  <2> QED BY <1>2, <2>1, ExecuteFits, NotedFits, SaveFits, CrashFits, OthersFit DEF S!Next
<1> QED BY <1>1, <1>2

\* So upgrades keep the file.
LEMMA UpgradesAre ==
  ASSUME S!SchemaInv
  PROVE  S!LimitsSurvive /\ S!OnlyInterruptedStartsFail /\ S!RowsFitTheTables
<1>1. CASE x9
  BY <1>1 DEF S!LimitsSurvive, S!OnlyInterruptedStartsFail, S!RowsFitTheTables
<1>2. CASE ~x9
  <2>1. S!SchemaTypes /\ S!OnlyInterruptedStartsFail /\ FileFits(x5, x7, S!Position, ~x8)
    BY <1>2, InvFits
  <2>2. S!LimitsSurvive
    <3> SUFFICES ASSUME NEW l \in x7 PROVE \E x \in DOMAIN x5 : x[1] = l[1] /\ l \in x5[x]
      BY DEF S!LimitsSurvive
    <3>1. S!StillThere(x5, l)
      BY <2>1 DEF FileFits, S!LimitsAreThere
    <3>2. PICK x \in {l, S!Properties(l[1]), S!Replacing(l[1])} : x \in DOMAIN x5 /\ l \in x5[x]
      BY <3>1 DEF S!StillThere
    <3>3. x[1] = l[1]
      BY <3>2 DEF S!Properties, S!Replacing
    <3> QED BY <3>2, <3>3
  <2>3. S!RowsFitTheTables
    <3> SUFFICES ASSUME x2 = "ready", x1 = Len(S!migrations), NEW t \in DOMAIN S!Entities
                 PROVE  S!Entities[t] \subseteq S!ColumnsOf(x5, t)
      BY DEF S!RowsFitTheTables
    <3>1. Len(S!migrations) = 25
      BY DEF S!migrations
    <3>2. x3 = 25
      BY <2>1, <3>1 DEF S!SchemaTypes
    <3>3. S!Position = 2501
      BY <3>2 DEF S!Position
    <3>4. S!ColumnsAreThere(x5, 2501, ~x8)
      BY <2>1, <3>3 DEF FileFits
    <3>5. /\ S!StockItems(S!ColumnsOf(x5, "stock_item"), 2501, ~x8)
          /\ S!StockRivens(S!ColumnsOf(x5, "stock_riven"), 2501, ~x8)
          /\ S!WishLists(S!ColumnsOf(x5, "wish_list"), 2501, ~x8)
          /\ S!Transactions(S!ColumnsOf(x5, "transaction"), 2501, ~x8)
          /\ S!TradeEntries(S!ColumnsOf(x5, "trade_entry"), 2501)
          /\ S!Settings(S!ColumnsOf(x5, "setting"), 2501)
      BY <3>4, TablesAre
    <3>6. S!stock_item_Model \subseteq S!ColumnsOf(x5, "stock_item")
      BY <3>5 DEF S!StockItems, S!Made, S!Base
    <3>7. S!stock_riven_Model \subseteq S!ColumnsOf(x5, "stock_riven")
      BY <3>5 DEF S!StockRivens, S!Made, S!Base
    <3>8. S!wish_list_Model \subseteq S!ColumnsOf(x5, "wish_list")
      BY <3>5 DEF S!WishLists, S!Made, S!Base
    <3>9. S!transaction_Model \subseteq S!ColumnsOf(x5, "transaction")
      BY <3>5 DEF S!Transactions, S!Made, S!Base
    <3>10. S!trade_entry_Model \subseteq S!ColumnsOf(x5, "trade_entry")
      BY <3>5 DEF S!TradeEntries, S!Made, S!Base
    <3>11. S!setting_Model \subseteq S!ColumnsOf(x5, "setting")
      BY <3>5 DEF S!Settings, S!Made, S!Base
    <3> QED BY <3>6, <3>7, <3>8, <3>9, <3>10, <3>11 DEF S!Entities
  <2> QED BY <2>1, <2>2, <2>3
<1> QED BY <1>1, <1>2

-----------------------------------------------------------------------------
(* The services side by side.                                               *)

ServicesInv ==
  /\ part = "client" => C!ClientInv
  /\ part = "backups" => B!BackupsInv
  /\ part = "schema" => S!SchemaInv

services == <<part, x1, x2, x3, x4, x5, x6, x7, x8, x9>>

\* Where nothing changes the invariant stays.
LEMMA ServicesStutter ==
  ASSUME ServicesInv, UNCHANGED services
  PROVE  ServicesInv'
<1>1. (C!ClientInv)' <=> C!ClientInv
  BY DEF services, C!ClientInv, C!TypeOK, C!RefusedRoutesStaySlower, C!LoginCallsInOrder,
         C!RefreshedSoFar, C!SignedInKnowsItsOrders, C!Advanced, C!LimitOf
<1>2. (B!BackupsInv)' <=> B!BackupsInv
  BY DEF services, B!BackupsInv, B!TypeOK, B!JobMakesNewFile, B!BackupsReachBack, B!Newest
<1>3. (S!SchemaInv)' <=> S!SchemaInv
  BY DEF services, S!SchemaInv, S!SchemaTypes, S!Position, S!OnlyInterruptedStartsFail
<1> QED
  BY <1>1, <1>2, <1>3 DEF ServicesInv, services

\* A step is one of the part the behaviour is about.
LEMMA ServicesStep ==
  ASSUME ServicesInv, [ServicesNext]_services
  PROVE  ServicesInv'
<1>1. CASE ClientPart
  BY <1>1, ClientNext DEF ClientPart, ServicesInv
<1>2. CASE BackupsPart
  BY <1>2, BackupsNext DEF BackupsPart, ServicesInv
<1>3. CASE SchemaPart
  BY <1>3, SchemaNext DEF SchemaPart, ServicesInv
<1>4. CASE BookPart \/ HoldsPart \/ RollupsPart \/ FiguresPart
  BY <1>4 DEF BookPart, HoldsPart, RollupsPart, FiguresPart, ServicesInv
<1>5. CASE UNCHANGED services
  BY <1>5, ServicesStutter
<1> QED
  BY <1>1, <1>2, <1>3, <1>4, <1>5 DEF ServicesNext

\* The client, the backup and the database file keep their inductive invariants.
THEOREM ServicesInvariance == ServicesSpec => []ServicesInv
<1>1. ServicesInit => ServicesInv
  BY ClientInit, BackupsInit, SchemaInit DEF ServicesInit, ServicesInv
<1>2. ServicesInv /\ [ServicesNext]_services => ServicesInv'
  BY ServicesStep
<1> QED
  BY <1>1, <1>2, PTL DEF ServicesSpec, services

\* However overlapping calls read a route's limit, sleep and are answered, a route that was
\* answered 429 keeps a rate of its own below the common one (clear_wait_time, call_api).
THEOREM RefusedRoutesStaySlowerHolds == ServicesSpec => []RefusedRoutesStaySlower
<1>1. ServicesInv => RefusedRoutesStaySlower
  BY DEF ServicesInv, C!ClientInv, RefusedRoutesStaySlower
<1> QED
  BY <1>1, ServicesInvariance, PTL

\* A client that is signed in has its user and its orders cached, whatever the caches of the
\* client it was made from held (create_authenticated_client, refresh).
THEOREM SignedInKnowsItsOrdersHolds == ServicesSpec => []SignedInKnowsItsOrders
<1>1. ServicesInv => SignedInKnowsItsOrders
  BY DEF ServicesInv, C!ClientInv, SignedInKnowsItsOrders
<1> QED
  BY <1>1, ServicesInvariance, PTL

\* The backups the rule keeps are there, whole, after any failed copies, half-done deletions
\* and deaths of the server (to_delete, prune, promote).
THEOREM BackupsReachBackHolds == ServicesSpec => []BackupsReachBack
<1>1. ServicesInv => BackupsReachBack
  BY DEF ServicesInv, B!BackupsInv, BackupsReachBack
<1> QED
  BY <1>1, ServicesInvariance, PTL

\* Whatever releases are installed over each other and wherever a start dies, the limits the user
\* set are in the file, only a start after one that died inside a migration fails, and a started
\* server of the last release finds the columns its rows are read with (connect, the migrations).
THEOREM UpgradesKeepTheFileHolds == ServicesSpec => []UpgradesKeepTheFile
<1>1. ServicesInv => UpgradesKeepTheFile
  BY UpgradesAre DEF ServicesInv, UpgradesKeepTheFile
<1> QED
  BY <1>1, ServicesInvariance, PTL
=============================================================================
