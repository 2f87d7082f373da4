------------------------------ MODULE ApiRoutes ------------------------------
(***************************************************************************)
(* The endpoints of the market's API by route, as the client calls them      *)
(* (wf-market/src/endpoints): the key their limit is kept under, the version  *)
(* of the API they speak and what a good answer does to the client's caches.   *)
(***************************************************************************)

Endpoint(key, version, effect, cache) ==
  [key |-> key, version |-> version, effect |-> effect, cache |-> cache]
Plain(key) == Endpoint(key, "V2", "none", "none")
Memo(key, cache) == Endpoint(key, "V2", "memo", cache) \* fetched once, then answered from here

ManifestRoute == {Memo("GET:versions", "versions"), Memo("GET:locations", "locations"),
                  Memo("GET:npcs", "npcs"), Memo("GET:missions", "missions")}
ItemRoute == {Memo("GET:items", "items"), Plain("GET:item:slug")}
RivenRoute == {Memo("GET:riven:weapons", "rivens"), Plain("GET:riven:weapon:slug"),
               Memo("GET:riven:attributes", "attributes")}
LichRoute == {Memo("GET:lich:weapons", "lich weapons"), Plain("GET:lich:weapon:slug"),
              Memo("GET:lich:ephemeras", "lich ephemeras"), Memo("GET:lich:quirks", "lich quirks")}
SisterRoute == {Memo("GET:sister:weapons", "sister weapons"), Plain("GET:sister:weapon:slug"),
                Memo("GET:sister:ephemeras", "sister ephemeras"),
                Memo("GET:sister:quirks", "sister quirks")}
AchievementRoute == {Memo("GET:achievements", "achievements"), Plain("GET:achievements:user"),
                     Plain("GET:achievements:userId")}
UserRoute == {Plain("GET:user:slug"), Plain("GET:user:user_id"), Plain("PATCH:user:me"),
              Endpoint("GET:user:me", "V2", "fill", "user")}
AuthenticationRoute == {Endpoint("POST:auth:signin", "V1", "none", "none")}
OrderLookups == {Plain("GET:orders:order_id"), Plain("GET:orders:recent"),
                 Plain("GET:orders:item:slug"), Plain("GET:orders:item:slug:top")}
OrderRoute == OrderLookups \cup
  {Endpoint("GET:orders:my", "V2", "fill", "orders"), Plain("POST:order"),
   Plain("PATCH:order:order_id"), Plain("POST:order:order_id:close"),
   Plain("DELETE:order:order_id")}
Chats == {Endpoint("GET:im:chats", "V1", "fill", "chats"),
          Endpoint("GET:im:chats:chat_id", "V1", "none", "none")}
ChatRoute == Chats \cup {Endpoint("DELETE:im:chats:chat_id", "V1", "none", "none"),
                         Endpoint("GET:im:ignore", "V1", "none", "none"),
                         Endpoint("POST:im:ignore", "V1", "none", "none"),
                         Endpoint("DELETE:im:ignore:user_id", "V1", "none", "none")}
AuctionLookups == {Endpoint("GET:auctions", "V1", "none", "none"),
                   Endpoint("GET:auctions:search", "V1", "none", "none")}
AuctionChanges == {Endpoint("POST:auctions:create", "V1", "add", "none"),
                   Endpoint("PUT:auctions:entry", "V1", "add", "none"),   \* update adds what it misses
                   Endpoint("PUT:auctions:entry:close", "V1", "remove", "none")}
AuctionRoute == AuctionLookups \cup AuctionChanges \cup
  {Endpoint("GET:profile:auctions", "V1", "replace", "none")}

Routes == [manifest |-> ManifestRoute, order |-> OrderRoute, user |-> UserRoute,
           authentication |-> AuthenticationRoute, lich |-> LichRoute, sister |-> SisterRoute,
           item |-> ItemRoute, riven |-> RivenRoute, chat |-> ChatRoute,
           auction |-> AuctionRoute, achievement |-> AchievementRoute]
\* Only the client of an account has these (impl ... where State: IsAuthenticated).
AccountOnly == {e \in UserRoute : e.key \in {"GET:user:me", "PATCH:user:me"}}
                 \cup (OrderRoute \ OrderLookups) \cup ChatRoute \cup (AuctionRoute \ AuctionLookups)
Endpoints == UNION {Routes[r] : r \in DOMAIN Routes}
RouteOf(e) == CHOOSE r \in DOMAIN Routes : e \in Routes[r]
Of(key) == CHOOSE e \in Endpoints : e.key = key
CachesOf(r) == {e.cache : e \in Routes[r]} \ {"none"}
=============================================================================
