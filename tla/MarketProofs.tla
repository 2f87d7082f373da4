---------------------------- MODULE MarketProofs ----------------------------
(***************************************************************************)
(* What the application has at warframe.market: the session (MarketSession) *)
(* for any number of sign-ins; then, of MCTrading, the orders that the item *)
(* trader keeps there, over any keys, limits, failures and changes of rows. *)
(***************************************************************************)
EXTENDS MarketSession, MCTrading, FiniteSetTheorems, SequenceTheorems, WellFoundedInduction, TLAPS

SockType == [pc : LoopPC, stop : BOOLEAN, sender : BOOLEAN, mute : BOOLEAN,
             attempt : 0..MaxAttempt]
SessionType == [signed_in : BOOLEAN, unauthorized : BOOLEAN, fresh : BOOLEAN,
                ws : BOOLEAN, down : BOOLEAN]

\* The wait counter stays within its bound.
LEMMA LaterTyped ==
  ASSUME NEW attempt \in 0..MaxAttempt, NEW lasted \in BOOLEAN
  PROVE  /\ Later(attempt) \in 0..MaxAttempt
         /\ Later(attempt_after_connection(attempt, lasted)) \in 0..MaxAttempt
  BY MarketSessionAssumption DEF Later, attempt_after_connection

\* A loop before it is started, and when it is.
LEMMA StartedTyped == NoLoop \in SockType /\ NoLoop.pc = "none" /\ Started \in SockType
<1>1. NoLoop \in SockType /\ NoLoop.pc = "none"
  BY MarketSessionAssumption DEF NoLoop, SockType, LoopPC
<1>2. [NoLoop EXCEPT !.pc = "top"] \in SockType
  BY <1>1 DEF SockType, LoopPC
<1> QED BY <1>1, <1>2 DEF Started

\* Flag updates keep a loop's record a loop's record, and it stays where it is.
LEMMA FlagUpdates ==
  ASSUME NEW r \in SockType
  PROVE  /\ [r EXCEPT !.mute = TRUE] \in SockType /\ [r EXCEPT !.mute = TRUE].pc = r.pc
         /\ [r EXCEPT !.stop = TRUE, !.sender = FALSE, !.mute = TRUE] \in SockType
         /\ [r EXCEPT !.stop = TRUE, !.sender = FALSE, !.mute = TRUE].pc = r.pc
  BY DEF SockType

----------------------------------------------------------------------------
(* The loops.                                                              *)

\* What one step of the loop g does: its own record moves to another place, and
\* the report it makes says where it stands.
Moves(g, q) ==
  /\ sock' \in [Gens -> SockType]
  /\ sock'[g].pc = q
  /\ \A h \in Gens \ {g} : sock'[h] = sock[h]
  /\ \/ session' = session /\ (sock[g].pc \in {"open", "closing"} => q \in {"open", "closing"})
     \/ set_ws_connected(TRUE) /\ q = "open"
     \/ set_ws_connected(FALSE)
  /\ UNCHANGED <<app, account, login, logout, me, logins>>

LEMMA LoopMoves ==
  ASSUME IInv, NEW g \in Gens, Loop(g)
  PROVE  sock[g].pc # "none" /\ \E q \in LoopPC \ {"none"} : Moves(g, q)
<1>1. sock \in [Gens -> SockType] /\ sock[g] \in SockType /\ sock[g].attempt \in 0..MaxAttempt
  BY DEF IInv, TypeOK, SockType
<1>2. 0 \in 0..MaxAttempt /\ Later(sock[g].attempt) \in 0..MaxAttempt
  BY <1>1, LaterTyped, MarketSessionAssumption
<1>3. ASSUME NEW r \in SockType, sock' = [sock EXCEPT ![g] = r]
      PROVE  /\ sock' \in [Gens -> SockType] /\ sock'[g] = r
             /\ \A h \in Gens \ {g} : sock'[h] = sock[h]
  BY <1>1, <1>3
<1>4. CASE Top(g)
  <2>1. PICK p \in {"over", "gate"} : sock' = [sock EXCEPT ![g] = [sock[g] EXCEPT !.pc = p]]
    BY <1>1, <1>4 DEF Top
  <2>2. [sock[g] EXCEPT !.pc = p] \in SockType /\ [sock[g] EXCEPT !.pc = p].pc = p
    BY <1>1, <1>2, <2>1 DEF SockType, LoopPC
  <2> QED BY <1>3, <1>4, <2>1, <2>2 DEF Top, Moves, LoopPC
<1>5. CASE Gate(g)
  <2>1. PICK r \in {[sock[g] EXCEPT !.pc = "connecting"],
                    [sock[g] EXCEPT !.pc = "sleeping", !.attempt = Later(sock[g].attempt)]} :
          sock' = [sock EXCEPT ![g] = r]
    BY <1>1, <1>5 DEF Gate
  <2>2. r \in SockType /\ r.pc \in {"connecting", "sleeping"}
    BY <1>1, <1>2, <2>1 DEF SockType, LoopPC
  <2> QED BY <1>3, <1>5, <2>1, <2>2 DEF Gate, Moves, LoopPC
<1>6. CASE Connected(g)
  <2> DEFINE r == [sock[g] EXCEPT !.pc = "open", !.sender = TRUE, !.mute = FALSE]
  <2>1. sock' = [sock EXCEPT ![g] = r]
    BY <1>1, <1>6 DEF Connected
  <2>2. r \in SockType /\ r.pc = "open"
    BY <1>1, <1>2 DEF SockType, LoopPC
  <2> QED BY <1>3, <1>6, <2>1, <2>2 DEF Connected, Moves, LoopPC
<1>7. CASE ConnectFailed(g)
  <2> DEFINE r == [sock[g] EXCEPT !.pc = "sleeping", !.attempt = Later(sock[g].attempt)]
  <2>1. sock' = [sock EXCEPT ![g] = r]
    BY <1>1, <1>7 DEF ConnectFailed
  <2>2. r \in SockType /\ r.pc = "sleeping"
    BY <1>1, <1>2 DEF SockType, LoopPC
  <2> QED BY <1>3, <1>7, <2>1, <2>2 DEF ConnectFailed, Moves, LoopPC
<1>8. CASE WriteFails(g)
  <2> DEFINE r == [sock[g] EXCEPT !.mute = TRUE]
  <2>1. sock' = [sock EXCEPT ![g] = r]
    BY <1>1, <1>8 DEF WriteFails
  <2>2. r \in SockType /\ r.pc = "open"
    BY <1>1, <1>8, FlagUpdates DEF WriteFails
  <2> QED BY <1>3, <1>8, <2>1, <2>2 DEF WriteFails, Moves, LoopPC
<1>9. CASE ReadStops(g) \/ ReadFails(g)
  <2> DEFINE r == [sock[g] EXCEPT !.pc = "closing", !.mute = TRUE]
  <2>1. sock' = [sock EXCEPT ![g] = r]
    BY <1>1, <1>9 DEF ReadStops, ReadFails, ReadEnds
  <2>2. r \in SockType /\ r.pc = "closing"
    BY <1>1, <1>2 DEF SockType, LoopPC
  <2> QED BY <1>3, <1>9, <2>1, <2>2 DEF ReadStops, StopSeen, ReadFails, ReadEnds, Moves, LoopPC
<1>10. CASE Disconnected(g)
  <2>1. PICK n \in 0..MaxAttempt :
          sock' = [sock EXCEPT ![g] = [sock[g] EXCEPT !.pc = "sleeping", !.attempt = n]]
    BY <1>1, <1>10, LaterTyped DEF Disconnected
  <2>2. /\ [sock[g] EXCEPT !.pc = "sleeping", !.attempt = n] \in SockType
        /\ [sock[g] EXCEPT !.pc = "sleeping", !.attempt = n].pc = "sleeping"
    BY <1>1 DEF SockType, LoopPC
  <2> QED BY <1>3, <1>10, <2>1, <2>2 DEF Disconnected, Moves, LoopPC
<1>11. CASE Wake(g)
  <2>1. sock' = [sock EXCEPT ![g] = [sock[g] EXCEPT !.pc = "top"]]
    BY <1>1, <1>11 DEF Wake
  <2>2. [sock[g] EXCEPT !.pc = "top"] \in SockType /\ [sock[g] EXCEPT !.pc = "top"].pc = "top"
    BY <1>1, <1>2 DEF SockType, LoopPC
  <2> QED BY <1>3, <1>11, <2>1, <2>2 DEF Wake, Moves, LoopPC
<1> QED BY <1>4, <1>5, <1>6, <1>7, <1>8, <1>9, <1>10, <1>11 DEF Loop

LEMMA LoopIInv ==
  ASSUME IInv, NEW g \in Gens, Loop(g)
  PROVE  IInv'
<1>1. PICK q \in LoopPC \ {"none"} : Moves(g, q)
  BY LoopMoves
<1>2. sock[g].pc # "none"
  BY LoopMoves
<1>3. session \in SessionType
  BY DEF IInv, TypeOK, SessionType
<1>4. /\ session' \in SessionType
      /\ session'.signed_in = session.signed_in
      /\ session'.fresh = session.fresh
      /\ session'.ws => session.ws \/ q = "open"
      /\ session'.ws => q \in {"open", "closing"} \/ sock[g].pc \notin {"open", "closing"}
  BY <1>1, <1>3 DEF Moves, set_ws_connected, SessionType
<1>5. TypeOK'
  BY <1>1, <1>4 DEF Moves, IInv, TypeOK, SockType, SessionType
<1>6. StartedOnce'
  BY <1>1, <1>2 DEF Moves, IInv, StartedOnce, TypeOK
<1>7. ConnectedFlagIsBacked'
  BY <1>1, <1>4 DEF Moves, IInv, ConnectedFlagIsBacked
<1>8. LateChecksDoNotSignIn'
  BY <1>4 DEF IInv, LateChecksDoNotSignIn, token_valid
<1> QED BY <1>5, <1>6, <1>7, <1>8 DEF IInv

----------------------------------------------------------------------------
(* Startup, sign-in, sign-out and the checks.                              *)

\* Records of the commands, and of the session after a command or a check.
LEMMA CommandUpdates ==
  /\ \A l \in [pc : {"boot", "rest", "signin", "socket", "finish"}, gen : Gens \cup {None}] :
       [l EXCEPT !.pc = "socket"].gen = l.gen /\ [l EXCEPT !.pc = "finish"].gen = l.gen
  /\ \A s \in SessionType :
       /\ [s EXCEPT !.signed_in = TRUE, !.unauthorized = FALSE, !.fresh = TRUE] \in SessionType
       /\ [s EXCEPT !.signed_in = FALSE, !.unauthorized = FALSE, !.fresh = FALSE] \in SessionType
  BY DEF SessionType

\* A step that starts no loop and leaves what the loops reported alone.
LEMMA QuietIInv ==
  ASSUME IInv, TypeOK',
         \A g \in Gens : sock'[g].pc = sock[g].pc,
         session'.ws = session.ws,
         ~session'.signed_in => ~session'.fresh,
         StartedOnce'
  PROVE  IInv'
  BY DEF IInv, ConnectedFlagIsBacked, LateChecksDoNotSignIn, token_valid

LEMMA BootIInv ==
  ASSUME IInv, Boot
  PROVE  IInv'
<1>1. /\ login.pc = "boot" /\ \A g \in Gens : sock[g].pc = "none"
      /\ session \in SessionType /\ sock \in [Gens -> SockType] /\ account \in Gens \cup {None}
      /\ account <= logins /\ logins \in Nat
  BY DEF Boot, IInv, StartedOnce, TypeOK, SockType, SessionType
<1>2. ~session.ws
  BY <1>1 DEF IInv, ConnectedFlagIsBacked
<1>3. /\ login' = Rest /\ Rest.pc = "rest"
      /\ Rest \in [pc : {"boot", "rest", "signin", "socket", "finish"}, gen : Gens \cup {None}]
      /\ UNCHANGED <<account, logout, me, logins>>
  BY DEF Boot, Rest
<1>4. CASE UNCHANGED <<sock, app, session>>
  <2>1. TypeOK'
    BY <1>3, <1>4 DEF IInv, TypeOK
  <2>2. StartedOnce'
    BY <1>3, <1>4 DEF IInv, StartedOnce
  <2> QED BY <1>4, <2>1, <2>2, QuietIInv DEF IInv, LateChecksDoNotSignIn
<1>5. CASE account # None /\ sock' = [sock EXCEPT ![account] = Started]
            /\ app' = [app EXCEPT !.socket = account, !.client = account, !.user = "known"]
            /\ session' = mark_signed_in
  <2>1. Started \in SockType
    BY StartedTyped
  <2>2. sock' \in [Gens -> SockType] /\ \A g \in Gens \ {account} : sock'[g] = sock[g]
    BY <1>1, <1>5, <2>1
  <2>3. session' \in SessionType /\ ~session'.ws /\ session'.signed_in
    BY <1>1, <1>2, <1>5 DEF mark_signed_in, SessionType
  <2>4. TypeOK'
    BY <1>1, <1>3, <1>5, <2>2, <2>3 DEF IInv, TypeOK, SockType, SessionType
  <2>5. StartedOnce'
    BY <1>1, <1>3, <2>2 DEF IInv, StartedOnce, Gens
  <2> QED BY <2>3, <2>4, <2>5 DEF IInv, ConnectedFlagIsBacked, LateChecksDoNotSignIn, token_valid
<1> QED BY <1>4, <1>5 DEF Boot

LEMMA SignInIInv ==
  ASSUME IInv, LoginBegins \/ SignIn
  PROVE  IInv'
<1>1. UNCHANGED <<sock, app, session, logout, me>> /\ logins \in 0..MaxLogins
  BY DEF LoginBegins, SignIn, IInv, TypeOK
<1>2. CASE LoginBegins
  <2>1. /\ logins + 1 \in Gens /\ logins' = logins + 1 /\ logins' \in 0..MaxLogins
        /\ login'.pc = "signin" /\ login'.gen = logins + 1 /\ account' = account
        /\ login' \in [pc : {"boot", "rest", "signin", "socket", "finish"}, gen : Gens \cup {None}]
    BY <1>1, <1>2, MarketSessionAssumption DEF LoginBegins, Gens
  <2>2. TypeOK'
    BY <1>1, <2>1 DEF IInv, TypeOK
  <2>3. StartedOnce'
    BY <1>1, <2>1 DEF IInv, StartedOnce, TypeOK, Gens, None
  <2> QED BY <1>1, <2>2, <2>3, QuietIInv DEF IInv, LateChecksDoNotSignIn
<1>3. CASE SignIn
  <2>1. /\ login.gen \in Gens /\ login.gen = logins /\ logins' = logins
        /\ account' \in {account, login.gen}
        /\ sock[login.gen].pc = "none"
    BY <1>3 DEF SignIn, IInv, StartedOnce, TypeOK
  <2>2. /\ login' \in [pc : {"boot", "rest", "signin", "socket", "finish"}, gen : Gens \cup {None}]
        /\ login'.pc \in {"rest", "socket"}
        /\ login'.pc = "socket" => login'.gen = login.gen
    BY <1>3 DEF SignIn, IInv, TypeOK, Rest
  <2>3. TypeOK'
    BY <1>1, <2>1, <2>2 DEF IInv, TypeOK
  <2>4. StartedOnce'
    BY <1>1, <2>1, <2>2 DEF IInv, StartedOnce, Gens, None
  <2> QED BY <1>1, <2>3, <2>4, QuietIInv DEF IInv, LateChecksDoNotSignIn
<1> QED BY <1>2, <1>3

\* The socket of a sign-in is started where no loop ran before.
LEMMA SetupSocketIInv ==
  ASSUME IInv, SetupSocket
  PROVE  IInv'
<1>1. /\ login.pc = "socket" /\ login.gen \in Gens /\ login.gen = logins
      /\ sock[login.gen].pc = "none" /\ sock \in [Gens -> SockType]
      /\ UNCHANGED <<app, account, session, logout, me, logins>>
  BY DEF SetupSocket, IInv, StartedOnce, TypeOK, SockType
<1>2. Started \in SockType
  BY StartedTyped
<1>3. sock' \in [Gens -> SockType] /\ \A g \in Gens \ {login.gen} : sock'[g] = sock[g]
  BY <1>1, <1>2 DEF SetupSocket
<1>4. /\ login' \in [pc : {"boot", "rest", "signin", "socket", "finish"}, gen : Gens \cup {None}]
      /\ login'.pc \in {"rest", "finish"}
      /\ login'.pc = "finish" => login'.gen = login.gen
  BY DEF SetupSocket, IInv, TypeOK, Rest
<1>5. TypeOK'
  BY <1>1, <1>3, <1>4 DEF IInv, TypeOK, SockType
<1>6. StartedOnce'
  BY <1>1, <1>3, <1>4 DEF IInv, StartedOnce, Gens, None
<1>7. ConnectedFlagIsBacked'
  BY <1>1, <1>3 DEF IInv, ConnectedFlagIsBacked
<1> QED BY <1>1, <1>5, <1>6, <1>7 DEF IInv, LateChecksDoNotSignIn, token_valid

\* The last step of a sign-in, the sign-out and the checks.
LEMMA RecordIInv ==
  ASSUME IInv, SetStatus \/ LoginEnds \/ LogoutBegins \/ DeleteAccount \/ LogoutEnds
                 \/ MeBegins \/ MeAnswers \/ GoesStale
  PROVE  IInv'
<1>1. session \in SessionType /\ sock \in [Gens -> SockType]
  BY DEF IInv, TypeOK, SessionType, SockType
<1>2. /\ session' \in SessionType /\ session'.ws = session.ws
      /\ ~session'.signed_in => ~session'.fresh
  BY <1>1 DEF IInv, LateChecksDoNotSignIn, SessionType, SetStatus, LoginEnds, LogoutBegins,
     DeleteAccount, LogoutEnds, MeBegins, MeAnswers, GoesStale, mark_signed_in, mark_signed_out,
     mark_me_ok, mark_unauthorized
<1>3. sock' \in [Gens -> SockType] /\ \A g \in Gens : sock'[g].pc = sock[g].pc
  <2>1. CASE UNCHANGED sock
    BY <1>1, <2>1
  <2>2. CASE app.socket # None /\ sock' = disconnect(app.socket)
    <3>1. app.socket \in Gens /\ sock[app.socket] \in SockType
      BY <1>1, <2>2 DEF IInv, TypeOK
    <3> DEFINE r == [sock[app.socket] EXCEPT !.stop = TRUE, !.sender = FALSE, !.mute = TRUE]
    <3>2. r \in SockType /\ r.pc = sock[app.socket].pc
      BY <3>1, FlagUpdates
    <3>3. sock' = [sock EXCEPT ![app.socket] = r]
      BY <1>1, <2>2, <3>1 DEF disconnect
    <3> QED BY <1>1, <3>1, <3>2, <3>3
  <2> QED BY <2>1, <2>2 DEF SetStatus, LoginEnds, LogoutBegins, DeleteAccount, LogoutEnds,
          MeBegins, MeAnswers, GoesStale
<1>4. /\ account' \in {account, None} /\ logins' = logins
      /\ login' = login \/ (login' = Rest /\ login.pc = "finish")
  BY DEF SetStatus, LoginEnds, LogoutBegins, DeleteAccount, LogoutEnds, MeBegins, MeAnswers, GoesStale
<1>5. app' \in [socket : Gens \cup {None}, client : Gens \cup {None},
               user : {"anonymous", "known"}, status : {"invisible", "ingame"}]
  <2>1. CASE UNCHANGED app
    BY <2>1 DEF IInv, TypeOK
  <2>2. CASE SetStatus
    BY <2>2 DEF SetStatus, IInv, TypeOK
  <2>3. CASE LoginEnds
    BY <2>3 DEF LoginEnds, IInv, TypeOK
  <2>4. CASE LogoutEnds
    BY <2>4 DEF LogoutEnds, IInv, TypeOK
  <2> QED BY <2>1, <2>2, <2>3, <2>4
          DEF LogoutBegins, DeleteAccount, MeBegins, MeAnswers, GoesStale
<1>6. /\ logout' \in [pc : {"rest", "delete", "finish"}, gen : Gens \cup {None}]
      /\ me' \in [pc : {"rest", "asked"}, gen : Gens \cup {None}]
  BY DEF IInv, TypeOK, Rest, SetStatus, LoginEnds, LogoutBegins, DeleteAccount, LogoutEnds,
     MeBegins, MeAnswers, GoesStale
<1>7. TypeOK'
  <2>1. Rest \in [pc : {"boot", "rest", "signin", "socket", "finish"}, gen : Gens \cup {None}]
    BY DEF Rest
  <2> QED BY <1>2, <1>3, <1>4, <1>5, <1>6, <2>1 DEF IInv, TypeOK, SockType, SessionType
<1>8. StartedOnce'
  <2>1. Rest.pc = "rest" /\ logins \in Nat
    BY DEF Rest, IInv, TypeOK
  <2> QED BY <1>3, <1>4, <2>1 DEF IInv, StartedOnce, Gens, None, TypeOK
<1> QED BY <1>2, <1>3, <1>7, <1>8, QuietIInv

----------------------------------------------------------------------------
(* The theorems.                                                           *)

LEMMA InitIInv == SessionInit => IInv
<1> SUFFICES ASSUME SessionInit PROVE IInv
  OBVIOUS
<1>1. NoLoop \in SockType /\ NoLoop.pc = "none"
  BY StartedTyped
<1>2. sock \in [Gens -> SockType] /\ \A g \in Gens : sock[g].pc = "none"
  BY <1>1 DEF SessionInit
<1>3. /\ account \in Gens \cup {None} /\ logins \in 0..MaxLogins /\ account <= logins
  BY MarketSessionAssumption DEF SessionInit, Gens, None
<1>4. TypeOK
  BY <1>2, <1>3 DEF SessionInit, TypeOK, SockType, SignedOut, Rest
<1> QED BY <1>2, <1>3, <1>4 DEF IInv, SessionInit, StartedOnce, ConnectedFlagIsBacked,
        LateChecksDoNotSignIn, token_valid, SignedOut

LEMMA NextIInv == IInv /\ [SessionNext]_sessionVars => IInv'
<1> SUFFICES ASSUME IInv, [SessionNext]_sessionVars PROVE IInv'
  OBVIOUS
<1>1. CASE UNCHANGED sessionVars
  BY <1>1 DEF sessionVars, IInv, TypeOK, StartedOnce, ConnectedFlagIsBacked,
     LateChecksDoNotSignIn, token_valid
<1>2. ASSUME NEW g \in Gens, Loop(g) PROVE IInv'
  BY <1>2, LoopIInv
<1> QED BY <1>1, <1>2, BootIInv, SignInIInv, SetupSocketIInv, RecordIInv DEF SessionNext

\* The inductive invariant holds in every reachable state.
THEOREM Invariance == SessionSpec => []IInv
<1>1. SessionInit => IInv
  BY InitIInv
<1>2. IInv /\ [SessionNext]_sessionVars => IInv'
  BY NextIInv
<1> QED BY <1>1, <1>2, PTL DEF SessionSpec

\* The loops, the commands and the session record keep their types.
THEOREM TypeCorrect == SessionSpec => []TypeOK
<1>1. IInv => TypeOK
  BY DEF IInv
<1> QED BY <1>1, Invariance, PTL

\* Whatever order the callbacks of old and new loops run in, the session says
\* that the websocket is up only while some loop is connected or closing.
THEOREM ConnectedFlagIsBackedHolds == SessionSpec => []ConnectedFlagIsBacked
<1>1. IInv => ConnectedFlagIsBacked
  BY DEF IInv
<1> QED BY <1>1, Invariance, PTL

\* A /me answer that comes after the sign-out does not make the session valid.
THEOREM LateChecksDoNotSignInHolds == SessionSpec => []LateChecksDoNotSignIn
<1>1. IInv => LateChecksDoNotSignIn
  BY DEF IInv
<1> QED BY <1>1, Invariance, PTL
-----------------------------------------------------------------------------
(* The item trader's lists.                                                  *)

\* What a call can tell of an order: its id, key and side.
Alike(o, p) == o.id = p.id /\ o.key = p.key /\ o.side = p.side
From(after, before) == \A o \in after : \E p \in before : Alike(o, p)

\* A change of properties leaves the order the order it was.
LEMMA UpdatedOrder ==
  ASSUME NEW o, I!Identified(o), NEW change, DOMAIN change = {"wish"}
  PROVE  LET u == [f \in DOMAIN o |-> IF f \in DOMAIN change THEN change[f] ELSE o[f]]
         IN I!Identified(u) /\ Alike(u, o)
BY DEF I!Identified, Alike

\* An order put into the cache keeps its id, key and side.
LEMMA CachedOrder ==
  ASSUME NEW o, I!Identified(o), NEW props, DOMAIN props = {"wish"}
  PROVE  LET c == [f \in DOMAIN o \cup DOMAIN props |-> IF f \in DOMAIN props THEN props[f] ELSE o[f]]
         IN I!Identified(c) /\ Alike(c, o)
BY DEF I!Identified, Alike

\* An update of a list.
LEMMA UpdatedList ==
  ASSUME NEW list, \A o \in list : I!Identified(o), NEW id, NEW change, DOMAIN change = {"wish"}
  PROVE  /\ \A o \in I!update(list, id, change) : I!Identified(o)
         /\ From(I!update(list, id, change), list) /\ From(list, I!update(list, id, change))
<1> DEFINE new(o) == IF o.id = id THEN [f \in DOMAIN o |-> IF f \in DOMAIN change THEN change[f] ELSE o[f]]
                     ELSE o
<1>1. \A o \in list : I!Identified(new(o)) /\ Alike(new(o), o) /\ Alike(o, new(o))
  BY UpdatedOrder DEF Alike
<1>2. I!update(list, id, change) = {new(o) : o \in list}
  BY DEF I!update
<1> HIDE DEF new
<1> QED
  BY <1>1, <1>2 DEF From

\* A refresh.
LEMMA RefreshedList ==
  ASSUME NEW list, \A o \in list : I!Identified(o)
  PROVE  /\ \A o \in I!my_orders(list, I!Blank) : I!Identified(o)
         /\ From(I!my_orders(list, I!Blank), list) /\ From(list, I!my_orders(list, I!Blank))
<1> DEFINE new(o) == [f \in DOMAIN o \cup DOMAIN I!Blank |->
                        IF f \in DOMAIN I!Blank THEN I!Blank[f] ELSE o[f]]
<1>1. \A o \in list : I!Identified(new(o)) /\ Alike(new(o), o) /\ Alike(o, new(o))
  <2>1. DOMAIN I!Blank = {"wish"}
    BY DEF I!Blank
  <2> QED BY <2>1, CachedOrder DEF Alike
<1>2. I!my_orders(list, I!Blank) = {new(o) : o \in list}
  BY DEF I!my_orders
<1> HIDE DEF new
<1> QED
  BY <1>1, <1>2 DEF From

\* A removal.
LEMMA RemovedFrom ==
  ASSUME NEW list, NEW id
  PROVE  /\ I!remove_by_id(list, id) \subseteq list /\ From(I!remove_by_id(list, id), list)
         /\ \A o \in list : o.id # id => o \in I!remove_by_id(list, id)
         /\ \A o \in I!remove_by_id(list, id) : o.id # id
BY DEF I!remove_by_id, From, Alike

-----------------------------------------------------------------------------
(* What the calls do.                                                        *)

\* The outcomes of a delete.
LEMMA DeleteOutcomes ==
  ASSUME NEW id, NEW ok, NEW failed, I!Delete(id, ok, failed)
  PROVE  \/ I!in_book(id) /\ y1' = y1 /\ y2' = y2 /\ y3' = I!remove_by_id(y3, id) /\ y7' = ok
         \/ /\ y1' = I!remove_by_id(y1, id) /\ y2' = I!remove_by_id(y2, id)
            /\ ~I!in_book(id) /\ y3' = y3 /\ y7' = ok
         \/ y1' = I!remove_by_id(y1, id) /\ y2' = y2 /\ y3' = y3 /\ y7' = failed
         \/ y1' = y1 /\ y2' = y2 /\ y3' = y3 /\ y7' = failed
         \/ y1' = y1 /\ y2' = I!my_orders(y1, I!Blank) /\ y3' = y3 /\ y7' = failed
<1>1. CASE I!in_book(id)
  BY <1>1 DEF I!Delete
<1>2. CASE ~I!in_book(id)
  <2>1. PICK a \in I!delete(y1, y2, id) :
          I!FinishLive(a) /\ y7' = IF a.answer = "ok" THEN ok ELSE failed
    BY <1>2 DEF I!Delete
  <2>2. \/ a = I!Answer(y1, y2, "refused")
        \/ a = I!Answer(I!remove_by_id(y1, id), I!remove_by_id(y2, id), "ok")
        \/ a = I!Answer(I!remove_by_id(y1, id), y2, "lost")
        \/ a = I!Answer(y1, y2, "failed")
    BY DEF I!delete
  <2> QED BY <1>2, <2>1, <2>2 DEF I!FinishLive, I!Answer
<1> QED
  BY <1>1, <1>2

\* The outcomes of an update.
LEMMA UpdateOutcomes ==
  ASSUME NEW o, NEW props, NEW ok, NEW failed, I!Update(o, props, ok, failed)
  PROVE  \/ y1' = y1 /\ y2' = y2 /\ y3' = I!update(y3, o.id, props) /\ y7' = ok
         \/ y1' = y1 /\ y2' = I!update(y2, o.id, props) /\ y3' = y3 /\ y7' = ok
         \/ y1' = y1 /\ y2' = y2 /\ y3' = y3 /\ y7' = failed
         \/ y1' = y1 /\ y2' = I!my_orders(y1, I!Blank) /\ y3' = y3 /\ y7' = failed
<1>1. ASSUME NEW a \in I!update_order(y1, y2, o.id, props),
             I!FinishLive(a) /\ y7' = IF a.answer = "ok" THEN ok ELSE failed
      PROVE  \/ y1' = y1 /\ y2' = I!update(y2, o.id, props) /\ y3' = y3 /\ y7' = ok
             \/ y1' = y1 /\ y2' = y2 /\ y3' = y3 /\ y7' = failed
             \/ y1' = y1 /\ y2' = I!my_orders(y1, I!Blank) /\ y3' = y3 /\ y7' = failed
  <2>1. \/ a = I!Answer(y1, y2, "refused")
        \/ a = I!Answer(y1, I!update(y2, o.id, props), "ok")
        \/ a = I!Answer(y1, y2, "failed")
    BY DEF I!update_order
  <2> QED BY <1>1, <2>1 DEF I!FinishLive, I!Answer
<1> QED
  BY <1>1 DEF I!Update

\* The order a create makes, and what the cache keeps of it.
Order(k, side) == [id |-> I!NewId(k, side), key |-> k, side |-> side]
With(o, props) == [f \in DOMAIN o \cup DOMAIN props |-> IF f \in DOMAIN props THEN props[f] ELSE o[f]]

\* The outcomes of a create.
Created(route, k, side, props, ok, failed) ==
  \/ /\ route # I!Live /\ y1' = y1 /\ y2' = y2 /\ y3' = y3 \cup {With(Order(k, side), props)}
     /\ y7' = ok /\ y10' = y10
  \/ /\ route = I!Live /\ y1' = y1 \cup {Order(k, side)}
     /\ y2' = y2 \cup {With(Order(k, side), props)} /\ y3' = y3
     /\ y7' = IF side = "buy" THEN [ok EXCEPT !.made = @ \cup {I!NewId(k, side)}] ELSE ok
     /\ y10' = y10
  \/ /\ route = I!Live /\ y1' = y1 \cup {Order(k, side)} /\ y2' = y2 /\ y3' = y3
     /\ y7' = failed /\ y10' = TRUE
  \/ /\ route = I!Live /\ y1' = y1 /\ y2' \in {y2, I!my_orders(y1, I!Blank)} /\ y3' = y3
     /\ y7' = failed /\ y10' = y10

\* A creation at the market or in the book.
LEMMA CreateOutcomes ==
  ASSUME NEW route, NEW k, NEW side, NEW props, NEW ok, NEW failed,
         y10 \in BOOLEAN, I!Create(route, k, side, props, ok, failed)
  PROVE  Created(route, k, side, props, ok, failed)
<1> USE DEF Created
<1> DEFINE order == Order(k, side)
<1>1. CASE route # I!Live
  BY <1>1 DEF I!Create, Order, With
<1>2. CASE route = I!Live
  <2>1. PICK a \in I!create(y1, y2, order, props, OrderLimit) :
          /\ I!FinishLive(a)
          /\ y7' = IF a.answer # "ok" THEN failed
                   ELSE IF side = "buy" THEN [ok EXCEPT !.made = @ \cup {order.id}] ELSE ok
          /\ y10' = (y10 \/ a.answer = "lost")
    BY <1>2 DEF I!Create, Order
  <2>2. \/ a = I!Answer(y1, y2, "refused")
        \/ a = I!Answer(y1 \cup {order}, y2 \cup {With(order, props)}, "ok")
        \/ a = I!Answer(y1 \cup {order}, y2, "lost")
        \/ a = I!Answer(y1, y2, "failed")
    BY DEF I!create, With
  <2>3. order.id = I!NewId(k, side)
    BY DEF Order
  <2> HIDE DEF order
  <2>4. ASSUME NEW m, NEW c, NEW answer \in {"ok", "lost", "failed", "refused"}, a = I!Answer(m, c, answer)
        PROVE  a.market = m /\ a.cache = c /\ a.answer = answer
    BY <2>4 DEF I!Answer
  <2>5. y3' = y3 /\ y1' = a.market /\ y2' \in IF a.answer = "refused" THEN {a.cache, I!my_orders(a.market, I!Blank)}
                                              ELSE {a.cache}
    BY <2>1 DEF I!FinishLive
  <2>6. CASE a = I!Answer(y1, y2, "refused") \/ a = I!Answer(y1, y2, "failed")
    <3>1. a.market = y1 /\ a.cache = y2 /\ a.answer \in {"failed", "refused"}
      BY <2>4, <2>6
    <3> QED BY <1>2, <2>1, <2>5, <3>1
  <2>7. CASE a = I!Answer(y1 \cup {order}, y2 \cup {With(order, props)}, "ok")
    <3>1. a.market = y1 \cup {order} /\ a.cache = y2 \cup {With(order, props)} /\ a.answer = "ok"
      BY <2>4, <2>7
    <3> QED BY <1>2, <2>1, <2>3, <2>5, <3>1 DEF order
  <2>8. CASE a = I!Answer(y1 \cup {order}, y2, "lost")
    <3>1. a.market = y1 \cup {order} /\ a.cache = y2 /\ a.answer = "lost"
      BY <2>4, <2>8
    <3> QED BY <1>2, <2>1, <2>5, <3>1 DEF order
  <2> QED BY <2>2, <2>6, <2>7, <2>8
<1> QED
  BY <1>1, <1>2

-----------------------------------------------------------------------------
(* One order for a key and side.                                             *)

\* The fields of the cycle.
LEMMA CycleFields ==
  /\ DOMAIN I!Idle = {"pc", "warm", "entries", "left", "ops", "at", "backlog", "wish_list", "existing",
                      "interrupted", "just_started", "kept", "given_up", "made", "sold"}
  /\ I!Idle.pc = "idle" /\ I!Ended = I!Idle /\ I!First.pc = "idle" /\ DOMAIN I!First = DOMAIN I!Idle
BY DEF I!Idle, I!Ended, I!First

\* What a step makes of the cycle, where a sale that waits for a slot waits on.
Waits(c) == /\ DOMAIN c = DOMAIN I!Idle
            /\ c.pc \in {"slot", "sale"} => y7.pc \in {"slot", "sale"} /\ c.at = y7.at

\* A step that adds no order to the market or the cache.
LEMMA OrdersAfter ==
  ASSUME I!OrdersInv, y1' \subseteq y1,
         \A o \in y2' \cup y3' : I!Identified(o),
         y8' # I!NoAnswer => y8' \subseteq y1 \/ y8' = y8,
         y10' \in BOOLEAN, y10 => y10',
         y10' \/ From(y2', y2), y10' \/ From(y1', y2'),
         \/ Waits(y7')
         \/ DOMAIN y7' = DOMAIN I!Idle /\ (y10' \/ I!find_order(y2', I!The(y7'.at), "sell") = {})
  PROVE  (I!OrdersInv)'
<1>1. (\A o \in y1 \cup y2 \cup y3 : I!Identified(o))'
  BY DEF I!OrdersInv, I!Identified
<1>2. (y8 # I!NoAnswer => \A o \in y8 : I!Identified(o))'
  BY DEF I!OrdersInv, I!Identified, I!NoAnswer
<1>5. (y10 \/ \A o \in y1 : \E c \in y2 : c.id = o.id)'
  BY DEF From, Alike
<1>6. (y7.pc \in {"slot", "sale"} => y10 \/ I!find_order(y2, I!The(y7.at), "sell") = {})'
  <2>1. CASE Waits(y7') /\ y7'.pc \in {"slot", "sale"} /\ ~y10'
    <3>1. y7.pc \in {"slot", "sale"} /\ y7'.at = y7.at /\ ~y10 /\ From(y2', y2)
      BY <2>1 DEF Waits
    <3>2. I!find_order(y2, I!The(y7.at), "sell") = {}
      BY <3>1 DEF I!OrdersInv
    <3>3. I!The(y7'.at) = I!The(y7.at)
      BY <3>1
    <3>4. PICK k : k = I!The(y7.at)
      OBVIOUS
    <3>5. I!find_order(y2', k, "sell") = {}
      BY <3>1, <3>2, <3>4 DEF I!find_order, I!OfSide, From, Alike
    <3> QED BY <3>3, <3>4, <3>5
  <2> QED BY <2>1
<1>7. (I!OneOrderPerKey)'
  BY DEF I!OrdersInv, I!OneOrderPerKey
<1>8. (DOMAIN y7 = DOMAIN I!Idle)'
  BY DEF Waits, I!Idle
<1> QED
  BY <1>1, <1>2, <1>5, <1>6, <1>7, <1>8 DEF I!OrdersInv

\* What the cache keeps up with.
LEMMA OrderFacts ==
  ASSUME I!OrdersInv
  PROVE  /\ y10 \in BOOLEAN /\ DOMAIN y7 = DOMAIN I!Idle
         /\ \A o \in y1 \cup y2 \cup y3 : I!Identified(o)
         /\ y10 \/ From(y1, y2)
         /\ \A list : From(list, list)
BY DEF I!OrdersInv, From, Alike, I!Identified

\* A step that leaves the lists alone, or drops what was asked for.
LEMMA OrdersQuiet ==
  ASSUME I!OrdersInv, y1' = y1, y2' = y2, \A o \in y3' : I!Identified(o), y10' = y10,
         y8' # I!NoAnswer => y8' \subseteq y1 \/ y8' = y8,
         \/ Waits(y7')
         \/ DOMAIN y7' = DOMAIN I!Idle /\ (y10' \/ I!find_order(y2', I!The(y7'.at), "sell") = {})
  PROVE  (I!OrdersInv)'
BY OrdersAfter, OrderFacts

\* Anything but a create.
LEMMA OrdersAfterRefresh ==
  ASSUME I!OrdersInv, y1' = y1, y2' = I!my_orders(y1, I!Blank), y3' = y3, y10' = y10, y8' = y8, Waits(y7')
  PROVE  (I!OrdersInv)'
<1>1. \A o \in y1 : I!Identified(o)
  BY OrderFacts
<1>2. (\A o \in y2' : I!Identified(o)) /\ From(y2', y1) /\ From(y1, y2')
  BY <1>1, RefreshedList
<1>3. y10' \/ From(y2', y2)
  BY <1>2, OrderFacts DEF From, Alike
<1>4. \A o \in y2' \cup y3' : I!Identified(o)
  BY <1>2, OrderFacts
<1>5. y10' \in BOOLEAN /\ (y10 => y10') /\ (y10' \/ From(y1', y2'))
  BY <1>2, OrderFacts
<1> QED
  BY <1>3, <1>4, <1>5, OrdersAfter

\* The orders after a deletion.
LEMMA OrdersAfterDelete ==
  ASSUME I!OrdersInv, NEW id, NEW ok, NEW failed, I!Delete(id, ok, failed), y10' = y10, y8' = y8,
         Waits(ok), Waits(failed)
  PROVE  (I!OrdersInv)'
<1>1. \A list : From(I!remove_by_id(list, id), list) /\ I!remove_by_id(list, id) \subseteq list
  BY RemovedFrom
<1>2. y10' \/ From(I!remove_by_id(y1, id), I!remove_by_id(y2, id))
  BY OrderFacts DEF From, Alike, I!remove_by_id
<1>3. y10' \/ From(I!remove_by_id(y1, id), y2)
  BY OrderFacts DEF From, Alike, I!remove_by_id
<1>4. \A o \in y2 \cup y3 \cup I!remove_by_id(y2, id) \cup I!remove_by_id(y3, id) : I!Identified(o)
  BY <1>1, OrderFacts
<1>5. y10' \in BOOLEAN /\ (y10 => y10') /\ From(y2, y2) /\ (y10' \/ From(y1, y2))
  BY OrderFacts
<1>6. Waits(y7')
  BY DeleteOutcomes
<1>7. CASE y1' = y1 /\ y2' = y2
  <2>1. \A o \in y3' : I!Identified(o)
    BY <1>4, <1>7, DeleteOutcomes
  <2> QED BY <1>6, <1>7, <2>1, OrdersQuiet
<1>8. CASE y1' = I!remove_by_id(y1, id) /\ y2' \in {y2, I!remove_by_id(y2, id)} /\ y3' = y3
  <2>1. y1' \subseteq y1 /\ From(y2', y2) /\ (y10' \/ From(y1', y2')) /\ \A o \in y2' \cup y3' : I!Identified(o)
    BY <1>1, <1>2, <1>3, <1>4, <1>5, <1>8
  <2> QED BY <1>5, <1>6, <2>1, OrdersAfter
<1>9. CASE y1' = y1 /\ y2' = I!my_orders(y1, I!Blank) /\ y3' = y3
  BY <1>6, <1>9, OrdersAfterRefresh
<1> QED
  BY <1>7, <1>8, <1>9, DeleteOutcomes

\* The orders after an update.
LEMMA OrdersAfterUpdate ==
  ASSUME I!OrdersInv, NEW o, NEW props, DOMAIN props = {"wish"}, NEW ok, NEW failed,
         I!Update(o, props, ok, failed), y10' = y10, y8' = y8, Waits(ok), Waits(failed)
  PROVE  (I!OrdersInv)'
<1>1. /\ \A p \in I!update(y2, o.id, props) \cup I!update(y3, o.id, props) : I!Identified(p)
      /\ From(I!update(y2, o.id, props), y2) /\ From(y2, I!update(y2, o.id, props))
  BY UpdatedList, OrderFacts
<1>2. y10' \in BOOLEAN /\ (y10 => y10') /\ (y10' \/ From(y1, y2)) /\ \A p \in y2 \cup y3 : I!Identified(p)
  BY OrderFacts
<1>3. y10' \/ From(y1, I!update(y2, o.id, props))
  BY <1>1, <1>2 DEF From, Alike
<1>4. Waits(y7')
  BY UpdateOutcomes
<1>5. CASE y1' = y1 /\ y2' = y2 /\ y3' \in {y3, I!update(y3, o.id, props)}
  <2>1. \A p \in y3' : I!Identified(p)
    BY <1>1, <1>2, <1>5
  <2> QED BY <1>4, <1>5, <2>1, OrdersQuiet
<1>6. CASE y1' = y1 /\ y2' = I!update(y2, o.id, props) /\ y3' = y3
  <2>1. y1' \subseteq y1 /\ From(y2', y2) /\ (y10' \/ From(y1', y2')) /\ \A p \in y2' \cup y3' : I!Identified(p)
    BY <1>1, <1>2, <1>3, <1>6
  <2> QED BY <1>2, <1>4, <2>1, OrdersAfter
<1>7. CASE y1' = y1 /\ y2' = I!my_orders(y1, I!Blank) /\ y3' = y3
  BY <1>4, <1>7, OrdersAfterRefresh
<1> QED
  BY <1>5, <1>6, <1>7, UpdateOutcomes

\* A create: the cache knows of no such order, hence the market has none.
LEMMA OrdersAfterCreate ==
  ASSUME I!OrdersInv, NEW route, NEW k, NEW side, NEW props, DOMAIN props = {"wish"}, NEW ok, NEW failed,
         I!Create(route, k, side, props, ok, failed), y8' = y8, Waits(failed),
         DOMAIN ok = DOMAIN I!Idle, ok.pc \notin {"slot", "sale"},
         route = I!Live => y10 \/ I!find_order(y2, k, side) = {}
  PROVE  (I!OrdersInv)'
<1> DEFINE order == Order(k, side)
           cached == With(order, props)
           done == IF side = "buy" THEN [ok EXCEPT !.made = @ \cup {I!NewId(k, side)}] ELSE ok
<1>1. /\ order.key = k /\ order.side = side /\ order.id = I!NewId(k, side)
      /\ I!Identified(order)
  BY DEF Order, I!NewId, I!Identified
<1>2. I!Identified(cached) /\ Alike(cached, order)
  BY <1>1, CachedOrder DEF With
<1>3. Waits(done) /\ Waits(ok)
  BY CycleFields DEF Waits
<1>4. /\ y10 \in BOOLEAN /\ (y10 \/ From(y1, y2)) /\ \A o \in y1 \cup y2 \cup y3 : I!Identified(o)
  BY OrderFacts
<1>5. \/ /\ route # I!Live /\ y1' = y1 /\ y2' = y2 /\ y3' = y3 \cup {cached} /\ y7' = ok /\ y10' = y10
      \/ /\ route = I!Live /\ y1' = y1 \cup {order} /\ y2' = y2 \cup {cached} /\ y3' = y3
         /\ y7' = done /\ y10' = y10
      \/ /\ route = I!Live /\ y1' = y1 \cup {order} /\ y2' = y2 /\ y3' = y3 /\ y7' = failed /\ y10' = TRUE
      \/ /\ route = I!Live /\ y1' = y1 /\ y2' \in {y2, I!my_orders(y1, I!Blank)} /\ y3' = y3
         /\ y7' = failed /\ y10' = y10
  <2>1. Created(route, k, side, props, ok, failed)
    BY <1>4, CreateOutcomes
  <2> QED BY <2>1, Zenon DEF Created
<1> HIDE DEF order, cached, done
<1>6. CASE y1' = y1 /\ y2' = y2 /\ y3' \in {y3, y3 \cup {cached}} /\ y10' = y10 /\ Waits(y7')
  <2>1. \A o \in y3' : I!Identified(o)
    BY <1>2, <1>4, <1>6
  <2> QED BY <1>6, <2>1, OrdersQuiet
<1>7. CASE y1' = y1 /\ y2' = I!my_orders(y1, I!Blank) /\ y3' = y3 /\ y10' = y10 /\ Waits(y7')
  BY <1>7, OrdersAfterRefresh
<1>8. CASE /\ route = I!Live /\ y1' = y1 \cup {order} /\ y3' = y3 /\ DOMAIN y7' = DOMAIN I!Idle
           /\ \/ y2' = y2 \cup {cached} /\ y10' = y10 /\ y7'.pc \notin {"slot", "sale"}
              \/ y2' = y2 /\ y10' = TRUE
  <2>1. (\A o \in y1 \cup y2 \cup y3 : I!Identified(o))'
    BY <1>1, <1>2, <1>4, <1>8 DEF I!Identified
  <2>3. (y8 # I!NoAnswer => \A o \in y8 : I!Identified(o))'
    BY DEF I!OrdersInv, I!Identified, I!NoAnswer
  <2>4. (y10 \/ \A o \in y1 : \E c \in y2 : c.id = o.id)'
    BY <1>2, <1>4, <1>8 DEF From, Alike
  <2>5. (y7.pc \in {"slot", "sale"} => y10)'
    BY <1>8
  <2>6. (I!OneOrderPerKey)'
    <3>1. CASE y10'
      BY <3>1 DEF I!OneOrderPerKey
    <3>2. CASE ~y10'
      <4>1. ~y10 /\ From(y1, y2) /\ I!find_order(y2, k, side) = {}
        BY <1>4, <1>8, <3>2
      <4>2. \A o \in y1 : ~(o.key = k /\ o.side = side)
        BY <4>1 DEF From, Alike, I!find_order, I!OfSide
      <4>3. \A o, p \in y1 : o.key = p.key /\ o.side = p.side => o = p
        BY <4>1 DEF I!OrdersInv, I!OneOrderPerKey
      <4>4. \A o, p \in y1' : o.key = p.key /\ o.side = p.side => o = p
        BY <1>1, <1>8, <4>2, <4>3
      <4> QED BY <4>4 DEF I!OneOrderPerKey
    <3> QED BY <3>1, <3>2
  <2>7. (y10 \in BOOLEAN)' /\ (DOMAIN y7 = DOMAIN I!Idle)'
    BY <1>4, <1>8 DEF I!Idle
  <2> QED BY <2>1, <2>3, <2>4, <2>5, <2>6, <2>7 DEF I!OrdersInv
<1>9. DOMAIN done = DOMAIN I!Idle /\ done.pc \notin {"slot", "sale"} /\ DOMAIN failed = DOMAIN I!Idle
  BY CycleFields DEF done, Waits
<1> QED
  BY <1>3, <1>5, <1>6, <1>7, <1>8, <1>9

\* A decision carried out.
LEMMA OrdersAfterProgress ==
  ASSUME I!OrdersInv, NEW side, NEW act, NEW props, DOMAIN props = {"wish"}, NEW done,
         DOMAIN done = DOMAIN I!Idle, done.pc \notin {"slot", "sale"},
         I!progress_order(I!The(y7.at), side, act, props, done), y8' = y8
  PROVE  (I!OrdersInv)'
<1> DEFINE k == I!The(y7.at)
           route == I!route_for(k)
           own == I!find_order(I!OrdersOf(route), k, side)
           room == IF side = "buy" THEN I!CanCreateBuy(route) ELSE I!CanCreate(route)
           blocked == act = "post" /\ own = {} /\ ~room
           slot == blocked /\ side = "sell" /\ route = I!Live /\ I!lowest_profit_buy_order # {}
           Skip == y7' = done /\ UNCHANGED <<y1, y2, y3, y9, y10>>
<1>1. Waits(done) /\ Waits(I!Ended)
  BY CycleFields DEF Waits
<1>2. \/ own = {} /\ I!Create(route, k, side, props, done, I!Ended)
      \/ UNCHANGED y10 /\ \E o \in own : I!Update(o, props, done, I!Ended)
      \/ UNCHANGED y10 /\ \E o \in own : I!Delete(o.id, done, I!Ended)
      \/ slot /\ y7' = [y7 EXCEPT !.pc = "slot"] /\ UNCHANGED <<y1, y2, y3, y9, y10>>
      \/ Skip
  BY DEF I!progress_order
<1>3. CASE own = {} /\ I!Create(route, k, side, props, done, I!Ended)
  <2>1. route = I!Live => I!find_order(y2, k, side) = {}
    BY <1>3 DEF I!OrdersOf
  <2> HIDE DEF route
  <2> QED BY <1>1, <1>3, <2>1, OrdersAfterCreate
<1>4. CASE UNCHANGED y10 /\ \E o \in own : I!Update(o, props, done, I!Ended)
  <2> HIDE DEF own
  <2> QED BY <1>1, <1>4, OrdersAfterUpdate
<1>5. CASE UNCHANGED y10 /\ \E o \in own : I!Delete(o.id, done, I!Ended)
  <2> HIDE DEF own
  <2> QED BY <1>1, <1>5, OrdersAfterDelete
<1>6. CASE slot /\ y7' = [y7 EXCEPT !.pc = "slot"] /\ UNCHANGED <<y1, y2, y3, y9, y10>>
  <2>1. I!find_order(y2, k, "sell") = {}
    BY <1>6 DEF I!OrdersOf
  <2>2. y7'.at = y7.at /\ DOMAIN y7' = DOMAIN I!Idle
    BY <1>6, OrderFacts, CycleFields
  <2>3. I!find_order(y2', I!The(y7'.at), "sell") = {}
    BY <1>6, <2>1, <2>2
  <2> QED BY <1>6, <2>2, <2>3, OrdersQuiet, OrderFacts
<1>7. CASE Skip
  BY <1>1, <1>7, OrdersQuiet, OrderFacts
<1> QED
  BY <1>2, <1>3, <1>4, <1>5, <1>6, <1>7

\* Every step keeps what the orders rest on.
LEMMA OrdersNext ==
  ASSUME I!OrdersInv, I!TraderNext
  PROVE  (I!OrdersInv)'
<1> USE DEF I!Outside, I!At
<1>1. /\ DOMAIN y7 = DOMAIN I!Idle /\ (\A o \in y2 \cup y3 : I!Identified(o)) /\ y10 \in BOOLEAN
      /\ Waits(y7) /\ Waits(I!Idle)
  BY OrderFacts, CycleFields DEF Waits
<1>2. CASE I!BeginCycle
  <2>1. Waits(y7')
    BY <1>2, CycleFields DEF I!BeginCycle, Waits
  <2> QED BY <1>1, <1>2, <2>1, OrdersQuiet DEF I!BeginCycle
<1>3. ASSUME NEW id, NEW ok, NEW failed, I!Delete(id, ok, failed), UNCHANGED <<y4, y5, y6, y8, y10>>,
             Waits(ok), Waits(failed)
      PROVE  (I!OrdersInv)'
  BY <1>3, OrdersAfterDelete
<1>4. \A left : Waits([y7 EXCEPT !.left = left])
  BY <1>1, CycleFields DEF Waits
<1>5. CASE I!delete_unwanted_orders
  <2>1. CASE \E id \in y7.left : I!Delete(id, [y7 EXCEPT !.left = @ \ {id}], [y7 EXCEPT !.left = @ \ {id}])
    <3>1. PICK id \in y7.left : I!Delete(id, [y7 EXCEPT !.left = @ \ {id}], [y7 EXCEPT !.left = @ \ {id}])
      BY <2>1
    <3>2. PICK on : on = [y7 EXCEPT !.left = @ \ {id}]
      OBVIOUS
    <3>3. Waits(on)
      BY <1>4, <3>2
    <3>4. I!Delete(id, on, on)
      BY <3>1, <3>2
    <3> QED BY <1>3, <1>5, <3>3, <3>4 DEF I!delete_unwanted_orders
  <2>2. CASE y7' = [y7 EXCEPT !.left = {}] /\ UNCHANGED <<y1, y2, y3, y9>>
    BY <1>1, <1>4, <1>5, <2>2, OrdersQuiet DEF I!delete_unwanted_orders
  <2> QED BY <1>5, <2>1, <2>2 DEF I!delete_unwanted_orders
<1>6. CASE \/ I!collect_interesting_items \/ I!ReadSlots \/ I!NextEntry \/ I!finalize_fails \/ I!SlotGone
           \/ I!GlobalKnapsack \/ I!EndCycle
  <2>1. Waits(y7')
    BY <1>1, <1>6, CycleFields
       DEF I!collect_interesting_items, I!ReadSlots, I!NextEntry, I!finalize_fails, I!SlotGone,
           I!GlobalKnapsack, I!EndCycle, Waits
  <2>2. UNCHANGED <<y1, y2, y3, y8, y10>>
    BY <1>6 DEF I!collect_interesting_items, I!ReadSlots, I!NextEntry, I!finalize_fails, I!SlotGone,
                I!GlobalKnapsack, I!EndCycle
  <2> QED BY <1>1, <2>1, <2>2, OrdersQuiet
<1>7. \A op : DOMAIN I!After(op) = DOMAIN I!Idle /\ I!After(op).pc = y7.pc
  BY <1>1, CycleFields DEF I!After
<1>8. CASE I!progress_buying \/ I!progress_wish_list \/ I!progress_selling
  <2>1. y7.pc = "entries" /\ y8' = y8
    BY <1>8 DEF I!progress_buying, I!progress_wish_list, I!progress_selling, I!Current
  <2>2. \E side, act, props, op :
          props \in {I!Blank, [wish |-> TRUE]} /\ I!progress_order(I!The(y7.at), side, act, props, I!After(op))
    BY <1>8 DEF I!progress_buying, I!progress_wish_list, I!progress_selling
  <2>3. DOMAIN I!Blank = {"wish"} /\ DOMAIN [wish |-> TRUE] = {"wish"}
    BY DEF I!Blank
  <2>4. PICK side, act, props, op :
          props \in {I!Blank, [wish |-> TRUE]} /\ I!progress_order(I!The(y7.at), side, act, props, I!After(op))
    BY <2>2
  <2>5. DOMAIN props = {"wish"}
    BY <2>3, <2>4
  <2>6. PICK done : done = I!After(op)
    OBVIOUS
  <2>7. DOMAIN done = DOMAIN I!Idle /\ done.pc \notin {"slot", "sale"}
    BY <1>7, <2>1, <2>6
  <2>8. I!progress_order(I!The(y7.at), side, act, props, done)
    BY <2>4, <2>6
  <2> QED BY <2>1, <2>5, <2>7, <2>8, OrdersAfterProgress
<1>9. CASE I!SellSlot
  <2>1. PICK o : I!Delete(o.id, [y7 EXCEPT !.pc = "sale", !.given_up = @ \cup {o}],
                                [y7 EXCEPT !.pc = "entries", !.ops = {}])
    BY <1>9 DEF I!SellSlot
  <2>2. PICK ok, failed : ok = [y7 EXCEPT !.pc = "sale", !.given_up = @ \cup {o}]
                          /\ failed = [y7 EXCEPT !.pc = "entries", !.ops = {}]
    OBVIOUS
  <2>3. Waits(ok) /\ Waits(failed)
    BY <1>1, <1>9, <2>2, CycleFields DEF Waits, I!SellSlot
  <2>4. I!Delete(o.id, ok, failed)
    BY <2>1, <2>2
  <2> QED BY <1>3, <1>9, <2>3, <2>4 DEF I!SellSlot
<1>10. CASE I!SlotSale
  <2>1. PICK ok : ok = [y7 EXCEPT !.pc = "entries", !.ops = {}]
    OBVIOUS
  <2>2. I!Create(I!Live, I!The(y7.at), "sell", I!Blank, ok, I!Ended) /\ y8' = y8 /\ y7.pc = "sale"
    BY <1>10, <2>1 DEF I!SlotSale
  <2>3. DOMAIN ok = DOMAIN I!Idle /\ ok.pc = "entries"
    BY <1>1, <2>1, CycleFields
  <2>4. y10 \/ I!find_order(y2, I!The(y7.at), "sell") = {}
    BY <2>2 DEF I!OrdersInv
  <2>5. DOMAIN I!Blank = {"wish"} /\ Waits(I!Ended)
    BY <1>1, CycleFields DEF I!Blank
  <2> QED BY <2>2, <2>3, <2>4, <2>5, OrdersAfterCreate
<1>11. CASE I!DeleteUnselected
  <2>1. PICK id, on : on = [y7 EXCEPT !.left = @ \ {id}] /\ I!Delete(id, on, on)
    BY <1>11 DEF I!DeleteUnselected
  <2>2. Waits(on)
    BY <1>4, <2>1
  <2> QED BY <1>3, <1>11, <2>1, <2>2 DEF I!DeleteUnselected
<1>12. CASE I!sweep_orphans
  <2>1. Waits(y7') /\ UNCHANGED <<y1, y2, y3, y8, y10>>
    BY <1>1, <1>12, CycleFields DEF I!sweep_orphans, Waits
  <2> QED BY <1>1, <2>1, OrdersQuiet
<1>13. CASE I!DeleteOrphan
  <2>1. PICK id, on : on = [y7 EXCEPT !.left = @ \ {id}]
          /\ I!Delete(id, [on EXCEPT !.given_up = @ \cup I!get_by_id(I!cache_orders, id)], on)
    BY <1>13 DEF I!DeleteOrphan
  <2>2. PICK ok : ok = [on EXCEPT !.given_up = @ \cup I!get_by_id(I!cache_orders, id)]
    OBVIOUS
  <2>3. Waits(on) /\ Waits(ok)
    BY <1>1, <2>1, <2>2, CycleFields DEF Waits
  <2>4. I!Delete(id, ok, on)
    BY <2>1, <2>2
  <2> QED BY <1>3, <1>13, <2>3, <2>4 DEF I!DeleteOrphan
<1>14. CASE I!NewRun
  <2>1. Waits(y7') /\ UNCHANGED <<y1, y2, y8, y10>> /\ \A o \in y3' : I!Identified(o)
    BY <1>1, <1>14, CycleFields DEF I!NewRun, Waits
  <2> QED BY <2>1, OrdersQuiet
<1>15. CASE I!GracePasses
  BY <1>1, <1>15, OrdersQuiet DEF I!GracePasses
<1>16. CASE I!OrderCloses
  <2>1. PICK o \in y1 : /\ y1' = y1 \ {o} /\ y2' \in {y2, I!remove_by_id(y2, o.id)}
                        /\ y7' = IF y7.pc = "idle" \/ o.side = "buy" THEN y7 ELSE [y7 EXCEPT !.sold = @ + 1]
    BY <1>16 DEF I!OrderCloses
  <2>2. Waits(y7') /\ UNCHANGED <<y3, y8, y10>>
    BY <1>1, <1>16, <2>1, CycleFields DEF Waits, I!OrderCloses
  <2>3. From(y2', y2) /\ y2' \subseteq y2
    BY <2>1, RemovedFrom, OrderFacts
  <2>4. y10' \/ From(y1', y2')
    <3>1. CASE y2' = y2
      BY <2>1, <2>2, <3>1, OrderFacts DEF From
    <3>2. CASE y2' = I!remove_by_id(y2, o.id)
      <4>1. y10 \/ \A p \in y1 : p.id = o.id => p = o
        BY OrderFacts DEF I!OrdersInv, I!OneOrderPerKey, I!Identified
      <4>2. y10 \/ \A p \in y1' : p.id # o.id
        BY <2>1, <4>1
      <4> QED BY <2>1, <2>2, <3>2, <4>2, OrderFacts, RemovedFrom DEF From, Alike
    <3> QED BY <2>1, <3>1, <3>2
  <2>5. y1' \subseteq y1 /\ \A p \in y2' \cup y3' : I!Identified(p)
    BY <1>1, <2>1, <2>2, <2>3
  <2> QED BY <1>1, <2>2, <2>3, <2>4, <2>5, OrdersAfter
<1>17. CASE I!RowsChange
  <2>1. Waits(y7') /\ UNCHANGED <<y1, y2, y3, y8, y10>>
    BY <1>1, <1>17, CycleFields DEF I!RowsChange, Waits
  <2> QED BY <1>1, <2>1, OrdersQuiet
<1>18. CASE I!RefreshAsked
  BY <1>1, <1>18, OrdersQuiet DEF I!RefreshAsked
<1>19. CASE I!RefreshAnswered
  <2>1. /\ y2' = I!my_orders(y8, I!Blank) /\ y8 # I!NoAnswer /\ y8' = I!NoAnswer
        /\ y10' = (y10 \/ y1 # y8) /\ UNCHANGED <<y1, y3, y7>>
    BY <1>19 DEF I!RefreshAnswered
  <2>2. \A o \in y8 : I!Identified(o)
    BY <2>1 DEF I!OrdersInv
  <2>3. (\A o \in y2' : I!Identified(o)) /\ From(y2', y8) /\ From(y8, y2')
    BY <2>1, <2>2, RefreshedList
  <2>4. y10' \in BOOLEAN /\ (y10 => y10') /\ (y10' \/ (y1 = y8 /\ From(y1, y2)))
    BY <1>1, <2>1, OrderFacts
  <2>5. (y10' \/ From(y2', y2)) /\ (y10' \/ From(y1', y2'))
    BY <2>1, <2>3, <2>4 DEF From, Alike
  <2>6. (\A o \in y2' \cup y3' : I!Identified(o)) /\ y1' \subseteq y1 /\ Waits(y7') /\ y8' = I!NoAnswer
    BY <1>1, <2>1, <2>3 DEF Waits
  <2> QED BY <2>4, <2>5, <2>6, OrdersAfter
<1> QED
  BY <1>2, <1>5, <1>6, <1>8, <1>9, <1>10, <1>11, <1>12, <1>13, <1>14, <1>15, <1>16, <1>17, <1>18, <1>19
     DEF I!TraderNext

\* The invariant of the orders holds at the start.
LEMMA OrdersInit == I!TraderInit => I!OrdersInv
<1> SUFFICES ASSUME I!TraderInit PROVE I!OrdersInv
  OBVIOUS
<1>1. PICK k \in MayBuy : y1 \in {{}, {[id |-> <<k, "buy", 1>>, key |-> k, side |-> "buy"]}}
  BY DEF I!TraderInit
<1>2. \A o \in y1 : I!Identified(o)
  BY <1>1 DEF I!Identified
<1>3. (\A o \in y2 : I!Identified(o)) /\ From(y1, y2)
  BY <1>2, RefreshedList DEF I!TraderInit
<1>4. \A o \in y3 : I!Identified(o)
  BY <1>3 DEF I!TraderInit
<1>5. \A o, p \in y1 : o = p
  BY <1>1
<1> QED
  BY <1>2, <1>3, <1>4, <1>5, CycleFields
     DEF I!OrdersInv, I!OneOrderPerKey, I!TraderInit, From, Alike

-----------------------------------------------------------------------------
(* The wish-list bids.                                                       *)

\* What a step makes of the cycle when it learns nothing of the wish list.
Goes(c) ==
  \/ c.pc \in {"idle", "unwanted"} /\ c.kept = {} /\ c.given_up = {}
  \/ /\ c.kept = y7.kept /\ c.given_up = y7.given_up /\ c.wish_list = y7.wish_list /\ c.entries = y7.entries
     /\ \/ c.pc \in {"entries", "slot", "sale"} /\ y7.pc \in {"entries", "slot", "sale"}
        \/ c.pc = y7.pc /\ c.left \subseteq y7.left

\* A step whose cycle knows no less of the wish list keeps what is known of it.
LEMMA KeptAfter ==
  ASSUME I!KeptInv, y5' = y5, Goes(y7')
  PROVE  (I!KeptInv)'
<1>1. CASE y7'.pc \in {"idle", "unwanted"} /\ y7'.kept = {} /\ y7'.given_up = {}
  BY <1>1 DEF I!KeptInv, I!WishBidsAreKept, I!Collected
<1>2. CASE y7'.kept = y7.kept /\ y7'.given_up = y7.given_up /\ y7'.wish_list = y7.wish_list
           /\ y7'.entries = y7.entries /\ y7'.pc \in {"entries", "slot", "sale"}
           /\ y7.pc \in {"entries", "slot", "sale"}
  BY <1>2 DEF I!KeptInv, I!WishBidsAreKept, I!Collected
<1>3. CASE y7'.kept = y7.kept /\ y7'.given_up = y7.given_up /\ y7'.wish_list = y7.wish_list
           /\ y7'.entries = y7.entries /\ y7'.pc = y7.pc /\ y7'.left \subseteq y7.left
  BY <1>3 DEF I!KeptInv, I!WishBidsAreKept, I!Collected
<1> QED
  BY <1>1, <1>2, <1>3 DEF Goes

\* The idle cycle.
LEMMA IdleCycle ==
  /\ I!Idle.kept = {} /\ I!Idle.given_up = {} /\ I!Idle.made = {} /\ I!Idle.pc = "idle"
  /\ I!Idle.ops = {} /\ I!Idle.at = {} /\ I!First.ops = {} /\ I!First.at = {}
  /\ I!Idle.backlog = 0 /\ I!Idle.sold = 0 /\ I!First.backlog = 0 /\ I!First.sold = 0
  /\ I!First.kept = {} /\ I!First.given_up = {} /\ I!First.made = {} /\ I!First.pc = "idle"
BY DEF I!Idle, I!First

\* A decision carried out learns nothing of the wish list.
LEMMA ProgressGoes ==
  ASSUME I!OrdersInv, NEW k, NEW side, NEW act, NEW props, NEW done, Goes(done),
         DOMAIN done = DOMAIN I!Idle, y7.pc = "entries",
         I!progress_order(k, side, act, props, done)
  PROVE  Goes(y7')
<1> DEFINE made == [done EXCEPT !.made = @ \cup {I!NewId(k, side)}]
           slot == [y7 EXCEPT !.pc = "slot"]
<1>1. Goes(I!Ended) /\ Goes(made) /\ Goes(slot)
  BY OrderFacts, CycleFields, IdleCycle DEF Goes
<1>2. y7' \in {done, made, I!Ended, slot}
  <2>1. \/ I!Create(I!route_for(k), k, side, props, done, I!Ended)
        \/ \E o : I!Update(o, props, done, I!Ended)
        \/ \E o : I!Delete(o.id, done, I!Ended)
        \/ y7' = [y7 EXCEPT !.pc = "slot"]
        \/ y7' = done
    BY DEF I!progress_order
  <2>2. CASE I!Create(I!route_for(k), k, side, props, done, I!Ended)
    <3>1. Created(I!route_for(k), k, side, props, done, I!Ended)
      BY <2>2, OrderFacts, CreateOutcomes
    <3> QED BY <3>1, Zenon DEF Created
  <2> HIDE DEF made, slot
  <2>3. CASE \E o : I!Update(o, props, done, I!Ended)
    BY <2>3, UpdateOutcomes
  <2>4. CASE \E o : I!Delete(o.id, done, I!Ended)
    BY <2>4, DeleteOutcomes
  <2> QED BY <2>1, <2>2, <2>3, <2>4 DEF slot
<1> HIDE DEF made, slot
<1> QED
  BY <1>1, <1>2

\* Every step keeps what the wish-list bids rest on.
LEMMA KeptNext ==
  ASSUME I!OrdersInv, I!KeptInv, I!TraderNext
  PROVE  (I!KeptInv)'
<1> USE DEF I!Outside, I!At
<1>1. DOMAIN y7 = DOMAIN I!Idle /\ \A o \in y2 \cup y3 : I!Identified(o)
  BY OrderFacts
<1>2. /\ y5 \in [stock : SUBSET MayStock, wish : SUBSET MayWish] /\ y7.kept \subseteq y5.wish
      /\ y7.pc \in {"slots", "entries", "slot", "sale", "cap", "orphans", "idle", "unwanted"}
      /\ y7.pc \in {"idle", "unwanted"} => y7.given_up = {}
      /\ y7.pc \in {"entries", "slot", "sale"} => y7.kept \subseteq y7.wish_list
      /\ "WishList" \in TradeModes => \A o \in y7.given_up : o.key \notin y7.kept
  BY DEF I!KeptInv, I!WishBidsAreKept, I!Collected
<1>3. CASE I!BeginCycle
  <2>1. Goes(y7')
    BY <1>3, CycleFields, IdleCycle DEF I!BeginCycle, Goes
  <2> QED BY <1>3, <2>1, KeptAfter DEF I!BeginCycle
<1>4. ASSUME NEW id, NEW on, on = [y7 EXCEPT !.left = @ \ {id}], y7' = on, y5' = y5 PROVE (I!KeptInv)'
  <2>1. Goes(y7')
    BY <1>1, <1>4, CycleFields DEF Goes
  <2> QED BY <1>4, <2>1, KeptAfter
<1>5. CASE I!delete_unwanted_orders
  <2>1. CASE \E id \in y7.left : I!Delete(id, [y7 EXCEPT !.left = @ \ {id}], [y7 EXCEPT !.left = @ \ {id}])
    BY <1>4, <1>5, <2>1, DeleteOutcomes DEF I!delete_unwanted_orders
  <2>2. CASE y7' = [y7 EXCEPT !.left = {}]
    <3>1. Goes(y7')
      BY <1>1, <2>2, CycleFields DEF Goes
    <3> QED BY <1>5, <3>1, KeptAfter DEF I!delete_unwanted_orders
  <2> QED BY <1>5, <2>1, <2>2 DEF I!delete_unwanted_orders
<1>6. CASE I!collect_interesting_items
  <2>1. PICK candidates :
          y7' = [y7 EXCEPT !.pc = "slots", !.entries = [k \in I!Keys |-> I!Entry(k, candidates)], !.kept = y5.wish]
    BY <1>6 DEF I!collect_interesting_items
  <2>2. y5' = y5 /\ y7.pc = "unwanted"
    BY <1>6 DEF I!collect_interesting_items
  <2>3. /\ y7'.pc = "slots" /\ y7'.kept = y5.wish /\ y7'.given_up = y7.given_up
        /\ y7'.entries = [k \in I!Keys |-> I!Entry(k, candidates)]
    BY <1>1, <2>1, CycleFields
  <2>4. ASSUME NEW k \in y5.wish \ BlacklistedKeys, "WishList" \in TradeModes
        PROVE  "WishList" \in y7'.entries[k]
    <3>1. k \in I!Keys
      BY <1>2 DEF I!Keys
    <3>2. "WishList" \in I!Entry(k, candidates)
      BY <2>4 DEF I!Entry
    <3> QED BY <2>3, <3>1, <3>2
  <2> QED BY <1>2, <2>2, <2>3, <2>4 DEF I!KeptInv, I!WishBidsAreKept, I!Collected
<1>7. CASE I!ReadSlots
  <2>1. y5' = y5 /\ y7.pc = "slots"
    BY <1>7 DEF I!ReadSlots
  <2>2. /\ y7'.pc = "entries" /\ y7'.kept = y7.kept /\ y7'.given_up = y7.given_up /\ y7'.wish_list = y5.wish
        /\ y7'.entries = y7.entries
    BY <1>1, <1>7, CycleFields DEF I!ReadSlots
  <2> QED BY <2>1, <2>2 DEF I!KeptInv, I!WishBidsAreKept, I!Collected
<1>8. CASE I!NextEntry \/ I!finalize_fails \/ I!SlotGone \/ I!EndCycle
  <2>1. Goes(y7') /\ y5' = y5
    BY <1>1, <1>8, CycleFields, IdleCycle DEF I!NextEntry, I!finalize_fails, I!SlotGone, I!EndCycle, Goes
  <2> QED BY <2>1, KeptAfter
<1>9. CASE I!progress_buying \/ I!progress_wish_list \/ I!progress_selling
  <2>1. y7.pc = "entries" /\ y5' = y5
    BY <1>9 DEF I!progress_buying, I!progress_wish_list, I!progress_selling, I!Current
  <2>2. PICK side, act, props, op : I!progress_order(I!The(y7.at), side, act, props, I!After(op))
    BY <1>9 DEF I!progress_buying, I!progress_wish_list, I!progress_selling
  <2>3. PICK done : done = I!After(op)
    OBVIOUS
  <2>4. Goes(done) /\ DOMAIN done = DOMAIN I!Idle
    BY <1>1, <2>3, CycleFields DEF Goes, I!After
  <2>5. I!progress_order(I!The(y7.at), side, act, props, done)
    BY <2>2, <2>3
  <2>6. PICK k : k = I!The(y7.at)
    OBVIOUS
  <2>7. Goes(y7')
    BY <2>1, <2>4, <2>5, <2>6, ProgressGoes
  <2> QED BY <2>1, <2>7, KeptAfter
<1>10. CASE I!SellSlot
  <2>1. PICK o \in I!lowest_profit_buy_order :
          I!Delete(o.id, [y7 EXCEPT !.pc = "sale", !.given_up = @ \cup {o}],
                         [y7 EXCEPT !.pc = "entries", !.ops = {}])
    BY <1>10 DEF I!SellSlot
  <2>2. y5' = y5 /\ y7.pc = "slot" /\ o.key \notin y7.wish_list
    BY <1>10 DEF I!SellSlot, I!lowest_profit_buy_order, I!Sacrificable
  <2>3. CASE y7' = [y7 EXCEPT !.pc = "sale", !.given_up = @ \cup {o}]
    <3>1. /\ y7'.pc = "sale" /\ y7'.kept = y7.kept /\ y7'.given_up = y7.given_up \cup {o}
          /\ y7'.wish_list = y7.wish_list /\ y7'.entries = y7.entries
      BY <1>1, <2>3, CycleFields
    <3> QED BY <2>2, <3>1 DEF I!KeptInv, I!WishBidsAreKept, I!Collected
  <2>4. CASE y7' = [y7 EXCEPT !.pc = "entries", !.ops = {}]
    <3>1. Goes(y7')
      BY <1>1, <2>2, <2>4, CycleFields DEF Goes
    <3> QED BY <2>2, <3>1, KeptAfter
  <2> QED BY <2>1, <2>3, <2>4, DeleteOutcomes
<1>11. CASE I!SlotSale
  <2>1. PICK ok : ok = [y7 EXCEPT !.pc = "entries", !.ops = {}]
    OBVIOUS
  <2>2. PICK k : k = I!The(y7.at)
    OBVIOUS
  <2>3. I!Create(I!Live, k, "sell", I!Blank, ok, I!Ended) /\ y5' = y5 /\ y7.pc = "sale"
    BY <1>11, <2>1, <2>2 DEF I!SlotSale
  <2>4. Created(I!Live, k, "sell", I!Blank, ok, I!Ended)
    BY <2>3, OrderFacts, CreateOutcomes
  <2>5. y7' = ok \/ y7' = I!Ended
    BY <2>4 DEF Created
  <2>6. Goes(ok) /\ Goes(I!Ended)
    BY <1>1, <2>1, <2>3, CycleFields, IdleCycle DEF Goes
  <2> QED BY <2>3, <2>5, <2>6, KeptAfter
<1>12. CASE I!GlobalKnapsack
  <2>1. /\ y5' = y5 /\ y7.pc = "entries" /\ y7'.pc = "cap" /\ y7'.kept = y7.kept /\ y7'.given_up = {}
        /\ y7'.entries = y7.entries
    BY <1>12, CycleFields, IdleCycle DEF I!GlobalKnapsack
  <2> QED BY <2>1 DEF I!KeptInv, I!WishBidsAreKept, I!Collected
<1>13. CASE I!DeleteUnselected
  BY <1>4, <1>13, DeleteOutcomes DEF I!DeleteUnselected
<1>14. CASE I!sweep_orphans
  <2>1. y5' = y5 /\ y7.pc = "cap"
    BY <1>14 DEF I!sweep_orphans
  <2>2. CASE y7' = I!Ended
    <3>1. Goes(y7')
      BY <2>2, CycleFields, IdleCycle DEF Goes
    <3> QED BY <2>1, <3>1, KeptAfter
  <2> DEFINE orphans == {o.id : o \in I!orphan_buy_orders}
  <2>3. CASE y7' = [y7 EXCEPT !.pc = "orphans", !.left = I!due_orphans(orphans)]
    <3>1. /\ y7'.pc = "orphans" /\ y7'.kept = y7.kept /\ y7'.given_up = y7.given_up
          /\ y7'.entries = y7.entries /\ y7'.left \subseteq orphans
      BY <1>1, <2>3, CycleFields DEF I!due_orphans
    <3>2. ASSUME NEW id \in y7'.left, "WishList" \in TradeModes, id[1] \in y7.kept PROVE FALSE
      <4>1. PICK o \in I!orphan_buy_orders : id = o.id
        BY <3>1, <3>2
      <4>2. o \in y2 \cup y3 /\ o.key \notin BlacklistedKeys /\ "WishList" \notin y7.entries[o.key]
        BY DEF I!orphan_buy_orders, I!OfSide, I!cache_orders
      <4>3. id[1] = o.key
        BY <1>1, <4>1, <4>2 DEF I!Identified
      <4>4. "WishList" \in y7.entries[o.key]
        BY <2>1, <3>2, <4>2, <4>3 DEF I!KeptInv, I!Collected
      <4> QED BY <4>2, <4>4
    <3> HIDE DEF orphans
    <3> QED BY <2>1, <3>1, <3>2 DEF I!KeptInv, I!WishBidsAreKept, I!Collected
  <2> QED BY <1>14, <2>2, <2>3 DEF I!sweep_orphans
<1>15. CASE I!DeleteOrphan
  <2>1. PICK id \in y7.left : \E on : /\ on = [y7 EXCEPT !.left = @ \ {id}]
                                   /\ I!Delete(id, [on EXCEPT !.given_up = @ \cup I!get_by_id(I!cache_orders, id)], on)
    BY <1>15 DEF I!DeleteOrphan
  <2> PICK on : /\ on = [y7 EXCEPT !.left = @ \ {id}]
                /\ I!Delete(id, [on EXCEPT !.given_up = @ \cup I!get_by_id(I!cache_orders, id)], on)
    BY <2>1
  <2>2. y5' = y5 /\ y7.pc = "orphans"
    BY <1>15 DEF I!DeleteOrphan
  <2>3. CASE y7' = on
    BY <1>4, <2>1, <2>2, <2>3
  <2>4. CASE y7' = [on EXCEPT !.given_up = @ \cup I!get_by_id(I!cache_orders, id)]
    <3>1. /\ y7'.pc = "orphans" /\ y7'.kept = y7.kept /\ y7'.left \subseteq y7.left /\ y7'.entries = y7.entries
          /\ y7'.given_up = y7.given_up \cup I!get_by_id(I!cache_orders, id)
      BY <1>1, <2>1, <2>2, <2>4, CycleFields
    <3>2. ASSUME NEW o \in I!get_by_id(I!cache_orders, id), "WishList" \in TradeModes
          PROVE  o.key \notin y7.kept
      <4>1. o \in y2 \cup y3 /\ o.id = id
        BY DEF I!get_by_id, I!cache_orders
      <4>2. id[1] \notin y7.kept
        BY <2>1, <2>2, <3>2 DEF I!KeptInv
      <4> QED BY <1>1, <4>1, <4>2 DEF I!Identified
    <3> QED BY <2>2, <3>1, <3>2 DEF I!KeptInv, I!WishBidsAreKept, I!Collected
  <2> QED BY <2>1, <2>3, <2>4, DeleteOutcomes
<1>16. CASE I!NewRun
  <2>1. Goes(y7') /\ y5' = y5
    BY <1>16, IdleCycle DEF I!NewRun, Goes
  <2> QED BY <2>1, KeptAfter
<1>17. CASE I!GracePasses \/ I!RefreshAsked \/ I!RefreshAnswered
  <2>1. y7' = y7 /\ y5' = y5
    BY <1>17 DEF I!GracePasses, I!RefreshAsked, I!RefreshAnswered
  <2> QED BY <2>1, KeptAfter DEF Goes
<1>18. CASE I!OrderCloses
  <2>1. Goes(y7') /\ y5' = y5
    BY <1>1, <1>18, CycleFields DEF I!OrderCloses, Goes
  <2> QED BY <2>1, KeptAfter
<1>19. CASE I!RowsChange
  <2>1. y5' \in [stock : SUBSET MayStock, wish : SUBSET MayWish]
    <3>1. CASE \E k \in MayStock :
                 y5' \in {[y5 EXCEPT !.stock = @ \cup {k}], [y5 EXCEPT !.stock = @ \ {k}]}
      BY <1>2, <3>1
    <3>2. CASE \E k \in MayWish :
                 y5' \in {[y5 EXCEPT !.wish = @ \cup {k}], [y5 EXCEPT !.wish = @ \ {k}]}
      BY <1>2, <3>2
    <3> QED BY <1>19, <3>1, <3>2 DEF I!RowsChange
  <2>2. /\ y7'.kept = y7.kept \cap y5'.wish /\ y7'.given_up = y7.given_up /\ y7'.wish_list = y7.wish_list
        /\ y7'.entries = y7.entries /\ y7'.pc = y7.pc /\ y7'.left = y7.left
    BY <1>1, <1>19, CycleFields DEF I!RowsChange
  <2> QED BY <2>1, <2>2 DEF I!KeptInv, I!WishBidsAreKept, I!Collected
<1> QED
  BY <1>3, <1>5, <1>6, <1>7, <1>8, <1>9, <1>10, <1>11, <1>12, <1>13, <1>14, <1>15, <1>16, <1>17, <1>18, <1>19
     DEF I!TraderNext

\* The wish list's invariant holds at the start.
LEMMA KeptInit == I!TraderInit => I!KeptInv
BY IdleCycle DEF I!TraderInit, I!KeptInv, I!WishBidsAreKept, I!Collected
-----------------------------------------------------------------------------
(* The slots: counting.                                                      *)

\* The library's operators are the same in the instance.
LEMMA ItemFinite ==
  /\ \A Q : I!IsFiniteSet(Q) = IsFiniteSet(Q)
  /\ \A Q : I!Cardinality(Q) = Cardinality(Q)
BY DEF I!IsFiniteSet, IsFiniteSet, I!Cardinality, Cardinality

\* The image of a finite set is no larger.
LEMMA FiniteImage ==
  ASSUME NEW T, IsFiniteSet(T), NEW Q, NEW f, f \in Surjection(T, Q)
  PROVE  IsFiniteSet(Q) /\ Cardinality(Q) <= Cardinality(T)
BY FS_Surjection

\* One element more.
LEMMA OneMore ==
  ASSUME NEW T, IsFiniteSet(T), NEW x
  PROVE  IsFiniteSet(T \cup {x}) /\ Cardinality(T \cup {x}) <= Cardinality(T) + 1
<1>1. Cardinality(T) \in Nat
  BY FS_CardinalityType
<1>2. CASE x \in T
  <2>1. T \cup {x} = T
    BY <1>2
  <2> QED BY <1>1, <2>1
<1>3. CASE x \notin T
  <2>1. IsFiniteSet(T \cup {x}) /\ Cardinality(T \cup {x}) = Cardinality(T) + 1
    BY <1>3, FS_AddElement
  <2> QED BY <1>1, <2>1
<1> QED
  BY <1>2, <1>3

\* A cycle's keys that may still post a sale, the pending and the stale sales of
\* any cycle, market and cache.
Turns == {"entries", "slot", "sale"}
Due(c, k) == k \in c.left \/ (k \in c.at /\ ("Sell" \in c.ops \/ c.pc \in {"slot", "sale"}))
PendingOf(c, list) ==
  {k \in I!Keys : "Sell" \in c.entries[k] /\ k \in c.warm /\ I!find_order(list, k, "sell") = {} /\ Due(c, k)}
StaleOf(m, list) == {id \in I!order_ids(list, "sell") : I!get_by_id(m, id) = {}}
Load(c, m, list) == Cardinality(PendingOf(c, list)) + Cardinality(StaleOf(m, list))

Weighed(c, m, list) ==
  /\ Load(c, m, list) <= c.backlog + c.sold
  /\ c.made # {} => Cardinality(list) + Load(c, m, list) + SellSlotMargin <= OrderLimit + c.sold

Shaped(c, dry) ==
  /\ c.backlog \in Nat /\ c.sold \in Nat
  /\ c.pc \notin Turns => c.ops = {} /\ c.at = {}
  /\ c.pc \notin Turns \/ dry => c.made = {}
  /\ c.pc \in {"slot", "sale"} =>
       \E k \in I!Keys : c.at = {k} /\ "Sell" \in c.entries[k] /\ k \in c.warm /\ ~dry
  /\ c.pc = "entries" /\ c.ops # {} => \E k \in I!Keys : c.at = {k} /\ c.ops \subseteq c.entries[k]
  /\ c.pc \in Turns => c.left \subseteq I!Keys \ c.at

Fresh(c, doubt) == doubt \/ c.sold > SellSlotMargin \/ \A o \in c.given_up : o.id \notin c.made
Spare(c, doubt) == doubt \/ c.sold > SellSlotMargin \/ c.made = {}

Slots(m, list, dry, c, a, doubt) ==
  /\ IsFiniteSet(m) /\ IsFiniteSet(list) /\ IsFiniteSet(a)
  /\ Shaped(c, dry)
  /\ c.pc \in Turns /\ ~dry => doubt \/ Weighed(c, m, list)
  /\ c.pc = "slot" => Spare(c, doubt)
  /\ Fresh(c, doubt)

\* SlotsInv says that of the trader's own.
LEMMA SlotsAre ==
  /\ I!SlotsInv <=> Slots(y1, y2, y4, y7, y8, y10)
  /\ (I!SlotsInv)' <=> Slots(y1', y2', y4', y7', y8', y10')
<1>1. I!Pending = PendingOf(y7, y2)
  BY DEF I!Pending, PendingOf, Due
<1>2. I!Stale = StaleOf(y1, y2)
  BY DEF I!Stale, StaleOf
<1>3. I!Cardinality(I!Pending) = Cardinality(PendingOf(y7, y2)) /\ I!Cardinality(I!Stale) = Cardinality(StaleOf(y1, y2))
  BY <1>1, <1>2, ItemFinite
<1>4. I!Cardinality(y2) = Cardinality(y2) /\ \A Q : I!IsFiniteSet(Q) = IsFiniteSet(Q)
  BY ItemFinite
<1>5. I!SlotsInv <=> Slots(y1, y2, y4, y7, y8, y10)
  BY <1>3, <1>4 DEF I!SlotsInv, I!Load, Slots, Shaped, Weighed, Load, Fresh, Spare, Turns, I!FreshBidsSurvive
<1>6. (I!Pending)' = PendingOf(y7', y2')
  BY DEF I!Pending, PendingOf, Due
<1>7. (I!Stale)' = StaleOf(y1', y2')
  BY DEF I!Stale, StaleOf
<1>8. /\ (I!Cardinality(I!Pending))' = Cardinality(PendingOf(y7', y2'))
      /\ (I!Cardinality(I!Stale))' = Cardinality(StaleOf(y1', y2'))
  BY <1>6, <1>7, ItemFinite
<1>9. I!Cardinality(y2') = Cardinality(y2')
  BY ItemFinite
<1>10. (I!SlotsInv)' <=> Slots(y1', y2', y4', y7', y8', y10')
  BY <1>4, <1>8, <1>9 DEF I!SlotsInv, I!Load, Slots, Shaped, Weighed, Load, Fresh, Spare, Turns, I!FreshBidsSurvive
<1> QED
  BY <1>5, <1>10

\* Pending and stale sales can be counted.
LEMMA Countable ==
  ASSUME NEW list, IsFiniteSet(list), NEW c, NEW m
  PROVE  /\ IsFiniteSet(PendingOf(c, list)) /\ Cardinality(PendingOf(c, list)) \in Nat
         /\ IsFiniteSet(StaleOf(m, list)) /\ Cardinality(StaleOf(m, list)) \in Nat
         /\ Cardinality(list) \in Nat
<1>1. IsFiniteSet(PendingOf(c, list))
  BY TraderAssumption, FS_Subset DEF PendingOf, I!Keys
<1>2. IsFiniteSet(StaleOf(m, list))
  <2> DEFINE sales == {o \in list : o.side = "sell"}
             f == [o \in sales |-> o.id]
  <2>1. IsFiniteSet(sales)
    BY FS_Subset
  <2>2. f \in Surjection(sales, {o.id : o \in sales})
    BY DEF Surjection
  <2>3. IsFiniteSet({o.id : o \in sales})
    BY <2>1, <2>2, FiniteImage
  <2>4. StaleOf(m, list) \subseteq {o.id : o \in sales}
    BY DEF StaleOf, I!order_ids, I!OfSide
  <2> QED BY <2>3, <2>4, FS_Subset
<1> QED
  BY <1>1, <1>2, FS_CardinalityType

\* A smaller load weighs no more.
LEMMA WeighsLess ==
  ASSUME NEW c, NEW m, NEW list, NEW d, NEW n, NEW cache, IsFiniteSet(list), IsFiniteSet(cache),
         PendingOf(d, cache) \subseteq PendingOf(c, list), StaleOf(n, cache) \subseteq StaleOf(m, list),
         Cardinality(cache) <= Cardinality(list), c.backlog \in Nat, c.sold \in Nat,
         d.backlog = c.backlog, d.sold = c.sold, d.made = c.made, Weighed(c, m, list)
  PROVE  Weighed(d, n, cache)
<1>1. /\ Cardinality(PendingOf(d, cache)) <= Cardinality(PendingOf(c, list))
      /\ Cardinality(StaleOf(n, cache)) <= Cardinality(StaleOf(m, list))
  BY Countable, FS_Subset
<1>2. /\ {Cardinality(PendingOf(c, list)), Cardinality(PendingOf(d, cache)), Cardinality(StaleOf(m, list)),
          Cardinality(StaleOf(n, cache)), Cardinality(list), Cardinality(cache)} \subseteq Nat
      /\ SellSlotMargin \in Nat /\ OrderLimit \in Nat
  BY Countable, TraderAssumption
<1> QED
  BY <1>1, <1>2 DEF Weighed, Load

-----------------------------------------------------------------------------
(* What the calls do to the counts.                                          *)

\* The cycle goes on, with no more sales to post than before.
Lesser(d, c) == /\ d.entries = c.entries /\ d.warm = c.warm
                /\ \A k \in I!Keys : Due(d, k) => Due(c, k)
GoesOn(d, c) == /\ d.pc \in Turns /\ c.pc \in Turns /\ Lesser(d, c)
                /\ d.backlog = c.backlog /\ d.sold = c.sold /\ d.made = c.made

\* A list that has the sales of another one leaves no more of them pending.
LEMMA PendingLess ==
  ASSUME NEW c, NEW d, Lesser(d, c), NEW list, NEW cache, From(I!OfSide(list, "sell"), cache)
  PROVE  PendingOf(d, cache) \subseteq PendingOf(c, list)
BY DEF Lesser, PendingOf, From, Alike, I!find_order, I!OfSide

\* An update.
LEMMA WeighUpdate ==
  ASSUME NEW c, NEW d, GoesOn(d, c), c.backlog \in Nat, c.sold \in Nat, NEW m, NEW list, IsFiniteSet(list),
         \A o \in list : I!Identified(o), NEW id, NEW change, DOMAIN change = {"wish"}
  PROVE  /\ IsFiniteSet(I!update(list, id, change))
         /\ Weighed(c, m, list) => Weighed(d, m, I!update(list, id, change))
<1> DEFINE new(o) == IF o.id = id THEN [f \in DOMAIN o |-> IF f \in DOMAIN change THEN change[f] ELSE o[f]]
                     ELSE o
           cache == I!update(list, id, change)
           f == [o \in list |-> new(o)]
<1>1. cache = {new(o) : o \in list}
  BY DEF I!update
<1>2. f \in Surjection(list, cache)
  BY <1>1 DEF Surjection
<1>3. IsFiniteSet(cache) /\ Cardinality(cache) <= Cardinality(list)
  BY <1>2, FiniteImage
<1>4. From(cache, list) /\ From(list, cache)
  BY UpdatedList
<1> HIDE DEF cache
<1>5. From(I!OfSide(list, "sell"), cache)
  BY <1>4 DEF From, I!OfSide
<1>6. PendingOf(d, cache) \subseteq PendingOf(c, list)
  BY <1>5, PendingLess DEF GoesOn
<1>7. StaleOf(m, cache) \subseteq StaleOf(m, list)
  BY <1>4 DEF From, Alike, StaleOf, I!order_ids, I!OfSide
<1>8. Weighed(c, m, list) => Weighed(d, m, cache)
  BY <1>3, <1>6, <1>7, WeighsLess DEF GoesOn
<1> QED
  BY <1>3, <1>8 DEF cache

\* A removal of a bid, or of a sale that is not to be posted again.
LEMMA WeighRemoval ==
  ASSUME NEW c, NEW d, GoesOn(d, c), c.backlog \in Nat, c.sold \in Nat, NEW m, NEW list, IsFiniteSet(list),
         \A o \in list : I!Identified(o), NEW id, id[2] # "sell" \/ ~Due(d, id[1])
  PROVE  /\ IsFiniteSet(I!remove_by_id(list, id))
         /\ Weighed(c, m, list) => Weighed(d, I!remove_by_id(m, id), I!remove_by_id(list, id))
<1> DEFINE cache == I!remove_by_id(list, id)
           n == I!remove_by_id(m, id)
<1>1. cache \subseteq list
  BY RemovedFrom
<1>2. IsFiniteSet(cache) /\ Cardinality(cache) <= Cardinality(list)
  BY <1>1, FS_Subset
<1>3. StaleOf(n, cache) \subseteq StaleOf(m, list)
  BY DEF StaleOf, I!order_ids, I!OfSide, I!get_by_id, I!remove_by_id
<1>4. PendingOf(d, cache) \subseteq PendingOf(c, list)
  <2>1. CASE id[2] # "sell"
    <3>1. From(I!OfSide(list, "sell"), cache)
      BY <2>1 DEF From, Alike, I!OfSide, I!remove_by_id, I!Identified
    <3> QED BY <3>1, PendingLess DEF GoesOn
  <2>2. CASE ~Due(d, id[1])
    <3>1. ASSUME NEW k \in PendingOf(d, cache) PROVE k \in PendingOf(c, list)
      <4>1. k # id[1] /\ k \in I!Keys /\ I!find_order(cache, k, "sell") = {}
        BY <2>2 DEF PendingOf
      <4>2. I!find_order(list, k, "sell") = {}
        BY <4>1 DEF I!find_order, I!OfSide, I!remove_by_id, I!Identified
      <4> QED BY <4>2 DEF PendingOf, GoesOn, Lesser
    <3> QED BY <3>1
  <2> QED BY <2>1, <2>2
<1> HIDE DEF cache, n
<1>5. Weighed(c, m, list) => Weighed(d, n, cache)
  BY <1>2, <1>3, <1>4, WeighsLess DEF GoesOn
<1> QED
  BY <1>2, <1>5 DEF cache, n

\* A bid removed at the market alone.
LEMMA WeighLost ==
  ASSUME NEW c, NEW d, GoesOn(d, c), c.backlog \in Nat, c.sold \in Nat, NEW m, NEW list, IsFiniteSet(list),
         \A o \in list : I!Identified(o), NEW id, id[2] = "buy", Weighed(c, m, list)
  PROVE  Weighed(d, I!remove_by_id(m, id), list)
<1>1. StaleOf(I!remove_by_id(m, id), list) \subseteq StaleOf(m, list)
  BY DEF StaleOf, I!order_ids, I!OfSide, I!get_by_id, I!remove_by_id, I!Identified
<1>2. From(I!OfSide(list, "sell"), list) /\ Cardinality(list) \in Nat
  BY Countable DEF From, Alike, I!OfSide
<1>3. PendingOf(d, list) \subseteq PendingOf(c, list)
  BY <1>2, PendingLess DEF GoesOn
<1> QED
  BY <1>1, <1>2, <1>3, WeighsLess DEF GoesOn

\* The cycle goes on and the lists stay.
LEMMA WeighSame ==
  ASSUME NEW c, NEW d, GoesOn(d, c), c.backlog \in Nat, c.sold \in Nat, NEW m, NEW list, IsFiniteSet(list),
         Weighed(c, m, list)
  PROVE  Weighed(d, m, list)
<1>1. From(I!OfSide(list, "sell"), list) /\ Cardinality(list) \in Nat
  BY Countable DEF From, Alike, I!OfSide
<1>2. PendingOf(d, list) \subseteq PendingOf(c, list)
  BY <1>1, PendingLess DEF GoesOn
<1> QED
  BY <1>1, <1>2, WeighsLess DEF GoesOn

\* A refresh: what becomes pending was stale, and nothing is stale any more.
LEMMA WeighRefresh ==
  ASSUME NEW c, NEW d, GoesOn(d, c), c.backlog \in Nat, c.sold \in Nat,
         NEW m, IsFiniteSet(m), NEW list, IsFiniteSet(list),
         \A o \in m \cup list : I!Identified(o), From(m, list),
         \A o, p \in m : o.key = p.key /\ o.side = p.side => o = p,
         Weighed(c, m, list)
  PROVE  Weighed(d, m, I!my_orders(m, I!Blank))
<1> DEFINE cache == I!my_orders(m, I!Blank)
           new(o) == [g \in DOMAIN o \cup DOMAIN I!Blank |-> IF g \in DOMAIN I!Blank THEN I!Blank[g] ELSE o[g]]
           f == [o \in m |-> new(o)]
<1>1. cache = {new(o) : o \in m}
  BY DEF I!my_orders
<1>2. f \in Surjection(m, cache)
  BY <1>1 DEF Surjection
<1>3. IsFiniteSet(cache) /\ Cardinality(cache) <= Cardinality(m)
  BY <1>2, FiniteImage
<1>4. From(cache, m) /\ From(m, cache)
  BY RefreshedList
<1>5. Cardinality(m) <= Cardinality(list)
  <2> DEFINE ids == {o.id : o \in list}
             g == [o \in list |-> o.id]
             h == [o \in m |-> o.id]
  <2>1. g \in Surjection(list, ids)
    BY DEF Surjection
  <2>2. IsFiniteSet(ids) /\ Cardinality(ids) <= Cardinality(list)
    BY <2>1, FiniteImage
  <2>3. h \in Injection(m, ids)
    <3>1. h \in [m -> ids]
      BY DEF From, Alike
    <3>2. \A o, p \in m : h[o] = h[p] => o = p
      BY DEF I!Identified
    <3> QED BY <3>1, <3>2 DEF Injection, IsInjective
  <2>4. Cardinality(m) <= Cardinality(ids)
    BY <2>2, <2>3, FS_Injection
  <2>5. Cardinality(m) \in Nat /\ Cardinality(ids) \in Nat /\ Cardinality(list) \in Nat
    BY <2>2, FS_CardinalityType
  <2> QED BY <2>2, <2>4, <2>5
<1> HIDE DEF cache
<1>6. StaleOf(m, cache) = {}
  BY <1>4 DEF From, Alike, StaleOf, I!order_ids, I!OfSide, I!get_by_id
<1> DEFINE after == PendingOf(d, cache)
           before == PendingOf(c, list)
           stale == StaleOf(m, list)
           keys == {id[1] : id \in stale}
<1>7. after \subseteq before \cup keys
  <2> SUFFICES ASSUME NEW k \in after, k \notin before PROVE k \in keys
    OBVIOUS
  <2>1. /\ k \in I!Keys /\ "Sell" \in c.entries[k] /\ k \in c.warm /\ Due(c, k)
        /\ I!find_order(cache, k, "sell") = {}
    BY DEF PendingOf, GoesOn, Lesser
  <2>2. PICK o \in list : o.key = k /\ o.side = "sell"
    BY <2>1 DEF PendingOf, I!find_order, I!OfSide
  <2>3. \A p \in m : ~(p.key = k /\ p.side = "sell")
    BY <1>4, <2>1 DEF From, Alike, I!find_order, I!OfSide
  <2>4. \A p \in m : p.id # o.id
    BY <2>2, <2>3 DEF I!Identified
  <2>5. o.id \in stale
    BY <2>2, <2>4 DEF StaleOf, I!order_ids, I!OfSide, I!get_by_id
  <2>6. o.id[1] = k
    BY <2>2 DEF I!Identified
  <2> QED BY <2>5, <2>6
<1>8. IsFiniteSet(keys) /\ Cardinality(keys) <= Cardinality(stale)
  <2> DEFINE g == [id \in stale |-> id[1]]
  <2>1. g \in Surjection(stale, keys)
    BY DEF Surjection
  <2>2. IsFiniteSet(stale)
    BY Countable
  <2> HIDE DEF g, stale, keys
  <2> QED BY <2>1, <2>2, FiniteImage
<1>9. IsFiniteSet(before) /\ IsFiniteSet(stale) /\ IsFiniteSet(after)
  BY <1>3, Countable
<1> HIDE DEF after, before, stale, keys
<1>10. Cardinality(after) <= Cardinality(before) + Cardinality(keys)
  <2>1. IsFiniteSet(before \cup keys) /\ Cardinality(before \cup keys) <= Cardinality(before) + Cardinality(keys)
    <3>1. /\ IsFiniteSet(before \cup keys) /\ IsFiniteSet(before \cap keys)
          /\ Cardinality(before \cup keys) = Cardinality(before) + Cardinality(keys) - Cardinality(before \cap keys)
      BY <1>8, <1>9, FS_Union, FS_Intersection
    <3>2. {Cardinality(before), Cardinality(keys), Cardinality(before \cap keys)} \subseteq Nat
      BY <1>8, <1>9, <3>1, FS_CardinalityType
    <3> QED BY <3>1, <3>2
  <2>2. Cardinality(after) <= Cardinality(before \cup keys)
    BY <1>7, <2>1, FS_Subset
  <2>3. {Cardinality(before), Cardinality(keys), Cardinality(before \cup keys), Cardinality(after)} \subseteq Nat
    BY <1>8, <1>9, <2>1, FS_CardinalityType
  <2> QED BY <2>1, <2>2, <2>3
<1>11. {Cardinality(before), Cardinality(keys), Cardinality(stale), Cardinality(after),
        Cardinality(list), Cardinality(m), Cardinality(cache)} \subseteq Nat
  BY <1>3, <1>8, <1>9, FS_CardinalityType
<1>12. Load(d, m, cache) = Cardinality(after) /\ Load(c, m, list) = Cardinality(before) + Cardinality(stale)
  BY <1>6, <1>11, FS_EmptySet DEF Load, after, before, stale
<1>13. /\ c.backlog \in Nat /\ c.sold \in Nat /\ d.backlog = c.backlog /\ d.sold = c.sold /\ d.made = c.made
       /\ SellSlotMargin \in Nat /\ OrderLimit \in Nat
  BY TraderAssumption DEF GoesOn
<1>14. Weighed(d, m, cache)
  BY <1>3, <1>5, <1>8, <1>10, <1>11, <1>12, <1>13 DEF Weighed
<1> QED
  BY <1>14 DEF cache

\* A bid created where the slots of the cycle's sales and the margin stay free.
LEMMA WeighBid ==
  ASSUME NEW c, NEW e, Lesser(e, c), c.backlog \in Nat, c.sold \in Nat,
         e.backlog = c.backlog, e.sold = c.sold,
         NEW m, NEW list, IsFiniteSet(list), NEW order, NEW cached, Alike(cached, order), order.side = "buy",
         Cardinality(list) + c.backlog + SellSlotMargin < OrderLimit, Weighed(c, m, list)
  PROVE  Weighed(e, m \cup {order}, list \cup {cached})
<1> DEFINE cache == list \cup {cached}
           n == m \cup {order}
<1>1. IsFiniteSet(cache) /\ Cardinality(cache) <= Cardinality(list) + 1
  BY OneMore
<1>2. StaleOf(n, cache) \subseteq StaleOf(m, list)
  BY DEF StaleOf, I!order_ids, I!OfSide, I!get_by_id, Alike
<1>3. From(I!OfSide(list, "sell"), cache)
  BY DEF From, Alike, I!OfSide
<1> HIDE DEF cache, n
<1>4. PendingOf(e, cache) \subseteq PendingOf(c, list)
  BY <1>3, PendingLess
<1>5. /\ Cardinality(PendingOf(e, cache)) <= Cardinality(PendingOf(c, list))
      /\ Cardinality(StaleOf(n, cache)) <= Cardinality(StaleOf(m, list))
  BY <1>1, <1>2, <1>4, Countable, FS_Subset
<1>6. /\ {Cardinality(PendingOf(c, list)), Cardinality(PendingOf(e, cache)), Cardinality(StaleOf(m, list)),
          Cardinality(StaleOf(n, cache)), Cardinality(list), Cardinality(cache)} \subseteq Nat
      /\ SellSlotMargin \in Nat /\ OrderLimit \in Nat
  BY <1>1, Countable, TraderAssumption
<1>7. Weighed(e, n, cache)
  BY <1>1, <1>5, <1>6 DEF Weighed, Load
<1> QED
  BY <1>7 DEF cache, n

\* A sale created: it was pending.
LEMMA WeighSale ==
  ASSUME NEW c, NEW d, GoesOn(d, c), c.backlog \in Nat, c.sold \in Nat,
         NEW m, NEW list, IsFiniteSet(list), NEW order, NEW cached, Alike(cached, order), order.side = "sell",
         order.key \in PendingOf(c, list), Weighed(c, m, list)
  PROVE  Weighed(d, m \cup {order}, list \cup {cached})
<1> DEFINE cache == list \cup {cached}
           n == m \cup {order}
           k == order.key
<1>1. IsFiniteSet(cache) /\ Cardinality(cache) <= Cardinality(list) + 1
  BY OneMore
<1>2. StaleOf(n, cache) \subseteq StaleOf(m, list)
  BY DEF StaleOf, I!order_ids, I!OfSide, I!get_by_id, Alike
<1>3. From(I!OfSide(list, "sell"), cache) /\ k \notin PendingOf(d, cache)
  BY DEF From, Alike, I!OfSide, PendingOf, I!find_order
<1> HIDE DEF cache, n
<1>4. PendingOf(d, cache) \subseteq PendingOf(c, list) \ {k}
  BY <1>3, PendingLess DEF GoesOn
<1> DEFINE before == PendingOf(c, list)
           after == PendingOf(d, cache)
<1>5. IsFiniteSet(before) /\ IsFiniteSet(after) /\ IsFiniteSet(StaleOf(m, list)) /\ k \in before
  BY <1>1, Countable
<1>6. Cardinality(StaleOf(n, cache)) <= Cardinality(StaleOf(m, list))
  BY <1>2, <1>5, FS_Subset
<1> HIDE DEF before, after
<1>7. IsFiniteSet(before \ {k}) /\ Cardinality(before \ {k}) = Cardinality(before) - 1
  BY <1>5, FS_RemoveElement
<1>8. Cardinality(after) <= Cardinality(before \ {k})
  BY <1>4, <1>7, FS_Subset DEF before, after
<1>9. /\ {Cardinality(before), Cardinality(after), Cardinality(StaleOf(m, list)),
          Cardinality(StaleOf(n, cache)), Cardinality(list), Cardinality(cache)} \subseteq Nat
      /\ SellSlotMargin \in Nat /\ OrderLimit \in Nat
  BY <1>1, Countable, TraderAssumption DEF before, after
<1>10. Weighed(d, n, cache)
  BY <1>1, <1>6, <1>7, <1>8, <1>9 DEF Weighed, Load, GoesOn, before, after
<1> QED
  BY <1>10 DEF cache, n

\* Someone closes a bid.
LEMMA WeighClosedBid ==
  ASSUME NEW c, GoesOn(c, c), c.backlog \in Nat, c.sold \in Nat, NEW m, NEW list, IsFiniteSet(list),
         \A p \in m \cup list : I!Identified(p), NEW o \in m, o.side = "buy",
         NEW cache \in {list, I!remove_by_id(list, o.id)}, Weighed(c, m, list)
  PROVE  Weighed(c, m \ {o}, cache)
<1>1. cache \subseteq list
  BY RemovedFrom
<1>2. IsFiniteSet(cache) /\ Cardinality(cache) <= Cardinality(list)
  BY <1>1, FS_Subset
<1>3. From(I!OfSide(list, "sell"), cache)
  BY DEF From, Alike, I!OfSide, I!remove_by_id, I!Identified
<1>4. StaleOf(m \ {o}, cache) \subseteq StaleOf(m, list)
  BY <1>1 DEF StaleOf, I!order_ids, I!OfSide, I!get_by_id, I!Identified
<1>5. PendingOf(c, cache) \subseteq PendingOf(c, list)
  BY <1>3, PendingLess DEF GoesOn
<1> QED
  BY <1>2, <1>4, <1>5, WeighsLess

\* Someone closes a sale: one more is stale, or pending again, and is counted.
LEMMA WeighClosedSale ==
  ASSUME NEW c, NEW d, Lesser(d, c), c.backlog \in Nat, c.sold \in Nat, d.backlog = c.backlog,
         d.sold = c.sold + 1, d.made = c.made, NEW m, NEW list, IsFiniteSet(list),
         \A p \in m \cup list : I!Identified(p), NEW o \in m,
         NEW cache \in {list, I!remove_by_id(list, o.id)}, Weighed(c, m, list)
  PROVE  Weighed(d, m \ {o}, cache)
<1>1. cache \subseteq list
  BY RemovedFrom
<1>2. IsFiniteSet(cache) /\ Cardinality(cache) <= Cardinality(list)
  BY <1>1, FS_Subset
<1> DEFINE before == PendingOf(c, list)
           after == PendingOf(d, cache)
           stale == StaleOf(m, list)
           left == StaleOf(m \ {o}, cache)
<1>3. IsFiniteSet(before) /\ IsFiniteSet(after) /\ IsFiniteSet(stale) /\ IsFiniteSet(left)
  BY <1>2, Countable
<1>4. Cardinality(after) + Cardinality(left) <= Cardinality(before) + Cardinality(stale) + 1
  <2>1. {Cardinality(before), Cardinality(after), Cardinality(stale), Cardinality(left)} \subseteq Nat
    BY <1>3, FS_CardinalityType
  <2>2. CASE cache = list
    <3>1. left \subseteq stale \cup {o.id}
      BY <2>2 DEF StaleOf, I!order_ids, I!OfSide, I!get_by_id
    <3>2. From(I!OfSide(list, "sell"), cache)
      BY <2>2 DEF From, Alike, I!OfSide
    <3>3. after \subseteq before
      BY <3>2, PendingLess
    <3> HIDE DEF before, after, stale, left
    <3>4. IsFiniteSet(stale \cup {o.id}) /\ Cardinality(stale \cup {o.id}) <= Cardinality(stale) + 1
      BY <1>3, OneMore
    <3>5. Cardinality(left) <= Cardinality(stale \cup {o.id}) /\ Cardinality(stale \cup {o.id}) \in Nat
      BY <3>1, <3>4, FS_Subset, FS_CardinalityType
    <3>6. Cardinality(after) <= Cardinality(before)
      BY <1>3, <3>3, FS_Subset
    <3> QED BY <2>1, <3>4, <3>5, <3>6
  <2>3. CASE cache = I!remove_by_id(list, o.id)
    <3>1. left \subseteq stale
      BY <2>3 DEF StaleOf, I!order_ids, I!OfSide, I!get_by_id, I!remove_by_id
    <3>2. after \subseteq before \cup {o.key}
      BY <2>3 DEF Lesser, PendingOf, I!find_order, I!OfSide, I!remove_by_id, I!Identified
    <3> HIDE DEF before, after, stale, left
    <3>3. IsFiniteSet(before \cup {o.key}) /\ Cardinality(before \cup {o.key}) <= Cardinality(before) + 1
      BY <1>3, OneMore
    <3>4. Cardinality(after) <= Cardinality(before \cup {o.key}) /\ Cardinality(before \cup {o.key}) \in Nat
      BY <3>2, <3>3, FS_Subset, FS_CardinalityType
    <3>5. Cardinality(left) <= Cardinality(stale)
      BY <1>3, <3>1, FS_Subset
    <3> QED BY <2>1, <3>3, <3>4, <3>5
  <2> QED BY <2>2, <2>3
<1>5. /\ {Cardinality(before), Cardinality(after), Cardinality(stale), Cardinality(left), Cardinality(list),
          Cardinality(cache)} \subseteq Nat
      /\ SellSlotMargin \in Nat /\ OrderLimit \in Nat
  BY <1>2, <1>3, FS_CardinalityType, TraderAssumption
<1>6. Load(c, m, list) = Cardinality(before) + Cardinality(stale)
      /\ Load(d, m \ {o}, cache) = Cardinality(after) + Cardinality(left)
  BY DEF Load
<1> HIDE DEF before, after, stale, left
<1> QED
  BY <1>2, <1>4, <1>5, <1>6 DEF Weighed

-----------------------------------------------------------------------------
(* The slots: the steps.                                                     *)

\* Between the turns, nothing was created and nothing is counted.
LEMMA OffTurn ==
  ASSUME NEW m, NEW list, NEW a, IsFiniteSet(m), IsFiniteSet(list), IsFiniteSet(a), NEW dry, NEW doubt, NEW c,
         c.pc \notin Turns, c.ops = {}, c.at = {}, c.made = {}, c.backlog \in Nat, c.sold \in Nat
  PROVE  Slots(m, list, dry, c, a, doubt)
BY DEF Slots, Shaped, Fresh, Turns

\* What a write leaves is finite.
LEMMA FiniteLists ==
  ASSUME NEW list, IsFiniteSet(list), NEW id, NEW o
  PROVE  /\ IsFiniteSet(I!remove_by_id(list, id)) /\ IsFiniteSet(I!my_orders(list, I!Blank))
         /\ IsFiniteSet(list \cup {o})
<1>1. IsFiniteSet(I!remove_by_id(list, id))
  BY RemovedFrom, FS_Subset
<1>2. IsFiniteSet(I!my_orders(list, I!Blank))
  <2> DEFINE new(p) == [g \in DOMAIN p \cup DOMAIN I!Blank |-> IF g \in DOMAIN I!Blank THEN I!Blank[g] ELSE p[g]]
             f == [p \in list |-> new(p)]
  <2>1. f \in Surjection(list, I!my_orders(list, I!Blank))
    BY DEF Surjection, I!my_orders
  <2> QED BY <2>1, FiniteImage
<1> QED
  BY <1>1, <1>2, FS_AddElement

\* The cycle goes on, deciding as it did.
LEMMA OnTurn ==
  ASSUME I!SlotsInv, NEW e, GoesOn(e, y7), Shaped(e, y4), y7' = e, y4' = y4, y8' = y8, y10' = y10,
         IsFiniteSet(y1'), IsFiniteSet(y2'), e.pc = "slot" => Spare(e, y10), Fresh(e, y10),
         ~y10 => (Weighed(y7, y1, y2) => Weighed(e, y1', y2'))
  PROVE  (I!SlotsInv)'
BY SlotsAre DEF Slots, GoesOn, Fresh, Spare

\* The item trader's facts.
LEMMA SlotFacts ==
  ASSUME I!SlotsInv
  PROVE  /\ IsFiniteSet(y1) /\ IsFiniteSet(y2) /\ IsFiniteSet(y8) /\ Shaped(y7, y4) /\ Fresh(y7, y10)
         /\ y7.backlog \in Nat /\ y7.sold \in Nat
         /\ y7.pc \in Turns /\ ~y4 => y10 \/ Weighed(y7, y1, y2)
         /\ y7.pc = "slot" => Spare(y7, y10)
BY SlotsAre DEF Slots, Shaped

\* An error ends the cycle.
LEMMA SlotsEnd ==
  ASSUME y7' \in {I!Idle, I!First}, IsFiniteSet(y1'), IsFiniteSet(y2'), IsFiniteSet(y8')
  PROVE  (I!SlotsInv)'
<1>1. y7'.pc \notin Turns /\ y7'.ops = {} /\ y7'.at = {} /\ y7'.made = {} /\ y7'.backlog \in Nat /\ y7'.sold \in Nat
  BY IdleCycle DEF Turns
<1> QED
  BY <1>1, OffTurn, SlotsAre

\* A refresh in the cycle's turn.
LEMMA SlotsAfterRefresh ==
  ASSUME I!OrdersInv, I!SlotsInv, NEW e, GoesOn(e, y7), Shaped(e, y4), y7' = e, y4' = y4,
         IsFiniteSet(y8'), e.pc = "slot" => Spare(e, y10), Fresh(e, y10), y10' = y10,
         y1' = y1, y2' = I!my_orders(y1, I!Blank)
  PROVE  (I!SlotsInv)'
<1>1. IsFiniteSet(y1') /\ IsFiniteSet(y2')
  BY FiniteLists, SlotFacts
<1>2. ~y10 => (Weighed(y7, y1, y2) => Weighed(e, y1', y2'))
  <2> SUFFICES ASSUME ~y10, Weighed(y7, y1, y2) PROVE Weighed(e, y1', y2')
    OBVIOUS
  <2>1. (\A o, p \in y1 : o.key = p.key /\ o.side = p.side => o = p) /\ From(y1, y2)
    BY OrderFacts DEF I!OrdersInv, I!OneOrderPerKey
  <2>2. \A o \in y1 \cup y2 : I!Identified(o)
    BY OrderFacts
  <2> QED BY <2>1, <2>2, SlotFacts, WeighRefresh
<1> QED
  BY <1>1, <1>2, SlotsAre DEF Slots, GoesOn, Fresh, Spare

\* A delete in the cycle's turn.
LEMMA SlotsAfterDelete ==
  ASSUME I!OrdersInv, I!SlotsInv, NEW id, NEW ok, NEW failed, I!Delete(id, ok, failed),
         y4' = y4, y8' = y8, y10' = y10,
         GoesOn(ok, y7), Shaped(ok, y4), ok.pc # "slot", Fresh(ok, y10), id[2] # "sell" \/ ~Due(ok, id[1]),
         \/ failed = I!Idle
         \/ /\ id[2] = "buy" /\ GoesOn(failed, y7) /\ Shaped(failed, y4) /\ failed.pc # "slot"
            /\ Fresh(failed, y10)
  PROVE  (I!SlotsInv)'
<1>1. /\ IsFiniteSet(I!remove_by_id(y1, id)) /\ IsFiniteSet(I!remove_by_id(y2, id))
      /\ IsFiniteSet(I!my_orders(y1, I!Blank)) /\ IsFiniteSet(y1) /\ IsFiniteSet(y2) /\ IsFiniteSet(y8')
  BY SlotFacts, FiniteLists
<1>2. y7.backlog \in Nat /\ y7.sold \in Nat /\ \A o \in y2 : I!Identified(o)
  BY SlotFacts, OrderFacts
<1>3. CASE y7' = failed /\ failed = I!Idle
  <2>1. IsFiniteSet(y1') /\ IsFiniteSet(y2')
    BY <1>1, DeleteOutcomes
  <2> QED BY <1>1, <1>3, <2>1, SlotsEnd
<1>4. CASE y1' = y1 /\ y2' = y2 /\ (y7' = ok \/ (y7' = failed /\ failed # I!Idle))
  <2>1. Weighed(y7, y1, y2) => Weighed(y7', y1', y2')
    BY <1>1, <1>2, <1>4, WeighSame
  <2>2. PICK e : e = y7'
    OBVIOUS
  <2>3. GoesOn(e, y7) /\ Shaped(e, y4) /\ e.pc # "slot" /\ Fresh(e, y10)
    BY <1>4, <2>2
  <2> QED BY <1>1, <1>4, <2>1, <2>2, <2>3, OnTurn
<1>5. CASE y1' = I!remove_by_id(y1, id) /\ y2' = I!remove_by_id(y2, id) /\ y7' = ok
  <2>1. Weighed(y7, y1, y2) => Weighed(ok, y1', y2')
    BY <1>1, <1>2, <1>5, WeighRemoval
  <2> QED BY <1>1, <1>5, <2>1, OnTurn
<1>6. CASE y1' = I!remove_by_id(y1, id) /\ y2' = y2 /\ y7' = failed /\ failed # I!Idle
  <2>1. Weighed(y7, y1, y2) => Weighed(failed, y1', y2')
    BY <1>1, <1>2, <1>6, WeighLost
  <2> QED BY <1>1, <1>6, <2>1, OnTurn
<1>7. CASE y1' = y1 /\ y2' = I!my_orders(y1, I!Blank) /\ y7' = failed /\ failed # I!Idle
  BY <1>1, <1>7, SlotsAfterRefresh
<1> QED
  BY <1>3, <1>4, <1>5, <1>6, <1>7, DeleteOutcomes

\* An update in the cycle's turn.
LEMMA SlotsAfterUpdate ==
  ASSUME I!OrdersInv, I!SlotsInv, NEW o, NEW props, DOMAIN props = {"wish"}, NEW ok,
         I!Update(o, props, ok, I!Idle), y4' = y4, y8' = y8, y10' = y10,
         GoesOn(ok, y7), Shaped(ok, y4), ok.pc # "slot", Fresh(ok, y10)
  PROVE  (I!SlotsInv)'
<1>1. /\ IsFiniteSet(I!my_orders(y1, I!Blank)) /\ IsFiniteSet(y1) /\ IsFiniteSet(y2) /\ IsFiniteSet(y8')
  BY SlotFacts, FiniteLists
<1>2. y7.backlog \in Nat /\ y7.sold \in Nat /\ \A p \in y2 : I!Identified(p)
  BY SlotFacts, OrderFacts
<1>3. PICK id : id = o.id
  OBVIOUS
<1>4. /\ IsFiniteSet(I!update(y2, id, props))
      /\ Weighed(y7, y1, y2) => Weighed(ok, y1, I!update(y2, id, props))
  BY <1>1, <1>2, WeighUpdate
<1>5. CASE y7' = I!Idle
  <2>1. IsFiniteSet(y1') /\ IsFiniteSet(y2')
    BY <1>1, <1>3, <1>4, UpdateOutcomes
  <2> QED BY <1>1, <1>5, <2>1, SlotsEnd
<1>6. CASE y1' = y1 /\ y2' = y2 /\ y7' = ok
  <2>1. Weighed(y7, y1, y2) => Weighed(ok, y1', y2')
    BY <1>1, <1>2, <1>6, WeighSame
  <2> QED BY <1>1, <1>6, <2>1, OnTurn
<1>7. CASE y1' = y1 /\ y2' = I!update(y2, o.id, props) /\ y7' = ok
  <2>1. IsFiniteSet(y1') /\ IsFiniteSet(y2') /\ (Weighed(y7, y1, y2) => Weighed(ok, y1', y2'))
    BY <1>1, <1>3, <1>4, <1>7
  <2> QED BY <1>7, <2>1, OnTurn
<1> QED
  BY <1>5, <1>6, <1>7, UpdateOutcomes

\* An id nothing refers to.
LEMMA FreshOrderId ==
  ASSUME NEW k, NEW side, I!FreeIds(k, side) # {}
  PROVE  I!NewId(k, side) \notin I!Referred
<1> DEFINE T == I!FreeIds(k, side)
           Lt == OpToRel(<, Nat)
<1>1. T \subseteq Nat /\ T # {}
  BY TraderAssumption DEF I!FreeIds
<1>2. \A n \in T : <<k, side, n>> \notin I!Referred
  BY DEF I!FreeIds
<1> HIDE DEF T
<1>3. IsWellFoundedOn(Lt, Nat)
  BY NatLessThanWellFounded, Zenon
<1>4. ASSUME NEW x \in Nat, NEW y \in Nat, x < y
      PROVE  <<x, y>> \in Lt
  <2>1. <<x, y>> \in Nat \X Nat /\ <<x, y>>[1] = x /\ <<x, y>>[2] = y
    OBVIOUS
  <2> QED BY <1>4, <2>1, Zenon DEF OpToRel
<1> HIDE DEF Lt
<1>5. PICK x \in T : \A y \in T : ~(<<y, x>> \in Lt)
  BY <1>1, <1>3, WFMin
<1>6. \A y \in T : ~(y < x)
  BY <1>1, <1>4, <1>5
<1>7. \A y \in T : x <= y
  BY <1>1, <1>6
<1>8. I!Min(T) \in T
  BY <1>7 DEF I!Min
<1> QED
  BY <1>2, <1>8 DEF I!NewId, T

\* A create in the cycle's turn.
LEMMA SlotsAfterCreate ==
  ASSUME I!OrdersInv, I!SlotsInv, NEW route, NEW k, NEW side \in {"buy", "sell"}, NEW props,
         DOMAIN props = {"wish"}, NEW done, I!Create(route, k, side, props, done, I!Idle), y4' = y4, y8' = y8,
         GoesOn(done, y7), Shaped(done, y4), done.pc = "entries", done.given_up = y7.given_up,
         DOMAIN done = DOMAIN I!Idle, I!FreeIds(k, side) # {},
         route = I!Live =>
           /\ ~y4 /\ (side = "sell" => y10 \/ k \in PendingOf(y7, y2))
           /\ side = "buy" => Cardinality(y2) + y7.backlog + SellSlotMargin < OrderLimit
  PROVE  (I!SlotsInv)'
<1> DEFINE order == Order(k, side)
           cached == With(order, props)
           id == I!NewId(k, side)
           bid == [done EXCEPT !.made = @ \cup {id}]
<1>1. order.key = k /\ order.side = side /\ Alike(cached, order)
  <2>1. order.key = k /\ order.side = side /\ I!Identified(order)
    BY DEF Order, I!NewId, I!Identified
  <2> QED BY <2>1, CachedOrder DEF With
<1>2. Created(route, k, side, props, done, I!Idle)
  BY OrderFacts, CreateOutcomes
<1>3. /\ IsFiniteSet(y1) /\ IsFiniteSet(y2) /\ IsFiniteSet(y8') /\ IsFiniteSet(I!my_orders(y1, I!Blank))
      /\ IsFiniteSet(y1 \cup {order}) /\ IsFiniteSet(y2 \cup {cached})
  BY SlotFacts, FiniteLists
<1>4. y7.backlog \in Nat /\ y7.sold \in Nat /\ Fresh(y7, y10)
  BY SlotFacts
<1>5. Fresh(done, y10)
  BY <1>4 DEF Fresh, GoesOn
<1>6. id \notin {o.id : o \in y7.given_up}
  BY FreshOrderId DEF I!Referred
<1>7. /\ bid.made = y7.made \cup {id} /\ bid.given_up = y7.given_up /\ bid.sold = y7.sold
      /\ bid.backlog = y7.backlog /\ bid.pc = "entries" /\ Lesser(bid, y7)
      /\ bid.ops = done.ops /\ bid.at = done.at /\ bid.left = done.left /\ bid.entries = done.entries
  BY CycleFields DEF GoesOn, Lesser, Due
<1> HIDE DEF order, cached, id, bid
<1>8. CASE y7' = I!Idle
  <2>1. IsFiniteSet(y1') /\ IsFiniteSet(y2')
    BY <1>2, <1>3, <1>8 DEF Created, order, cached
  <2> QED BY <1>3, <1>8, <2>1, SlotsEnd
<1>9. CASE y1' = y1 /\ y2' = y2 /\ y7' = done /\ y10' = y10
  <2>1. Weighed(y7, y1, y2) => Weighed(done, y1', y2')
    BY <1>3, <1>4, <1>9, WeighSame
  <2> QED BY <1>3, <1>5, <1>9, <2>1, OnTurn
<1>10. CASE /\ route = I!Live /\ y1' = y1 \cup {order} /\ y2' = y2 \cup {cached} /\ y10' = y10
            /\ side = "sell" /\ y7' = done
  <2>1. ~y10 => (Weighed(y7, y1, y2) => Weighed(done, y1', y2'))
    BY <1>1, <1>3, <1>4, <1>10, WeighSale
  <2> QED BY <1>3, <1>5, <1>10, <2>1, OnTurn
<1>11. CASE /\ route = I!Live /\ y1' = y1 \cup {order} /\ y2' = y2 \cup {cached} /\ y10' = y10
            /\ side = "buy" /\ y7' = bid
  <2>1. Weighed(y7, y1, y2) => Weighed(bid, y1', y2')
    BY <1>1, <1>3, <1>4, <1>7, <1>11, WeighBid
  <2>2. ~y4 /\ y7.pc \in Turns /\ (y10 \/ Weighed(y7, y1, y2))
    BY <1>11, SlotFacts DEF GoesOn
  <2>3. Shaped(bid, y4)
    BY <1>4, <1>7, <2>2 DEF Shaped, Turns
  <2>4. Fresh(bid, y10)
    BY <1>4, <1>6, <1>7 DEF Fresh
  <2>5. Slots(y1', y2', y4', bid, y8', y10')
    BY <1>3, <1>7, <1>11, <2>1, <2>2, <2>3, <2>4 DEF Slots
  <2> QED BY <1>11, <2>5, SlotsAre
<1> QED
  BY <1>2, <1>8, <1>9, <1>10, <1>11 DEF Created, order, cached, id, bid

\* A decision carried out: the sale's key was pending until now.
LEMMA SlotsAfterProgress ==
  ASSUME I!OrdersInv, I!SlotsInv, NEW op, y7.pc = "entries", op \in y7.ops, op = "Sell" => y7.ops = {"Sell"},
         NEW side, (side = "sell" /\ op = "Sell") \/ (side = "buy" /\ op # "Sell"),
         NEW act, NEW props, DOMAIN props = {"wish"},
         I!progress_order(I!The(y7.at), side, act, props, I!After(op)), y4' = y4, y8' = y8
  PROVE  (I!SlotsInv)'
<1>1. PICK k \in I!Keys : y7.at = {k} /\ y7.ops \subseteq y7.entries[k]
  BY SlotFacts DEF Shaped
<1>2. I!The(y7.at) = k
  BY <1>1 DEF I!The
<1>3. PICK done : done = I!After(op)
  OBVIOUS
<1>4. /\ done.pc = "entries" /\ done.ops = y7.ops \ {op} /\ done.at = y7.at /\ done.left = y7.left
      /\ done.entries = y7.entries /\ done.warm = y7.warm /\ done.made = y7.made /\ done.sold = y7.sold
      /\ done.backlog = y7.backlog /\ done.given_up = y7.given_up /\ DOMAIN done = DOMAIN I!Idle
  BY <1>3, OrderFacts, CycleFields DEF I!After
<1>5. GoesOn(done, y7)
  BY <1>4 DEF GoesOn, Lesser, Due, Turns
<1>6. Shaped(done, y4)
  BY <1>1, <1>4, SlotFacts DEF Shaped, Turns
<1>7. Fresh(done, y10)
  BY <1>4, SlotFacts DEF Fresh
<1> DEFINE route == I!route_for(k)
           own == I!find_order(I!OrdersOf(route), k, side)
           room == IF side = "buy" THEN I!CanCreateBuy(route) ELSE I!CanCreate(route)
           blocked == act = "post" /\ own = {} /\ ~room
           slot == blocked /\ side = "sell" /\ route = I!Live /\ I!lowest_profit_buy_order # {}
<1>8. I!progress_order(k, side, act, props, done)
  BY <1>2, <1>3
<1>9. \/ own = {} /\ room /\ I!FreeIds(k, side) # {} /\ I!Create(route, k, side, props, done, I!Idle)
      \/ UNCHANGED y10 /\ \E o \in own : I!Update(o, props, done, I!Idle)
      \/ UNCHANGED y10 /\ \E o \in own : I!Delete(o.id, done, I!Idle)
      \/ slot /\ y7' = [y7 EXCEPT !.pc = "slot"] /\ UNCHANGED <<y1, y2, y3, y9, y10>>
      \/ y7' = done /\ UNCHANGED <<y1, y2, y3, y9, y10>>
  BY <1>8 DEF I!progress_order, I!Ended
<1>10. route = I!Live => k \in y7.warm /\ ~y4 /\ I!OrdersOf(route) = y2
  BY DEF I!route_for, I!Live, I!OrdersOf
<1>11. route = I!Live /\ own = {} /\ side = "sell" => k \in PendingOf(y7, y2)
  BY <1>1, <1>10 DEF PendingOf, Due
<1>12. IsFiniteSet(y1) /\ IsFiniteSet(y2) /\ y7.backlog \in Nat /\ y7.sold \in Nat /\ I!Cardinality(y2) = Cardinality(y2)
  BY SlotFacts, ItemFinite
<1>13. CASE own = {} /\ room /\ I!FreeIds(k, side) # {} /\ I!Create(route, k, side, props, done, I!Idle)
  <2>1. route = I!Live /\ side = "buy" => Cardinality(y2) + y7.backlog + SellSlotMargin < OrderLimit
    BY <1>12, <1>13 DEF I!CanCreateBuy, I!total_orders
  <2>2. /\ I!Create(route, k, side, props, done, I!Idle) /\ I!FreeIds(k, side) # {} /\ side \in {"buy", "sell"}
        /\ route = I!Live =>
             /\ ~y4 /\ (side = "sell" => y10 \/ k \in PendingOf(y7, y2))
             /\ side = "buy" => Cardinality(y2) + y7.backlog + SellSlotMargin < OrderLimit
    BY <1>10, <1>11, <1>13, <2>1
  <2> HIDE DEF route, own, room
  <2> QED BY <1>4, <1>5, <1>6, <2>2, SlotsAfterCreate
<1>14. CASE UNCHANGED y10 /\ \E o \in own : I!Update(o, props, done, I!Idle)
  <2> HIDE DEF own
  <2> QED BY <1>4, <1>5, <1>6, <1>7, <1>14, SlotsAfterUpdate
<1>15. CASE UNCHANGED y10 /\ \E o \in own : I!Delete(o.id, done, I!Idle)
  <2>1. PICK o \in own : I!Delete(o.id, done, I!Idle)
    BY <1>15
  <2>2. o \in y2 \cup y3 /\ o.key = k /\ o.side = side
    BY DEF I!find_order, I!OfSide, I!OrdersOf
  <2>3. o.id[1] = k /\ o.id[2] = side
    BY <2>2, OrderFacts DEF I!Identified
  <2>4. o.id[2] # "sell" \/ ~Due(done, o.id[1])
    <3>1. k \notin y7.left
      BY <1>1, SlotFacts DEF Shaped, Turns
    <3> QED BY <1>1, <1>4, <2>3, <3>1 DEF Due
  <2>5. PICK id : id = o.id
    OBVIOUS
  <2> QED BY <1>4, <1>5, <1>6, <1>7, <1>15, <2>1, <2>4, <2>5, SlotsAfterDelete
<1>16. CASE slot /\ y7' = [y7 EXCEPT !.pc = "slot"] /\ UNCHANGED <<y1, y2, y3, y9, y10>>
  <2>1. PICK e : e = [y7 EXCEPT !.pc = "slot"]
    OBVIOUS
  <2>2. /\ e.pc = "slot" /\ e.ops = y7.ops /\ e.at = y7.at /\ e.left = y7.left
        /\ e.entries = y7.entries /\ e.warm = y7.warm /\ e.made = y7.made /\ e.sold = y7.sold
        /\ e.backlog = y7.backlog /\ e.given_up = y7.given_up
    BY <2>1, OrderFacts, CycleFields
  <2>3. k \in PendingOf(y7, y2) /\ ~y4 /\ k \in y7.warm /\ "Sell" \in y7.entries[k] /\ "Sell" \in y7.ops
    BY <1>1, <1>10, <1>11, <1>16
  <2>4. GoesOn(e, y7)
    BY <1>1, <2>2, <2>3 DEF GoesOn, Lesser, Due, Turns
  <2>5. Shaped(e, y4)
    BY <1>1, <2>2, <2>3, SlotFacts DEF Shaped, Turns
  <2>6. Fresh(e, y10)
    BY <2>2, SlotFacts DEF Fresh
  <2>7. Spare(e, y10)
    <3> SUFFICES ASSUME ~y10, y7.made # {} PROVE y7.sold > SellSlotMargin
      BY <2>2 DEF Spare
    <3>1. Weighed(y7, y1, y2)
      BY <2>3, SlotFacts DEF Turns
    <3>2. ~(Cardinality(y2) < OrderLimit)
      BY <1>12, <1>16 DEF I!CanCreate, I!can_create_order, I!total_orders
    <3>3. Cardinality(PendingOf(y7, y2)) # 0
      BY <1>12, <2>3, Countable, FS_EmptySet
    <3>4. {Cardinality(PendingOf(y7, y2)), Cardinality(StaleOf(y1, y2)), Cardinality(y2), SellSlotMargin, OrderLimit}
             \subseteq Nat
      BY <1>12, Countable, TraderAssumption
    <3> QED BY <1>12, <3>1, <3>2, <3>3, <3>4 DEF Weighed, Load
  <2>8. Weighed(y7, y1, y2) => Weighed(e, y1', y2')
    BY <1>12, <1>16, <2>4, WeighSame
  <2>9. IsFiniteSet(y1') /\ IsFiniteSet(y2') /\ y7' = e
    BY <1>12, <1>16, <2>1
  <2> QED BY <1>16, <2>4, <2>5, <2>6, <2>7, <2>8, <2>9, OnTurn
<1>17. CASE y7' = done /\ UNCHANGED <<y1, y2, y3, y9, y10>>
  <2>1. Weighed(y7, y1, y2) => Weighed(done, y1', y2')
    BY <1>5, <1>12, <1>17, WeighSame
  <2>2. IsFiniteSet(y1') /\ IsFiniteSet(y2')
    BY <1>12, <1>17
  <2> QED BY <1>4, <1>5, <1>6, <1>7, <1>17, <2>1, <2>2, OnTurn
<1> QED
  BY <1>9, <1>13, <1>14, <1>15, <1>16, <1>17

\* Reading the slots: the backlog counts what is pending.
LEMMA SlotsRead ==
  ASSUME I!OrdersInv, I!SlotsInv, I!ReadSlots
  PROVE  (I!SlotsInv)'
<1>1. y7.pc = "slots" /\ UNCHANGED <<y1, y2, y4, y8, y10>>
  BY DEF I!ReadSlots, I!At, I!Outside
<1>2. /\ y7'.pc = "entries" /\ y7'.backlog = I!sell_backlog /\ y7'.left = {k \in I!Keys : y7.entries[k] # {}}
      /\ y7'.sold = I!Cardinality(I!Stale) /\ y7'.entries = y7.entries /\ y7'.warm = y7.warm
      /\ y7'.ops = y7.ops /\ y7'.at = y7.at /\ y7'.made = y7.made /\ y7'.given_up = y7.given_up
  BY OrderFacts, CycleFields DEF I!ReadSlots
<1>3. y7.made = {} /\ y7.ops = {} /\ y7.at = {} /\ IsFiniteSet(y1) /\ IsFiniteSet(y2) /\ IsFiniteSet(y8)
  BY <1>1, SlotFacts DEF Shaped, Turns
<1> DEFINE due == {k \in I!Keys : "Sell" \in y7.entries[k] /\ I!route_for(k) = I!Live /\ I!find_order(y2, k, "sell") = {}}
<1>4. I!sell_backlog = Cardinality(due)
  BY ItemFinite DEF I!sell_backlog, I!Quantify
<1>5. IsFiniteSet(due) /\ Cardinality(due) \in Nat
  BY TraderAssumption, FS_Subset, FS_CardinalityType DEF I!Keys
<1>6. y7'.sold = Cardinality(StaleOf(y1', y2')) /\ Cardinality(StaleOf(y1', y2')) \in Nat
  <2>1. I!Stale = StaleOf(y1, y2)
    BY DEF I!Stale, StaleOf
  <2>2. I!Cardinality(I!Stale) = Cardinality(StaleOf(y1, y2)) /\ Cardinality(StaleOf(y1, y2)) \in Nat
    BY <1>3, <2>1, ItemFinite, Countable
  <2> QED BY <1>1, <1>2, <2>2
<1>7. ~y4 => Weighed(y7', y1', y2')
  <2> SUFFICES ASSUME ~y4 PROVE Weighed(y7', y1', y2')
    OBVIOUS
  <2>1. PendingOf(y7', y2') \subseteq due
    BY <1>1, <1>2 DEF PendingOf, I!route_for, I!Live
  <2> HIDE DEF due
  <2>2. Cardinality(PendingOf(y7', y2')) <= Cardinality(due)
    BY <1>5, <2>1, FS_Subset
  <2>3. Cardinality(PendingOf(y7', y2')) \in Nat
    BY <1>1, <1>3, Countable
  <2> QED BY <1>2, <1>3, <1>4, <1>5, <1>6, <2>2, <2>3 DEF Weighed, Load
<1> HIDE DEF due
<1>8. Slots(y1', y2', y4', y7', y8', y10')
  <2>1. IsFiniteSet(y1') /\ IsFiniteSet(y2') /\ IsFiniteSet(y8')
    BY <1>1, <1>3
  <2>2. Fresh(y7', y10')
    BY <1>2, <1>3 DEF Fresh
  <2>3. Shaped(y7', y4')
    BY <1>2, <1>3, <1>4, <1>5, <1>6 DEF Shaped, Turns
  <2> QED BY <1>1, <1>2, <1>7, <2>1, <2>2, <2>3 DEF Slots
<1> QED
  BY <1>8, SlotsAre

\* Every step keeps what the cycle's bids rest on.
LEMMA SlotsNext ==
  ASSUME I!OrdersInv, I!KeptInv, I!SlotsInv, I!TraderNext
  PROVE  (I!SlotsInv)'
<1> USE DEF I!Outside, I!At
<1>1. /\ IsFiniteSet(y1) /\ IsFiniteSet(y2) /\ IsFiniteSet(y8) /\ y7.backlog \in Nat /\ y7.sold \in Nat
      /\ Shaped(y7, y4) /\ Fresh(y7, y10) /\ (y7.pc = "slot" => Spare(y7, y10))
  BY SlotFacts
<1>2. DOMAIN y7 = DOMAIN I!Idle /\ y10 \in BOOLEAN
      /\ \A o \in y1 \cup y2 : I!Identified(o)
  BY OrderFacts
<1>3. y7.pc \notin Turns => y7.ops = {} /\ y7.at = {} /\ y7.made = {}
  BY <1>1 DEF Shaped
<1>4. ASSUME NEW d, y7' = d, d.pc \notin Turns, d.ops = {}, d.at = {}, d.made = {}, d.backlog \in Nat, d.sold \in Nat,
             IsFiniteSet(y1'), IsFiniteSet(y2'), IsFiniteSet(y8')
      PROVE  (I!SlotsInv)'
  BY <1>4, OffTurn, SlotsAre
<1>5. ASSUME NEW id, NEW ok, NEW failed, I!Delete(id, ok, failed)
      PROVE  IsFiniteSet(y1') /\ IsFiniteSet(y2') /\ y7' \in {ok, failed}
  BY <1>1, <1>5, DeleteOutcomes, FiniteLists
<1>6. CASE I!BeginCycle
  <2>1. UNCHANGED <<y1, y2, y8>>
    BY <1>6 DEF I!BeginCycle
  <2>2. /\ y7'.pc = "unwanted" /\ y7'.ops = {} /\ y7'.at = {} /\ y7'.made = {} /\ y7'.backlog = 0 /\ y7'.sold = 0
    BY <1>6, CycleFields, IdleCycle DEF I!BeginCycle
  <2> QED BY <1>1, <1>4, <2>1, <2>2 DEF Turns
<1>7. CASE I!delete_unwanted_orders
  <2>1. y7.pc \notin Turns /\ y8' = y8
    BY <1>7 DEF I!delete_unwanted_orders, Turns
  <2>2. /\ \E left : y7' = [y7 EXCEPT !.left = left]
        /\ IsFiniteSet(y1') /\ IsFiniteSet(y2')
    <3>1. CASE \E id \in y7.left : I!Delete(id, [y7 EXCEPT !.left = @ \ {id}], [y7 EXCEPT !.left = @ \ {id}])
      BY <1>5, <3>1
    <3>2. CASE y7' = [y7 EXCEPT !.left = {}] /\ UNCHANGED <<y1, y2, y3, y9>>
      BY <1>1, <3>2
    <3> QED BY <1>7, <3>1, <3>2 DEF I!delete_unwanted_orders
  <2> QED BY <1>1, <1>2, <1>3, <1>4, <2>1, <2>2, CycleFields
<1>8. CASE I!collect_interesting_items
  <2>1. PICK entries, kept : y7' = [y7 EXCEPT !.pc = "slots", !.entries = entries, !.kept = kept]
    BY <1>8 DEF I!collect_interesting_items
  <2>2. y7.pc \notin Turns /\ UNCHANGED <<y1, y2, y8>>
    BY <1>8 DEF I!collect_interesting_items, Turns
  <2>3. /\ y7'.pc = "slots" /\ y7'.ops = y7.ops /\ y7'.at = y7.at /\ y7'.made = y7.made
        /\ y7'.backlog = y7.backlog /\ y7'.sold = y7.sold
    BY <1>2, <2>1, CycleFields
  <2> QED BY <1>1, <1>3, <1>4, <2>2, <2>3 DEF Turns
<1>9. CASE I!ReadSlots
  BY <1>9, SlotsRead
<1>10. ASSUME NEW d, y7' = d, GoesOn(d, y7), Shaped(d, y4), UNCHANGED <<y1, y2, y4, y8, y10>>,
              d.pc = "slot" => Spare(d, y10), Fresh(d, y10)
       PROVE  (I!SlotsInv)'
  <2>1. Weighed(y7, y1, y2) => Weighed(d, y1', y2')
    BY <1>1, <1>10, WeighSame
  <2>2. IsFiniteSet(y1') /\ IsFiniteSet(y2')
    BY <1>1, <1>10
  <2> QED BY <1>10, <2>1, <2>2, OnTurn
<1>11. CASE y7' = I!Idle /\ UNCHANGED <<y1, y2, y8>>
  BY <1>1, <1>11, SlotsEnd
<1>12. CASE I!NextEntry
  <2>1. y7.pc = "entries" /\ UNCHANGED <<y1, y2, y4, y8, y10>> /\ y7.left \subseteq I!Keys
    BY <1>1, <1>12 DEF I!NextEntry, Shaped, Turns
  <2>2. ASSUME NEW k \in y7.left, NEW ops, ops \subseteq y7.entries[k],
               y7' = [y7 EXCEPT !.left = @ \ {k}, !.at = {k}, !.ops = ops]
        PROVE  (I!SlotsInv)'
    <3>1. PICK d : d = y7'
      OBVIOUS
    <3>2. /\ d.left = y7.left \ {k} /\ d.at = {k} /\ d.ops = ops /\ d.pc = "entries" /\ d.entries = y7.entries
          /\ d.warm = y7.warm /\ d.backlog = y7.backlog /\ d.sold = y7.sold /\ d.made = y7.made
          /\ d.given_up = y7.given_up
      BY <1>2, <2>1, <2>2, <3>1, CycleFields
    <3>3. GoesOn(d, y7)
      BY <2>1, <3>2 DEF GoesOn, Lesser, Due, Turns
    <3>4. Shaped(d, y4)
      BY <1>1, <2>1, <2>2, <3>2 DEF Shaped, Turns
    <3>5. Fresh(d, y10)
      BY <1>1, <3>2 DEF Fresh
    <3> QED BY <1>10, <2>1, <3>1, <3>2, <3>3, <3>4, <3>5
  <2>3. CASE y7' = [y7 EXCEPT !.left = {}, !.at = {}, !.interrupted = TRUE] /\ y7.ops = {}
    <3>1. PICK d : d = y7'
      OBVIOUS
    <3>2. /\ d.left = {} /\ d.at = {} /\ d.ops = {} /\ d.pc = "entries" /\ d.entries = y7.entries
          /\ d.warm = y7.warm /\ d.backlog = y7.backlog /\ d.sold = y7.sold /\ d.made = y7.made
          /\ d.given_up = y7.given_up
      BY <1>2, <2>1, <2>3, <3>1, CycleFields
    <3>3. GoesOn(d, y7)
      BY <2>1, <3>2 DEF GoesOn, Lesser, Due, Turns
    <3>4. Shaped(d, y4)
      BY <1>1, <2>1, <3>2 DEF Shaped, Turns
    <3>5. Fresh(d, y10)
      BY <1>1, <3>2 DEF Fresh
    <3> QED BY <1>10, <2>1, <3>1, <3>2, <3>3, <3>4, <3>5
  <2>4. \/ \E k \in y7.left : \E ops : ops \subseteq y7.entries[k] /\
              y7' = [y7 EXCEPT !.left = @ \ {k}, !.at = {k}, !.ops = ops]
        \/ y7' = I!Idle
        \/ y7' = [y7 EXCEPT !.left = {}, !.at = {}, !.interrupted = TRUE] /\ y7.ops = {}
    BY <1>12 DEF I!NextEntry, I!Ended
  <2> QED BY <1>11, <2>1, <2>2, <2>3, <2>4
<1>13. CASE I!progress_buying \/ I!progress_wish_list \/ I!progress_selling
  <2>1. DOMAIN I!Blank = {"wish"} /\ DOMAIN [wish |-> TRUE] = {"wish"}
    BY DEF I!Blank
  <2>2. \E op, side, act, props :
           /\ y7.pc = "entries" /\ op \in y7.ops /\ (op = "Sell" => y7.ops = {"Sell"})
           /\ (side = "sell" /\ op = "Sell") \/ (side = "buy" /\ op # "Sell")
           /\ DOMAIN props = {"wish"} /\ I!progress_order(I!The(y7.at), side, act, props, I!After(op))
    <3>1. CASE I!progress_buying
      BY <2>1, <3>1 DEF I!progress_buying, I!Current
    <3>2. CASE I!progress_wish_list
      BY <2>1, <3>2 DEF I!progress_wish_list, I!Current
    <3>3. CASE I!progress_selling
      BY <2>1, <3>3 DEF I!progress_selling, I!Current
    <3> QED BY <1>13, <3>1, <3>2, <3>3
  <2>3. y4' = y4 /\ y8' = y8
    BY <1>13 DEF I!progress_buying, I!progress_wish_list, I!progress_selling
  <2> QED BY <2>2, <2>3, SlotsAfterProgress
<1>14. CASE I!finalize_fails
  BY <1>11, <1>14 DEF I!finalize_fails, I!Ended
<1>15. \A d : d = [y7 EXCEPT !.pc = "entries", !.ops = {}] /\ y7.pc \in {"slot", "sale"} =>
          /\ GoesOn(d, y7) /\ Shaped(d, y4) /\ d.pc = "entries" /\ Fresh(d, y10)
          /\ d.given_up = y7.given_up /\ DOMAIN d = DOMAIN I!Idle
  <2> SUFFICES ASSUME NEW d, d = [y7 EXCEPT !.pc = "entries", !.ops = {}], y7.pc \in {"slot", "sale"}
               PROVE  /\ GoesOn(d, y7) /\ Shaped(d, y4) /\ d.pc = "entries" /\ Fresh(d, y10)
                      /\ d.given_up = y7.given_up /\ DOMAIN d = DOMAIN I!Idle
    OBVIOUS
  <2>1. /\ d.left = y7.left /\ d.at = y7.at /\ d.ops = {} /\ d.pc = "entries" /\ d.entries = y7.entries
        /\ d.warm = y7.warm /\ d.backlog = y7.backlog /\ d.sold = y7.sold /\ d.made = y7.made
        /\ d.given_up = y7.given_up /\ DOMAIN d = DOMAIN I!Idle
    BY <1>2, CycleFields
  <2> QED BY <1>1, <2>1 DEF GoesOn, Lesser, Due, Turns, Shaped, Fresh
<1>16. CASE I!SellSlot
  <2>1. PICK o \in I!lowest_profit_buy_order :
          I!Delete(o.id, [y7 EXCEPT !.pc = "sale", !.given_up = @ \cup {o}],
                         [y7 EXCEPT !.pc = "entries", !.ops = {}])
    BY <1>16 DEF I!SellSlot
  <2>2. PICK ok : ok = [y7 EXCEPT !.pc = "sale", !.given_up = @ \cup {o}]
    OBVIOUS
  <2>3. PICK failed : failed = [y7 EXCEPT !.pc = "entries", !.ops = {}]
    OBVIOUS
  <2>4. I!Delete(o.id, ok, failed) /\ y7.pc = "slot" /\ y4' = y4 /\ y8' = y8 /\ y10' = y10
    BY <1>16, <2>1, <2>2, <2>3 DEF I!SellSlot
  <2>5. o.id[2] = "buy"
    BY <1>2 DEF I!lowest_profit_buy_order, I!Sacrificable, I!OfSide, I!Identified
  <2>6. /\ ok.left = y7.left /\ ok.at = y7.at /\ ok.ops = y7.ops /\ ok.pc = "sale" /\ ok.entries = y7.entries
        /\ ok.warm = y7.warm /\ ok.backlog = y7.backlog /\ ok.sold = y7.sold /\ ok.made = y7.made
        /\ ok.given_up = y7.given_up \cup {o}
    BY <1>2, <2>2, CycleFields
  <2>7. GoesOn(ok, y7)
    BY <2>4, <2>6 DEF GoesOn, Lesser, Due, Turns
  <2>8. Shaped(ok, y4)
    BY <1>1, <2>4, <2>6 DEF Shaped, Turns
  <2>9. Fresh(ok, y10)
    BY <1>1, <2>4, <2>6 DEF Fresh, Spare
  <2>10. GoesOn(failed, y7) /\ Shaped(failed, y4) /\ failed.pc # "slot" /\ Fresh(failed, y10)
    BY <1>15, <2>3, <2>4
  <2>11. PICK id : id = o.id
    OBVIOUS
  <2>12. I!Delete(id, ok, failed) /\ id[2] = "buy" /\ id[2] # "sell" /\ ok.pc # "slot"
    BY <2>4, <2>5, <2>6, <2>11
  <2> QED BY <2>4, <2>7, <2>8, <2>9, <2>10, <2>12, SlotsAfterDelete
<1>17. CASE I!SlotGone
  <2>1. PICK d : d = [y7 EXCEPT !.pc = "entries", !.ops = {}]
    OBVIOUS
  <2>2. y7' = d /\ y7.pc = "slot" /\ UNCHANGED <<y1, y2, y4, y8, y10>>
    BY <1>17, <2>1 DEF I!SlotGone
  <2> QED BY <1>10, <1>15, <2>1, <2>2
<1>18. CASE I!SlotSale
  <2>1. PICK done : done = [y7 EXCEPT !.pc = "entries", !.ops = {}]
    OBVIOUS
  <2>2. PICK k \in I!Keys : y7.at = {k} /\ "Sell" \in y7.entries[k] /\ k \in y7.warm /\ ~y4
    BY <1>1, <1>18 DEF I!SlotSale, Shaped
  <2>3. I!The(y7.at) = k
    BY <2>2 DEF I!The
  <2>4. /\ I!Create(I!Live, k, "sell", I!Blank, done, I!Idle) /\ I!FreeIds(k, "sell") # {}
        /\ y7.pc = "sale" /\ y4' = y4 /\ y8' = y8
    BY <1>18, <2>1, <2>3 DEF I!SlotSale, I!Ended
  <2>5. y10 \/ I!find_order(y2, k, "sell") = {}
    BY <2>3, <2>4 DEF I!OrdersInv
  <2>6. y10 \/ k \in PendingOf(y7, y2)
    BY <2>2, <2>4, <2>5 DEF PendingOf, Due
  <2>7. DOMAIN I!Blank = {"wish"}
    BY DEF I!Blank
  <2>8. /\ GoesOn(done, y7) /\ Shaped(done, y4) /\ done.pc = "entries" /\ done.given_up = y7.given_up
        /\ DOMAIN done = DOMAIN I!Idle
    BY <1>15, <2>1, <2>4
  <2>9. PICK route, props : route = I!Live /\ props = I!Blank
    OBVIOUS
  <2>10. I!Create(route, k, "sell", props, done, I!Idle) /\ DOMAIN props = {"wish"}
    BY <2>4, <2>7, <2>9
  <2> QED BY <2>2, <2>4, <2>6, <2>8, <2>9, <2>10, SlotsAfterCreate
<1>19. CASE I!GlobalKnapsack
  <2>1. /\ y7'.pc = "cap" /\ y7'.ops = {} /\ y7'.at = {} /\ y7'.made = {} /\ y7'.backlog = 0 /\ y7'.sold = 0
        /\ UNCHANGED <<y1, y2, y8>>
    BY <1>19, CycleFields, IdleCycle DEF I!GlobalKnapsack
  <2> QED BY <1>1, <1>4, <2>1 DEF Turns
<1>20. CASE I!DeleteUnselected
  <2>1. PICK id, on : on = [y7 EXCEPT !.left = @ \ {id}] /\ I!Delete(id, on, on)
    BY <1>20 DEF I!DeleteUnselected
  <2>2. y7.pc \notin Turns /\ y8' = y8
    BY <1>20 DEF I!DeleteUnselected, Turns
  <2>3. /\ y7' = on /\ on.pc = y7.pc /\ on.ops = y7.ops /\ on.at = y7.at /\ on.made = y7.made
        /\ on.backlog = y7.backlog /\ on.sold = y7.sold /\ IsFiniteSet(y1') /\ IsFiniteSet(y2')
    BY <1>2, <1>5, <2>1, CycleFields
  <2> QED BY <1>1, <1>3, <1>4, <2>2, <2>3
<1>21. CASE I!sweep_orphans
  <2>1. y7.pc \notin Turns /\ UNCHANGED <<y1, y2, y8>>
    BY <1>21 DEF I!sweep_orphans, Turns
  <2>2. CASE \E left : y7' = [y7 EXCEPT !.pc = "orphans", !.left = left]
    <3>1. /\ y7'.pc = "orphans" /\ y7'.ops = y7.ops /\ y7'.at = y7.at /\ y7'.made = y7.made
          /\ y7'.backlog = y7.backlog /\ y7'.sold = y7.sold
      BY <1>2, <2>2, CycleFields
    <3> QED BY <1>1, <1>3, <1>4, <2>1, <3>1 DEF Turns
  <2>3. CASE y7' = I!Idle
    BY <1>11, <2>1, <2>3
  <2> QED BY <1>21, <2>2, <2>3 DEF I!sweep_orphans, I!Ended
<1>22. CASE I!DeleteOrphan
  <2>1. PICK id, on : on = [y7 EXCEPT !.left = @ \ {id}]
          /\ I!Delete(id, [on EXCEPT !.given_up = @ \cup I!get_by_id(I!cache_orders, id)], on)
    BY <1>22 DEF I!DeleteOrphan
  <2>2. y7.pc \notin Turns /\ y8' = y8
    BY <1>22 DEF I!DeleteOrphan, Turns
  <2>3. PICK ok : ok = [on EXCEPT !.given_up = @ \cup I!get_by_id(I!cache_orders, id)]
    OBVIOUS
  <2>4. y7' \in {ok, on} /\ IsFiniteSet(y1') /\ IsFiniteSet(y2')
    BY <1>5, <2>1, <2>3
  <2>5. /\ y7'.pc = y7.pc /\ y7'.ops = y7.ops /\ y7'.at = y7.at /\ y7'.made = y7.made
        /\ y7'.backlog = y7.backlog /\ y7'.sold = y7.sold
    BY <1>2, <2>1, <2>3, <2>4, CycleFields
  <2> QED BY <1>1, <1>3, <1>4, <2>2, <2>4, <2>5
<1>23. CASE I!EndCycle
  BY <1>11, <1>23 DEF I!EndCycle, I!Ended
<1>24. CASE I!NewRun
  <2>1. y7' = I!First /\ UNCHANGED <<y1, y2, y8>>
    BY <1>24 DEF I!NewRun
  <2> QED BY <1>1, <2>1, SlotsEnd
<1>25. CASE I!GracePasses
  BY <1>25, SlotsAre DEF I!GracePasses
<1>26. CASE I!OrderCloses
  <2>1. PICK o \in y1 : /\ y1' = y1 \ {o} /\ y2' \in {y2, I!remove_by_id(y2, o.id)}
                        /\ y7' = IF y7.pc = "idle" \/ o.side = "buy" THEN y7 ELSE [y7 EXCEPT !.sold = @ + 1]
    BY <1>26 DEF I!OrderCloses
  <2>2. UNCHANGED <<y4, y8, y10>>
    BY <1>26 DEF I!OrderCloses
  <2>3. IsFiniteSet(y1') /\ IsFiniteSet(y2') /\ IsFiniteSet(y8')
    BY <1>1, <2>1, <2>2, FiniteLists, FS_Subset
  <2>4. \A c : c = [y7 EXCEPT !.sold = @ + 1] =>
          /\ c.pc = y7.pc /\ c.ops = y7.ops /\ c.at = y7.at /\ c.made = y7.made /\ c.left = y7.left
          /\ c.backlog = y7.backlog /\ c.sold = y7.sold + 1 /\ c.entries = y7.entries /\ c.warm = y7.warm
          /\ c.given_up = y7.given_up
    BY <1>2, CycleFields
  <2>5. CASE y7.pc \notin Turns
    <3>1. /\ y7'.pc \notin Turns /\ y7'.ops = {} /\ y7'.at = {} /\ y7'.made = {}
          /\ y7'.backlog \in Nat /\ y7'.sold \in Nat
      BY <1>1, <1>3, <2>1, <2>4, <2>5
    <3> QED BY <1>4, <2>3, <3>1
  <2>6. CASE y7.pc \in Turns /\ y7' = y7 /\ o.side = "buy"
    <3>1. GoesOn(y7, y7)
      BY <2>6 DEF GoesOn, Lesser
    <3>2. Weighed(y7, y1, y2) => Weighed(y7, y1', y2')
      BY <1>1, <1>2, <2>1, <2>6, <3>1, WeighClosedBid
    <3>3. PICK e : e = y7
      OBVIOUS
    <3>4. /\ GoesOn(e, y7) /\ Shaped(e, y4) /\ y7' = e /\ (e.pc = "slot" => Spare(e, y10)) /\ Fresh(e, y10)
          /\ (Weighed(y7, y1, y2) => Weighed(e, y1', y2'))
      BY <1>1, <2>6, <3>1, <3>2, <3>3
    <3> QED BY <2>2, <2>3, <3>4, OnTurn
  <2>7. CASE y7.pc \in Turns /\ y7' = [y7 EXCEPT !.sold = @ + 1] /\ o.side # "buy"
    <3>1. PICK d : d = y7'
      OBVIOUS
    <3>2. /\ d.pc = y7.pc /\ d.ops = y7.ops /\ d.at = y7.at /\ d.made = y7.made /\ d.left = y7.left
          /\ d.backlog = y7.backlog /\ d.sold = y7.sold + 1 /\ d.entries = y7.entries /\ d.warm = y7.warm
          /\ d.given_up = y7.given_up
      BY <2>4, <2>7, <3>1
    <3>3. Lesser(d, y7)
      BY <3>2 DEF Lesser, Due
    <3>4. Weighed(y7, y1, y2) => Weighed(d, y1', y2')
      BY <1>1, <1>2, <2>1, <3>2, <3>3, WeighClosedSale
    <3>5. Shaped(d, y4)
      BY <1>1, <3>2 DEF Shaped
    <3>6. Fresh(d, y10) /\ (d.pc = "slot" => Spare(d, y10))
      BY <1>1, <3>2, TraderAssumption DEF Fresh, Spare
    <3>7. d.pc \in Turns /\ ~y4 => y10 \/ Weighed(d, y1', y2')
      BY <3>2, <3>4, SlotFacts
    <3>8. Slots(y1', y2', y4', d, y8', y10')
      BY <2>2, <2>3, <3>5, <3>6, <3>7 DEF Slots
    <3> QED BY <3>1, <3>8, SlotsAre
  <2> QED BY <2>1, <2>5, <2>6, <2>7 DEF Turns
<1>27. CASE I!RowsChange
  <2>1. PICK kept : y7' = [y7 EXCEPT !.kept = kept]
    BY <1>27 DEF I!RowsChange
  <2>2. UNCHANGED <<y1, y2, y4, y8, y10>>
    BY <1>27 DEF I!RowsChange
  <2>3. PICK d : d = y7'
    OBVIOUS
  <2>4. /\ d.pc = y7.pc /\ d.ops = y7.ops /\ d.at = y7.at /\ d.made = y7.made /\ d.left = y7.left
        /\ d.backlog = y7.backlog /\ d.sold = y7.sold /\ d.entries = y7.entries /\ d.warm = y7.warm
        /\ d.given_up = y7.given_up
    BY <1>2, <2>1, <2>3, CycleFields
  <2>5. CASE y7.pc \notin Turns
    BY <1>1, <1>3, <1>4, <2>2, <2>3, <2>4, <2>5
  <2>6. CASE y7.pc \in Turns
    <3>1. GoesOn(d, y7)
      BY <2>4, <2>6 DEF GoesOn, Lesser, Due
    <3>2. Shaped(d, y4) /\ Fresh(d, y10) /\ (d.pc = "slot" => Spare(d, y10))
      BY <1>1, <2>4 DEF Shaped, Fresh, Spare
    <3> QED BY <1>10, <2>2, <2>3, <3>1, <3>2
  <2> QED BY <2>5, <2>6
<1>28. CASE I!RefreshAsked
  <2>1. UNCHANGED <<y1, y2, y4, y7, y10>> /\ IsFiniteSet(y8')
    BY <1>1, <1>28 DEF I!RefreshAsked
  <2>2. Slots(y1, y2, y4, y7, y8', y10)
    BY <2>1, SlotsAre DEF Slots
  <2> QED BY <2>1, <2>2, SlotsAre
<1>29. CASE I!RefreshAnswered
  <2>1. /\ y2' = I!my_orders(y8, I!Blank) /\ y8' = I!NoAnswer /\ y10' = (y10 \/ y1 # y8)
        /\ UNCHANGED <<y1, y4, y7>>
    BY <1>29 DEF I!RefreshAnswered
  <2>2. IsFiniteSet(y1') /\ IsFiniteSet(y2') /\ IsFiniteSet(y8')
    BY <1>1, <2>1, FiniteLists, FS_Singleton DEF I!NoAnswer
  <2>3. CASE y10'
    <3>1. Slots(y1', y2', y4, y7, y8', TRUE)
      BY <1>1, <2>2 DEF Slots, Fresh, Spare
    <3>2. y10' = TRUE
      BY <1>2, <2>1, <2>3
    <3> QED BY <2>1, <3>1, <3>2, SlotsAre
  <2>4. CASE ~y10' /\ y7.pc \notin Turns
    BY <1>1, <1>3, <1>4, <2>1, <2>2, <2>4
  <2>5. CASE ~y10' /\ y7.pc \in Turns
    <3>1. y8 = y1 /\ y10' = y10
      BY <1>2, <2>1, <2>5
    <3>2. GoesOn(y7, y7)
      BY <2>5 DEF GoesOn, Lesser
    <3>3. PICK e : e = y7
      OBVIOUS
    <3>4. /\ GoesOn(e, y7) /\ Shaped(e, y4) /\ y7' = e /\ (e.pc = "slot" => Spare(e, y10)) /\ Fresh(e, y10)
          /\ y2' = I!my_orders(y1, I!Blank)
      BY <1>1, <2>1, <3>1, <3>2, <3>3
    <3> QED BY <2>1, <2>2, <3>1, <3>4, SlotsAfterRefresh
  <2> QED BY <2>3, <2>4, <2>5
<1> QED
  BY <1>6, <1>7, <1>8, <1>9, <1>12, <1>13, <1>14, <1>16, <1>17, <1>18, <1>19, <1>20, <1>21, <1>22, <1>23, <1>24,
     <1>25, <1>26, <1>27, <1>28, <1>29
     DEF I!TraderNext

\* The slots' invariant holds at the start.
LEMMA SlotsInit == I!TraderInit => I!SlotsInv
<1> SUFFICES ASSUME I!TraderInit PROVE I!SlotsInv
  OBVIOUS
<1>1. PICK k \in MayBuy : y1 \in {{}, {[id |-> <<k, "buy", 1>>, key |-> k, side |-> "buy"]}}
  BY DEF I!TraderInit
<1>2. IsFiniteSet(y1)
  <2>1. CASE y1 = {}
    BY <2>1, FS_EmptySet
  <2>2. \A o : IsFiniteSet({o})
    BY FS_Singleton
  <2>3. CASE y1 = {[id |-> <<k, "buy", 1>>, key |-> k, side |-> "buy"]}
    BY <2>2, <2>3
  <2> QED BY <1>1, <2>1, <2>3
<1>3. IsFiniteSet(y2) /\ IsFiniteSet(y8)
  BY <1>2, FiniteLists, FS_Singleton DEF I!TraderInit, I!NoAnswer
<1>4. /\ y7.pc = "idle" /\ y7.ops = {} /\ y7.at = {} /\ y7.made = {} /\ y7.backlog = 0 /\ y7.sold = 0
  BY IdleCycle DEF I!TraderInit
<1>5. Slots(y1, y2, y4, y7, y8, y10)
  BY <1>2, <1>3, <1>4, OffTurn DEF Turns
<1> QED
  BY <1>5, SlotsAre
-----------------------------------------------------------------------------
(* The item trader, of the parts side by side.                                *)

ItemTraderInv == subject = "trader" => I!OrdersInv /\ I!KeptInv /\ I!SlotsInv

\* A step that changes nothing keeps the invariant.
LEMMA ItemTraderStutter ==
  ASSUME ItemTraderInv, UNCHANGED trading
  PROVE  ItemTraderInv'
<1>1. (I!OrdersInv)' <=> I!OrdersInv
  BY DEF trading, I!OrdersInv, I!OneOrderPerKey
<1>2. (I!KeptInv)' <=> I!KeptInv
  BY DEF trading, I!KeptInv, I!WishBidsAreKept
<1>3. I!SlotsInv <=> (I!SlotsInv)'
  BY SlotsAre DEF trading
<1> QED
  BY <1>1, <1>2, <1>3 DEF ItemTraderInv, trading

\* A step of any part keeps the invariant.
LEMMA ItemTraderStep ==
  ASSUME ItemTraderInv, [TradingNext]_trading
  PROVE  ItemTraderInv'
<1>1. CASE TraderPart
  BY <1>1, OrdersNext, KeptNext, SlotsNext DEF TraderPart, ItemTraderInv
<1>2. CASE DeskPart \/ RulesPart \/ ResolvePart
  BY <1>2 DEF DeskPart, RulesPart, ResolvePart, ItemTraderInv
<1>3. CASE UNCHANGED trading
  BY <1>3, ItemTraderStutter
<1> QED
  BY <1>1, <1>2, <1>3 DEF TradingNext

\* The item trader's orders, what it knows of the wish list and its slots keep their inductive
\* invariants.
THEOREM ItemTraderInvariance == TradingSpec => []ItemTraderInv
<1>1. TradingInit => ItemTraderInv
  BY OrdersInit, KeptInit, SlotsInit DEF TradingInit, ItemTraderInv
<1>2. ItemTraderInv /\ [TradingNext]_trading => ItemTraderInv'
  BY ItemTraderStep
<1> QED
  BY <1>1, <1>2, PTL DEF TradingSpec

\* Unless an answer was lost or a refresh came late, the market never holds two of our orders
\* for one key and side (create, refresh, the two books).
THEOREM OneOrderPerKeyHolds == TradingSpec => []OneOrderPerKey
<1>1. ItemTraderInv => OneOrderPerKey
  BY DEF ItemTraderInv, I!OrdersInv, OneOrderPerKey
<1> QED
  BY <1>1, ItemTraderInvariance, PTL

\* A sale that needs a slot takes neither the user's wish-list bids nor a bid of the same cycle,
\* for any keys, limit and margin (lowest_profit_buy_order, can_create_buy).
THEOREM BidsSurviveHolds == TradingSpec => []BidsSurvive
<1>1. ItemTraderInv => BidsSurvive
  BY DEF ItemTraderInv, I!KeptInv, I!SlotsInv, BidsSurvive
<1> QED
  BY <1>1, ItemTraderInvariance, PTL
=============================================================================
