---------------------------- MODULE MarketSession ----------------------------
(***************************************************************************)
(* The warframe.market session: sign-in and sign-out (commands/auth.rs,     *)
(* app/modules/auth.rs, startup.rs), the websockets they start              *)
(* (wf-market types/websocket, app/modules/ws.rs), the /me checks and the   *)
(* flags the trader reads (trader/session.rs).                              *)
(*                                                                          *)
(* Every sign-in starts a socket of its own, a loop that reconnects until   *)
(* it is told to stop.  Sign-in, sign-out, the loops and a /me check in     *)
(* flight all report to one session record, and nothing says which of them  *)
(* a report is from.                                                        *)
(***************************************************************************)
EXTENDS Integers, FiniteSets

CONSTANTS
  MaxLogins,     \* bound: sign-ins, the one at startup included
  MaxAttempt,    \* bound: the exponent from which ws_backoff stays at 300 s
  Overlap        \* whether a sign-in may begin while signed in or signing out

ASSUME MarketSessionAssumption ==
  /\ MaxLogins \in Nat \ {0}
  /\ MaxAttempt \in Nat
  /\ Overlap \in BOOLEAN

VARIABLES
  sock,      \* [sign-in -> its socket's loop]
  app,       \* AppState: the socket and client in use, and the user
  account,   \* the wfm_account row, the saved sign-in
  session,   \* trader::session
  login, logout, me,   \* the command or check under way: where it is and whose
  logins

sessionVars == <<sock, app, account, session, login, logout, me, logins>>

None == 0
Gens == 1..MaxLogins
NoLoop == [pc |-> "none", stop |-> FALSE, sender |-> FALSE, mute |-> FALSE, attempt |-> 0]
Rest == [pc |-> "rest", gen |-> None]
SignedOut == [signed_in |-> FALSE, unauthorized |-> FALSE, fresh |-> FALSE, ws |-> FALSE, down |-> FALSE]

SessionInit ==
  /\ sock = [g \in Gens |-> NoLoop]
  /\ app = [socket |-> None, client |-> None, user |-> "anonymous", status |-> "invisible"]
  /\ account \in {None, 1} /\ session = SignedOut
  /\ login = [pc |-> "boot", gen |-> None] /\ logout = Rest /\ me = Rest
  /\ logins = IF account = None THEN 0 ELSE 1

-----------------------------------------------------------------------------
(***************************************************************************)
(* The socket's loop.                                                       *)
(***************************************************************************)
Started == [NoLoop EXCEPT !.pc = "top"]

\* ws_backoff: the counter only matters up to where the wait stays the same.
Later(attempt) == IF attempt < MaxAttempt THEN attempt + 1 ELSE attempt
attempt_after_connection(attempt, lasted) == IF lasted THEN 0 ELSE attempt

\* set_ws_connected, from the internal callbacks.
\* A mutated form: a lost connection is not reported.
set_ws_connected_OnlyUp(connected) ==
  session' = IF connected THEN [session EXCEPT !.ws = TRUE, !.down = FALSE] ELSE session
set_ws_connected(connected) == session' = [session EXCEPT !.ws = connected, !.down = ~connected]

\* The top of the loop, and the gate: while it refuses, nobody is told.
Top(g) ==
  /\ sock[g].pc = "top"
  /\ sock' = [sock EXCEPT ![g] =
       IF sock[g].stop THEN [@ EXCEPT !.pc = "over"] ELSE [@ EXCEPT !.pc = "gate"]]
  /\ UNCHANGED <<app, account, session, login, logout, me, logins>>

Gate(g) ==
  /\ sock[g].pc = "gate"
  /\ \/ sock' = [sock EXCEPT ![g].pc = "connecting"]
     \/ sock' = [sock EXCEPT ![g].pc = "sleeping", ![g].attempt = Later(@)]
  /\ UNCHANGED <<app, account, session, login, logout, me, logins>>

\* The connected callback, the sign-in frame and the sender.
Connected(g) ==
  /\ sock[g].pc = "connecting"
  /\ sock' = [sock EXCEPT ![g].pc = "open", ![g].sender = TRUE, ![g].mute = FALSE]
  /\ set_ws_connected(TRUE)
  /\ UNCHANGED <<app, account, login, logout, me, logins>>

ConnectFailed(g) ==
  /\ sock[g].pc = "connecting"
  /\ sock' = [sock EXCEPT ![g].pc = "sleeping", ![g].attempt = Later(@)]
  /\ set_ws_connected(FALSE)
  /\ UNCHANGED <<app, account, login, logout, me, logins>>

\* The write task ends on an error or is aborted; the connection stays open
\* until the read task ends as well.
WriteFails(g) ==
  /\ sock[g].pc = "open" /\ ~sock[g].mute
  /\ sock' = [sock EXCEPT ![g].mute = TRUE]
  /\ UNCHANGED <<app, account, session, login, logout, me, logins>>

\* The read task looks at the stop flag every 100 ms, and ends on an error or
\* on the market's close.
\* A mutated form: the flag is only looked at while the writer lives.
StopSeen_Writing(g) == sock[g].pc = "open" /\ sock[g].stop /\ ~sock[g].mute
StopSeen(g) == sock[g].pc = "open" /\ sock[g].stop
ReadEnds(g) ==
  /\ sock' = [sock EXCEPT ![g].pc = "closing", ![g].mute = TRUE]
  /\ UNCHANGED <<app, account, session, login, logout, me, logins>>
ReadStops(g) == StopSeen(g) /\ ReadEnds(g)
ReadFails(g) == sock[g].pc = "open" /\ ReadEnds(g)

\* Both tasks have ended: the disconnected callback, then the wait.
Disconnected(g) ==
  /\ sock[g].pc = "closing"
  /\ \E lasted \in BOOLEAN :
       sock' = [sock EXCEPT ![g].pc = "sleeping",
                            ![g].attempt = Later(attempt_after_connection(@, lasted))]
  /\ set_ws_connected(FALSE)
  /\ UNCHANGED <<app, account, login, logout, me, logins>>

Wake(g) ==
  /\ sock[g].pc = "sleeping"
  /\ sock' = [sock EXCEPT ![g].pc = "top"]
  /\ UNCHANGED <<app, account, session, login, logout, me, logins>>

\* WsClient::disconnect, and a command to it.
disconnect(g) == [sock EXCEPT ![g].stop = TRUE, ![g].sender = FALSE, ![g].mute = TRUE]
is_connected(g) == ~sock[g].stop /\ sock[g].sender

\* user_set_status, and the market's answer on that socket, or its event.
SetStatus ==
  /\ app.socket # None
  /\ LET s == sock[app.socket] IN s.sender /\ s.pc = "open" /\ ~s.mute
  /\ \E status \in {"invisible", "ingame"} :
       status # app.status /\ app' = [app EXCEPT !.status = status]
  /\ UNCHANGED <<sock, account, session, login, logout, me, logins>>

-----------------------------------------------------------------------------
(***************************************************************************)
(* Startup, sign-in and sign-out.                                           *)
(***************************************************************************)
mark_signed_in == [session EXCEPT !.signed_in = TRUE, !.unauthorized = FALSE, !.fresh = TRUE]
mark_signed_out == [session EXCEPT !.signed_in = FALSE, !.unauthorized = FALSE, !.fresh = FALSE]

\* AppState::new and startup::start: the saved token is tried once; when the
\* market refuses it or cannot be reached, the user is signed out and the row
\* stays for the next start.
Boot ==
  /\ login.pc = "boot" /\ login' = Rest
  /\ \/ /\ account # None
        /\ sock' = [sock EXCEPT ![account] = Started]
        /\ app' = [app EXCEPT !.socket = account, !.client = account, !.user = "known"]
        /\ session' = mark_signed_in
     \/ UNCHANGED <<sock, app, session>>
  /\ UNCHANGED <<account, logout, me, logins>>

LoginBegins ==
  /\ login.pc = "rest" /\ logins < MaxLogins
  /\ Overlap \/ (logout.pc = "rest" /\ app.socket = None)
  /\ login' = [pc |-> "signin", gen |-> logins + 1] /\ logins' = logins + 1
  /\ UNCHANGED <<sock, app, account, session, logout, me>>

\* Client::login (signin, then /me and the orders); the row is written before
\* the socket is started, and the user's file after it.
SignIn ==
  /\ login.pc = "signin"
  /\ \/ login' = Rest /\ UNCHANGED account
     \/ account' = login.gen /\ login' = [login EXCEPT !.pc = "socket"]
  /\ UNCHANGED <<sock, app, session, logout, me, logins>>

SetupSocket ==
  /\ login.pc = "socket"
  /\ sock' = [sock EXCEPT ![login.gen] = Started]
  /\ login' \in {Rest, [login EXCEPT !.pc = "finish"]}     \* the file may fail to be written
  /\ UNCHANGED <<app, account, session, logout, me, logins>>

LoginEnds ==
  /\ login.pc = "finish" /\ login' = Rest
  /\ app' = [app EXCEPT !.socket = login.gen, !.client = login.gen, !.user = "known"]
  /\ session' = mark_signed_in
  /\ UNCHANGED <<sock, account, logout, me, logins>>

\* auth_logout: the socket it saw first, then the row, then the record.
LogoutBegins ==
  /\ logout.pc = "rest" /\ login.pc # "boot" /\ (Overlap \/ login.pc = "rest")
  /\ app.user = "known"
  /\ sock' = IF app.socket = None THEN sock ELSE disconnect(app.socket)
  /\ logout' = [pc |-> "delete", gen |-> app.socket]
  /\ UNCHANGED <<app, account, session, login, me, logins>>

DeleteAccount ==
  /\ logout.pc = "delete"
  /\ \/ logout' = Rest /\ UNCHANGED account
     \/ account' = None /\ logout' = [logout EXCEPT !.pc = "finish"]
  /\ UNCHANGED <<sock, app, session, login, me, logins>>

LogoutEnds ==
  /\ logout.pc = "finish" /\ logout' = Rest
  /\ app' = [app EXCEPT !.socket = None, !.user = "anonymous", !.status = "invisible"]
  /\ session' = mark_signed_out
  /\ UNCHANGED <<sock, account, login, me, logins>>

-----------------------------------------------------------------------------
(***************************************************************************)
(* check_me_once, every 15 minutes.                                         *)
(***************************************************************************)
MeBegins ==
  /\ me.pc = "rest" /\ session.signed_in
  /\ me' = [pc |-> "asked", gen |-> app.client]
  /\ UNCHANGED <<sock, app, account, session, login, logout, logins>>

\* A mutated form: an answer that comes after the sign-out counts.
mark_me_ok_Always == [session EXCEPT !.fresh = TRUE, !.unauthorized = FALSE]
mark_me_ok ==
  IF session.signed_in THEN [session EXCEPT !.fresh = TRUE, !.unauthorized = FALSE] ELSE session
mark_unauthorized == [session EXCEPT !.unauthorized = TRUE]

MeAnswers ==
  /\ me.pc = "asked" /\ me' = Rest
  /\ session' \in {mark_me_ok, mark_unauthorized, session}
  /\ UNCHANGED <<sock, app, account, login, logout, logins>>

\* TOKEN_FRESH_MINUTES after the last good answer.
GoesStale ==
  /\ session.fresh /\ session' = [session EXCEPT !.fresh = FALSE]
  /\ UNCHANGED <<sock, app, account, login, logout, me, logins>>

token_valid == session.signed_in /\ ~session.unauthorized /\ session.fresh

-----------------------------------------------------------------------------
Loop(g) ==
  \/ Top(g) \/ Gate(g) \/ Connected(g) \/ ConnectFailed(g) \/ WriteFails(g)
  \/ ReadStops(g) \/ ReadFails(g) \/ Disconnected(g) \/ Wake(g)
SessionNext ==
  \/ \E g \in Gens : Loop(g)
  \/ SetStatus \/ Boot \/ LoginBegins \/ SignIn \/ SetupSocket \/ LoginEnds
  \/ LogoutBegins \/ DeleteAccount \/ LogoutEnds \/ MeBegins \/ MeAnswers \/ GoesStale
SessionSpec == SessionInit /\ [][SessionNext]_sessionVars

\* The loop is a task of its own: it goes on wherever it can, its reader polls,
\* and its waits end.  Nothing is assumed of the market or of the gate but that
\* a connection attempt ends.
Proceeds(g) == Top(g) \/ Gate(g) \/ Connected(g) \/ ConnectFailed(g) \/ ReadStops(g) \/ Disconnected(g) \/ Wake(g)
SessionFair == SessionSpec /\ \A g \in Gens : WF_sessionVars(Proceeds(g))

-----------------------------------------------------------------------------
\* A loop that was told to stop ends, wherever the word reached it: waiting,
\* refused by the gate, connecting or open (ws_client_builder.rs looks at the
\* flag at the top and in the reader only).
StoppedSocketsEnd == \A g \in Gens : sock[g].stop ~> sock[g].pc = "over"

\* The trader is never told that the websocket is up when none is: whatever
\* order the callbacks of several loops run in, the flag is backed by a loop
\* that is connected or about to report that it no longer is.
ConnectedFlagIsBacked == session.ws => \E g \in Gens : sock[g].pc \in {"open", "closing"}

\* A /me answer that was on its way while the user signed out does not make a
\* signed-out session valid again.
LateChecksDoNotSignIn == ~session.signed_in => ~session.fresh /\ ~token_valid

\* The design's stop trigger "The websocket has been down for more than 60 s":
\* the session reports it down only when the socket in use is not connected.
DownMeansDown ==
  session.down /\ app.socket # None
    => sock[app.socket].stop \/ sock[app.socket].pc # "open"

-----------------------------------------------------------------------------
(***************************************************************************)
(* Why it holds: the inductive invariant.                                   *)
(***************************************************************************)
LoopPC == {"none", "top", "gate", "connecting", "open", "closing", "sleeping", "over"}
TypeOK ==
  /\ sock \in [Gens -> [pc : LoopPC, stop : BOOLEAN, sender : BOOLEAN, mute : BOOLEAN,
                       attempt : 0..MaxAttempt]]
  /\ app \in [socket : Gens \cup {None}, client : Gens \cup {None},
              user : {"anonymous", "known"}, status : {"invisible", "ingame"}]
  /\ account \in Gens \cup {None} /\ logins \in 0..MaxLogins
  /\ session \in [signed_in : BOOLEAN, unauthorized : BOOLEAN, fresh : BOOLEAN,
                  ws : BOOLEAN, down : BOOLEAN]
  /\ login \in [pc : {"boot", "rest", "signin", "socket", "finish"}, gen : Gens \cup {None}]
  /\ logout \in [pc : {"rest", "delete", "finish"}, gen : Gens \cup {None}]
  /\ me \in [pc : {"rest", "asked"}, gen : Gens \cup {None}]

\* A sign-in under way is the latest, and no loop runs for it yet: a socket is
\* started once, so that no loop that is connected is replaced by a new one.
StartedOnce ==
  /\ account <= logins
  /\ \A g \in Gens : g > logins => sock[g].pc = "none"
  /\ login.pc = "boot" => \A g \in Gens : sock[g].pc = "none"
  /\ login.pc \in {"signin", "socket", "finish"} => login.gen = logins /\ login.gen # None
  /\ login.pc \in {"signin", "socket"} => sock[login.gen].pc = "none"

IInv == TypeOK /\ StartedOnce /\ ConnectedFlagIsBacked /\ LateChecksDoNotSignIn
=============================================================================
