----------------------------- MODULE PushClient ------------------------------
(***************************************************************************)
(* The FCM/MCS push client (src/src/transport/push/push-client.ts): one    *)
(* TLS socket at a time, a login on it, a heartbeat while it is logged in, *)
(* and a reconnect with a growing delay until close().  The facade builds  *)
(* a new client for every bring-up, so connect() is called by the host     *)
(* once and by the reconnect timer afterwards.                             *)
(***************************************************************************)
EXTENDS Integers

CONSTANTS
  MaxSockets,        \* bound: sockets opened in a behaviour
  MaxLoginFailures,  \* MAX_LOGIN_FAILURES
  MaxIds             \* bound: persistent ids of the pushes delivered

VARIABLES
  socket,     \* the current socket: none, connecting, secure, or dying (destroyed, close event due)
  opened,     \* sockets opened so far
  loggedIn, heartbeat, reconnectTimer, closing,
  delay,      \* currentDelay in tens of seconds
  failures,   \* loginFailures
  ids,        \* persistentIds, as their number
  errors      \* login errors raised to the host

vars == <<socket, opened, loggedIn, heartbeat, reconnectTimer, closing, delay, failures, ids, errors>>

Init ==
  /\ socket = "none" /\ opened = 0
  /\ loggedIn = FALSE /\ heartbeat = FALSE /\ reconnectTimer = FALSE /\ closing = FALSE
  /\ delay = 0 /\ failures = 0 /\ ids = 0 /\ errors = 0

\* connect(): the parser is reset, a new socket replaces the old one.
Open ==
  /\ opened < MaxSockets
  /\ socket' = "connecting" /\ opened' = opened + 1
  /\ loggedIn' = FALSE

Connect ==
  /\ opened = 0 /\ ~closing
  /\ Open
  /\ UNCHANGED <<heartbeat, reconnectTimer, closing, delay, failures, ids, errors>>

SecureConnect ==
  /\ socket = "connecting"
  /\ socket' = "secure"
  /\ UNCHANGED <<opened, loggedIn, heartbeat, reconnectTimer, closing, delay, failures, ids, errors>>

\* A LoginResponse without an error.
LoginResponse ==
  /\ socket = "secure" /\ ~loggedIn
  /\ loggedIn' = TRUE /\ delay' = 0 /\ failures' = 0 /\ heartbeat' = TRUE
  /\ UNCHANGED <<socket, opened, reconnectTimer, closing, ids, errors>>

\* onLoginError: tolerated until it persists; the socket goes either way.
OnLoginError ==
  /\ socket = "secure" /\ ~loggedIn
  /\ failures' = failures + 1
  /\ errors' = IF failures' >= MaxLoginFailures THEN errors + 1 ELSE errors
  /\ socket' = "dying"
  /\ UNCHANGED <<opened, loggedIn, heartbeat, reconnectTimer, closing, delay, ids>>

\* A DataMessageStanza: its id is kept for the next login, the event goes out.
HandleDataMessage ==
  /\ socket = "secure" /\ loggedIn /\ ids < MaxIds
  /\ ids' = ids + 1
  /\ UNCHANGED <<socket, opened, loggedIn, heartbeat, reconnectTimer, closing, delay, failures, errors>>

\* The server's Close, a TLS error, a dead peer: the close event will follow.
SocketDies ==
  /\ socket \in {"connecting", "secure"}
  /\ socket' = "dying"
  /\ UNCHANGED <<opened, loggedIn, heartbeat, reconnectTimer, closing, delay, failures, ids, errors>>

\* scheduleReconnect: 5 s, then steps of 10 s to a minute, of a minute to ten.
Backoff == IF delay < 6 THEN delay + 1 ELSE IF delay < 60 THEN delay + 6 ELSE delay
MutReconnects == TRUE
Reconnects    == ~closing

OnClose ==
  /\ socket = "dying"
  /\ socket' = "none"
  /\ heartbeat' = FALSE /\ loggedIn' = FALSE
  /\ IF Reconnects THEN delay' = Backoff /\ reconnectTimer' = TRUE
     ELSE UNCHANGED <<delay, reconnectTimer>>
  /\ UNCHANGED <<opened, closing, failures, ids, errors>>

ReconnectFires ==
  /\ reconnectTimer
  /\ reconnectTimer' = FALSE
  /\ IF closing THEN UNCHANGED <<socket, opened, loggedIn>> ELSE Open
  /\ UNCHANGED <<heartbeat, closing, delay, failures, ids, errors>>

\* close(): the destroyed socket's close event still comes.
Close ==
  /\ ~closing /\ opened > 0
  /\ closing' = TRUE
  /\ heartbeat' = FALSE /\ reconnectTimer' = FALSE
  /\ socket' = IF socket = "none" THEN "none" ELSE "dying"
  /\ UNCHANGED <<opened, loggedIn, delay, failures, ids, errors>>

Next ==
  \/ Connect \/ SecureConnect \/ LoginResponse \/ OnLoginError \/ HandleDataMessage
  \/ SocketDies \/ OnClose \/ ReconnectFires \/ Close

-----------------------------------------------------------------------------
\* The type of the state; the delay stands on a step of its ladder.
Flags  == loggedIn \in BOOLEAN /\ heartbeat \in BOOLEAN
          /\ reconnectTimer \in BOOLEAN /\ closing \in BOOLEAN
Delays == 0 .. 6 \cup {12, 18, 24, 30, 36, 42, 48, 54, 60}
Counts == socket \in {"none", "connecting", "secure", "dying"} /\ opened \in 0 .. MaxSockets
          /\ delay \in Delays /\ failures \in Nat /\ ids \in 0 .. MaxIds /\ errors \in Nat
TypeOK == Flags /\ Counts

\* Once close() was called nothing brings the client back: no timer is left
\* to open a socket, also when the destroyed socket reports its close late.
ClosedStaysClosed == closing => ~reconnectTimer /\ ~heartbeat /\ socket \in {"none", "dying"}

\* While the client is meant to be up it always has a socket on which
\* something will happen, or the timer that opens the next one.
AlwaysComingBack == opened > 0 /\ ~closing => socket # "none" \/ reconnectTimer
=============================================================================
