------------------------------ MODULE TuyaLogin ------------------------------
(***************************************************************************)
(* The lazy, shared Tuya login of src/src/transport/tuya/command-router.ts *)
(* with TuyaClient.login (tuya/client.ts) under it: dispatches and reads   *)
(* join one login, a bind() for a new mega login makes the next one log in *)
(* again while the old may still be on its way, a rejected login is        *)
(* forgotten so that a later call tries once more.                         *)
(***************************************************************************)
EXTENDS Integers, FiniteSets

CONSTANTS
  Calls,      \* concurrent dispatchCommand / fetchDps calls
  MaxLogins,  \* bound: logins started
  MaxBinds    \* bound: bind() calls

VARIABLES
  bound,      \* bind() calls so far; 0 before the first
  login,      \* [1 .. MaxLogins -> [state, bind, tries]]
  begun,      \* logins started
  loginOnce,  \* the login the router holds, 0 for null
  client,     \* the login whose client is installed, 0 for null
  call        \* [Calls -> [pc, on]]: idle or waiting for a login, used, failed

vars == <<bound, login, begun, loginOnce, client, call>>

Logins == 1 .. MaxLogins
NoCall == [pc |-> "idle", on |-> 0]

Init ==
  /\ bound = 0 /\ begun = 0 /\ loginOnce = 0 /\ client = 0
  /\ login = [l \in Logins |-> [state |-> "new", bind |-> 0, tries |-> 0]]
  /\ call = [c \in Calls |-> NoCall]

Bind ==
  /\ bound < MaxBinds
  /\ bound' = bound + 1
  /\ client' = 0 /\ loginOnce' = 0
  /\ UNCHANGED <<login, begun, call>>

\* ensureLoggedIn: the first caller starts the login, the others join it.
\* Without a bind() the login it starts rejects.
MutJoins == FALSE
Joins    == loginOnce # 0

EnsureLoggedIn(c) ==
  /\ call[c].pc = "idle"
  /\ \/ /\ Joins
        /\ call' = [call EXCEPT ![c] = [pc |-> "waiting", on |-> loginOnce]]
        /\ UNCHANGED <<login, begun, loginOnce>>
     \/ /\ ~Joins /\ begun < MaxLogins
        /\ begun' = begun + 1 /\ loginOnce' = begun + 1
        /\ login' = [login EXCEPT ![begun + 1] = [state |-> "token", bind |-> bound, tries |-> 1]]
        /\ call' = [call EXCEPT ![c] = [pc |-> "waiting", on |-> begun + 1]]
  /\ UNCHANGED <<bound, client>>

\* TuyaClient.login: username.token.get, then uid.password.login.reg; a wrong
\* password is tried once more, with the app's fallback password.
TokenArrives(l) ==
  /\ login[l].state = "token" /\ login[l].bind > 0
  /\ login' = [login EXCEPT ![l].state = "password"]
  /\ UNCHANGED <<bound, begun, loginOnce, client, call>>

MutTriesAgain(l) == TRUE
TriesAgain(l)    == login[l].tries = 1

WrongPassword(l) ==
  /\ login[l].state = "password" /\ TriesAgain(l)
  /\ login' = [login EXCEPT ![l].state = "token", ![l].tries = IF @ < 3 THEN @ + 1 ELSE @]
  /\ UNCHANGED <<bound, begun, loginOnce, client, call>>

\* What each call that waited for this login does next, in the same turn.
Woken(l, pc) == [c \in Calls |-> IF call[c] = [pc |-> "waiting", on |-> l]
                                 THEN [pc |-> pc, on |-> l] ELSE call[c]]

LoginSucceeds(l) ==
  /\ login[l].state = "password"
  /\ login' = [login EXCEPT ![l].state = "good"]
  /\ client' = l
  /\ call' = Woken(l, "used")
  /\ UNCHANGED <<bound, begun, loginOnce>>

\* A login that fails on either request, on both passwords, or was never
\* bound: forgotten only if the router still holds this very one.
MutForgets(l) == FALSE
MutStale(l)   == TRUE
Forgets(l)    == loginOnce = l

LoginFails(l) ==
  /\ login[l].state \in {"token", "password"}
  /\ login' = [login EXCEPT ![l].state = "bad"]
  /\ loginOnce' = IF Forgets(l) THEN 0 ELSE loginOnce
  /\ call' = Woken(l, "failed")
  /\ UNCHANGED <<bound, begun, client>>

\* A call that joined a login already settled goes on in its own turn.
JoinsSettled(c) ==
  /\ call[c].pc = "waiting" /\ login[call[c].on].state \in {"good", "bad"}
  /\ call' = [call EXCEPT ![c].pc = IF login[call[c].on].state = "good" THEN "used" ELSE "failed"]
  /\ UNCHANGED <<bound, login, begun, loginOnce, client>>

\* The call publishes (or reads) over this.client and returns, or throws.
Returns(c) ==
  /\ call[c].pc \in {"used", "failed"}
  /\ call' = [call EXCEPT ![c] = NoCall]
  /\ UNCHANGED <<bound, login, begun, loginOnce, client>>

Next ==
  \/ Bind
  \/ \E c \in Calls : EnsureLoggedIn(c) \/ JoinsSettled(c) \/ Returns(c)
  \/ \E l \in Logins : TokenArrives(l) \/ WrongPassword(l) \/ LoginSucceeds(l) \/ LoginFails(l)

-----------------------------------------------------------------------------
\* The type of the state.
TypeOK ==
  /\ bound \in 0 .. MaxBinds /\ begun \in 0 .. MaxLogins
  /\ loginOnce \in 0 .. begun /\ client \in 0 .. begun
  /\ login \in [Logins -> [state : {"new", "token", "password", "good", "bad"},
                           bind : 0 .. MaxBinds, tries : 0 .. 3]]
  /\ call \in [Calls -> [pc : {"idle", "waiting", "used", "failed"}, on : 0 .. begun]]

\* One login per binding: calls share it, and a stale rejection from before a
\* bind() never makes them start a second one beside it.
Active(l) == login[l].state \in {"token", "password", "good"}
OneLoginPerBind ==
  \A k, l \in Logins : Active(k) /\ Active(l) /\ login[k].bind = login[l].bind => k = l

\* The account is never tried with more than its two passwords.
TwoPasswords == \A l \in Logins : login[l].tries <= 2

\* A failed login is not remembered: the next call logs in again.
FailureIsForgotten == loginOnce # 0 => login[loginOnce].state # "bad"

\* What they rest on: a login is of a binding there has been, and of those of
\* the present one only the login the router holds is not over.
HeldIsCurrent ==
  /\ \A l \in Logins : login[l].bind <= bound /\ (l > begun => login[l].state = "new")
  /\ \A l \in Logins : Active(l) /\ login[l].bind = bound => loginOnce = l
=============================================================================
