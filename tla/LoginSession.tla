---------------------------- MODULE LoginSession ----------------------------
(***************************************************************************)
(* The login session of the cloud client (transport/http/mega-client.ts):  *)
(* signed requests, a session key that is exchanged again when the gateway *)
(* forgot it, a token that is replaced by one shared re-login when the     *)
(* gateway rejects it, the login round trip with its captcha and its       *)
(* second factor, and the store, which another client may share.           *)
(*                                                                         *)
(* Tokens are numbered in the order the cloud issues them; 0 is none.  A   *)
(* request is one attempt: the two content types postSigned probes are not *)
(* told apart, nor are the hosts with a session key of their own.  Time is *)
(* abstracted: whether the hold-off is over, or a replaced token has been  *)
(* stable, is a choice.  The cloud is external.                            *)
(***************************************************************************)
EXTENDS Integers, FiniteSets

CONSTANTS
  Calls,            \* requests the program makes, one at a time each
  HasCredentials,   \* cfg.email and cfg.password are set
  SharedStore,      \* another client logs in over the same store
  MaxTokens         \* bound: tokens the cloud issues

ASSUME LoginConstants ==
  /\ HasCredentials \in BOOLEAN /\ SharedStore \in BOOLEAN
  /\ MaxTokens \in Nat \ {0}
  /\ Calls \cap {"host", "reauth"} = {}

\* The login round trips: the one the host drives, and the one of a recovery.
Logins == {"host", "reauth"}
Procs  == Calls \cup Logins

VARIABLES
  held,       \* auth_, sessionKey, pendingCaptchaId, pending2fa and the store
  loggingIn,  \* loggingIn
  reauth,     \* reauthAttempt is pending
  contended,  \* recoveries > 0
  req,        \* the postSigned of every process
  stage,      \* how far a login round trip is
  issued,     \* external: tokens issued so far
  alive,      \* external: tokens the cloud honours
  limited     \* external: tokens that only carry a login to its second factor

cloud == <<issued, alive, limited>>
vars  == <<held, loggingIn, reauth, contended, req, stage, cloud>>

Tokens  == 1 .. MaxTokens
NoToken == 0
Session == [auth : 0 .. MaxTokens, key : BOOLEAN, captcha : BOOLEAN,
            pending2fa : BOOLEAN, store : 0 .. MaxTokens]
Stages  == {"idle", "post", "verify", "captcha", "code", "bind"}
Posting == {"post", "verify"}
Request == [pc : {"idle", "exchange", "sent", "reexchange", "joined"},
            sent : 0 .. MaxTokens, authed : BOOLEAN,
            identity : BOOLEAN, reauth : BOOLEAN]

\* Invariant.  The client, its requests and its logins keep their shape; the
\* re-login is pending exactly while its round trip is under way.
TypeOK ==
  /\ held \in Session
  /\ loggingIn \in BOOLEAN /\ reauth \in BOOLEAN /\ contended \in BOOLEAN
  /\ req \in [Procs -> Request]
  /\ stage \in [Logins -> Stages]
  /\ issued \in 0 .. MaxTokens
  /\ alive \subseteq 1 .. issued /\ limited \subseteq 1 .. issued
  /\ \A p \in Logins :
       req[p].pc # "idle" => stage[p] \in Posting \cup {"code"}
  /\ reauth <=> stage["reauth"] # "idle"

-----------------------------------------------------------------------------
(* The session: clearSession, hydrateFromStore, persist, ensureSessionKey. *)

ClearSession ==
  [auth |-> NoToken, key |-> FALSE, captcha |-> FALSE,
   pending2fa |-> FALSE, store |-> NoToken]

\* Installs what the store holds; pending2fa stays as it is.
Hydrated(s) ==
  IF s.store = NoToken THEN s
  ELSE [s EXCEPT !.auth = s.store, !.key = TRUE]

Persisted(s) ==
  IF s.auth = NoToken \/ ~s.key THEN s
  ELSE [s EXCEPT !.store = s.auth]

Keyed(s) == [s EXCEPT !.key = TRUE]

\* sessionReplacedSince(sentToken), of a session s.
Replaced(s, sent) == s.auth # NoToken /\ s.auth # sent

-----------------------------------------------------------------------------
(* One request: postSigned and what it awaits.                             *)

NoRequest == [pc |-> "idle", sent |-> NoToken, authed |-> FALSE,
              identity |-> FALSE, reauth |-> FALSE]

NewRequest(authed) == [NoRequest EXCEPT !.authed = authed]

\* A login posts with the token it finds, if there is one; every other
\* request is authenticated whether there is one or not.
Posted(s, r) ==
  [r EXCEPT !.pc     = "sent",
            !.authed = r.authed \/ s.auth # NoToken,
            !.sent   = s.auth]

\* Posts at once with the key that is held, else exchanges one first.
Begun(s, r) ==
  IF s.key THEN Posted(s, r)
  ELSE [r EXCEPT !.pc = "exchange", !.sent = NoToken]

\* Tries again with the session that replaced the rejected one.
Again(s, r) == Begun(s, [r EXCEPT !.reauth = TRUE])

\* The last word on a rejection nothing could be done about: drop the
\* session, unless it is no longer the one that was rejected.
MutSurrendered(s, sent) == ClearSession

Surrendered(s, sent) == IF Replaced(s, sent) THEN s ELSE ClearSession

CanReauthenticate(s) == HasCredentials /\ ~loggingIn /\ ~s.pending2fa

\* Who waits for the re-login that is in flight.
Joiners == {p \in Procs : req[p].pc = "joined"}

\* The attempt is forgotten however it ended: .finally().
MutPending(p, ok) == reauth /\ ~(p = "reauth" /\ ok)

Pending(p, ok) == reauth /\ p # "reauth"

\* Process p is done, and the session is s.  A login leaves loggingIn behind
\* it.  The re-login also leaves reauthAttempt, and answers its joiners: they
\* try again when it obtained a usable session, else they surrender.
Ends(p, s, ok) ==
  LET joiners == IF p = "reauth" THEN Joiners ELSE {}
      losers  == IF ok THEN {} ELSE joiners
      over    == {p} \cup losers
  IN /\ held' = IF \E q \in losers : ~Replaced(s, req[q].sent)
                THEN ClearSession ELSE s
     /\ req' = [q \in Procs |-> IF q \in over THEN NoRequest
                                ELSE IF q \in joiners THEN Again(s, req[q])
                                ELSE req[q]]
     /\ stage' = [l \in Logins |-> IF l \in over THEN "idle" ELSE stage[l]]
     /\ loggingIn' = (loggingIn /\ over \cap Logins = {})
     /\ reauth' = Pending(p, ok)

\* Process p goes on with request r, and the session is s.
GoesOn(p, s, r) ==
  /\ held' = s
  /\ req' = [req EXCEPT ![p] = r]
  /\ UNCHANGED <<loggingIn, reauth, stage>>

-----------------------------------------------------------------------------
Init ==
  /\ issued = 1 /\ alive \in {{}, {1}} /\ limited = {}
  /\ held \in LET stored == [ClearSession EXCEPT !.store = 1]
              IN {ClearSession, Hydrated(stored)}
                   \cup (IF alive = {} THEN {stored} ELSE {})
  /\ loggingIn = FALSE /\ reauth = FALSE /\ contended = FALSE
  /\ req = [p \in Procs |-> NoRequest]
  /\ stage = [l \in Logins |-> "idle"]

-----------------------------------------------------------------------------
(* The request.                                                            *)

CallStarts(c) ==
  /\ req[c].pc = "idle"
  /\ GoesOn(c, held, Begun(held, NewRequest(TRUE)))
  /\ UNCHANGED <<contended, cloud>>

Exchanged(p) ==
  /\ req[p].pc = "exchange"
  /\ GoesOn(p, Keyed(held), Posted(held, req[p]))
  /\ UNCHANGED <<contended, cloud>>

ExchangeFails(p) ==
  /\ req[p].pc = "exchange"
  /\ Ends(p, held, FALSE)
  /\ UNCHANGED <<contended, cloud>>

\* Tokens that serve the request of p.
Honoured(p) == IF p \in Logins THEN alive ELSE alive \ limited

\* noteSessionWorking, after an authenticated request that succeeded.
NoteSessionWorking(p) ==
  contended' \in IF req[p].authed THEN {contended, FALSE} ELSE {contended}

Answered(c) ==
  /\ req[c].pc = "sent" /\ req[c].sent \in Honoured(c)
  /\ NoteSessionWorking(c)
  /\ Ends(c, held, FALSE)
  /\ UNCHANGED cloud

\* An error that says nothing about the token.
Refused(p) ==
  /\ req[p].pc = "sent"
  /\ Ends(p, held, FALSE)
  /\ UNCHANGED <<contended, cloud>>

\* The gateway no longer knows the session key.
IdentityError(p) ==
  /\ req[p].pc = "sent" /\ req[p].authed /\ ~req[p].identity
  /\ held.auth # NoToken
  /\ GoesOn(p, [held EXCEPT !.key = FALSE],
               [req[p] EXCEPT !.pc = "reexchange", !.sent = NoToken])
  /\ UNCHANGED <<contended, cloud>>

Reexchanged(p) ==
  LET s == Persisted(Keyed(held))
  IN /\ req[p].pc = "reexchange"
     /\ GoesOn(p, s, Posted(s, [req[p] EXCEPT !.identity = TRUE]))
     /\ UNCHANGED <<contended, cloud>>

ReexchangeFails(p) ==
  /\ req[p].pc = "reexchange"
  /\ Ends(p, ClearSession, FALSE)
  /\ UNCHANGED <<contended, cloud>>

-----------------------------------------------------------------------------
(* The token is finished: recoverRejectedSession.                          *)

\* The gateway says so, or it does not know a key that was just exchanged
\* again, whatever the token is worth.
Rejected(p) ==
  /\ req[p].pc = "sent" /\ req[p].authed
  /\ req[p].sent \notin Honoured(p) \/ req[p].identity

\* A request that already tried again gives up.
RejectedTwice(p) ==
  /\ Rejected(p) /\ req[p].reauth
  /\ Ends(p, Surrendered(held, req[p].sent), FALSE)
  /\ UNCHANGED <<contended, cloud>>

\* The rejection is late: another request recovered in the meantime.
RejectedLate(p) ==
  /\ Rejected(p) /\ ~req[p].reauth
  /\ Replaced(held, req[p].sent)
  /\ GoesOn(p, held, Again(held, req[p]))
  /\ UNCHANGED <<contended, cloud>>

RejectedJoins(p) ==
  /\ Rejected(p) /\ ~req[p].reauth
  /\ ~Replaced(held, req[p].sent) /\ reauth
  /\ GoesOn(p, held, [req[p] EXCEPT !.pc = "joined"])
  /\ UNCHANGED <<contended, cloud>>

\* The first request to learn of it looks into the store.  It finds nothing
\* there if what the store holds is past its own expiry.
FirstRejected(p) ==
  /\ Rejected(p) /\ ~req[p].reauth
  /\ ~Replaced(held, req[p].sent) /\ ~reauth

Loads == {Hydrated(held)} \cup (IF held.store \in alive THEN {} ELSE {held})

Adopts(p) ==
  \E h \in Loads :
    /\ FirstRejected(p) /\ Replaced(h, req[p].sent)
    /\ GoesOn(p, h, Again(h, req[p]))
    /\ UNCHANGED <<contended, cloud>>

\* No login can be spent, or none may be: the last one was too recent.
GivesUp(p) ==
  \E h \in Loads :
    /\ FirstRejected(p) /\ ~Replaced(h, req[p].sent)
    /\ ~CanReauthenticate(h) \/ contended
    /\ Ends(p, Surrendered(h, req[p].sent), FALSE)
    /\ UNCHANGED <<contended, cloud>>

\* Drops the session and starts the one re-login.
Reauthenticates(p) ==
  /\ FirstRejected(p)
  /\ \E h \in Loads : ~Replaced(h, req[p].sent) /\ CanReauthenticate(h)
  /\ held' = ClearSession
  /\ contended' = TRUE /\ loggingIn' = TRUE /\ reauth' = TRUE
  /\ req' = [req EXCEPT ![p].pc = "joined",
                        !["reauth"] = Begun(ClearSession, NewRequest(FALSE))]
  /\ stage' = [stage EXCEPT !["reauth"] = "post"]
  /\ UNCHANGED cloud

-----------------------------------------------------------------------------
(* The login round trip: attemptLogin, loginRoundTrip.                     *)

\* login(), unless a session is held already; solveCaptcha(answer);
\* submitVerifyCode(code).
HostLogsIn(code) ==
  /\ stage["host"] = "idle"
  /\ IF code THEN held.pending2fa
     ELSE held.captcha \/ held.pending2fa \/ held.auth = NoToken \/ ~held.key
  /\ loggingIn' = TRUE
  /\ stage' = [stage EXCEPT !["host"] = IF code THEN "verify" ELSE "post"]
  /\ req' = [req EXCEPT !["host"] = Begun(held, NewRequest(FALSE))]
  /\ UNCHANGED <<held, reauth, contended, cloud>>

\* The cloud issues a token, for a session or for the second factor only.
Issues(kind) ==
  /\ issued < MaxTokens
  /\ issued' = issued + 1
  /\ alive' = alive \cup {issued'}
  /\ limited' = IF kind = "limited" THEN limited \cup {issued'} ELSE limited

PostAnswered(p) ==
  req[p].pc = "sent" /\ stage[p] \in Posting /\ NoteSessionWorking(p)

\* The token is installed, and a key exchanged that is bound to it.
Accepted(p) ==
  /\ PostAnswered(p) /\ Issues("full")
  /\ held' = [held EXCEPT !.auth = issued', !.key = FALSE,
                          !.captcha = FALSE, !.pending2fa = FALSE]
  /\ stage' = [stage EXCEPT ![p] = "bind"]
  /\ req' = [req EXCEPT ![p] = NoRequest]
  /\ UNCHANGED <<loggingIn, reauth>>

MutBound(p) ==
  /\ stage[p] = "bind"
  /\ Ends(p, Persisted(Keyed(held)), TRUE)
  /\ UNCHANGED <<contended, cloud>>

Bound(p) ==
  LET s == Persisted(Keyed(held))
  IN /\ stage[p] = "bind"
     /\ Ends(p, s, s.auth # NoToken)
     /\ UNCHANGED <<contended, cloud>>

BindFails(p) ==
  /\ stage[p] = "bind"
  /\ Ends(p, held, FALSE)
  /\ UNCHANGED <<contended, cloud>>

\* A second factor is needed: the code is asked for with the limited token.
NeedsCode(p) ==
  LET s == [held EXCEPT !.auth = issued', !.captcha = FALSE,
                        !.pending2fa = TRUE]
  IN /\ stage[p] = "post"
     /\ PostAnswered(p) /\ Issues("limited")
     /\ held' = s
     /\ stage' = [stage EXCEPT ![p] = "code"]
     /\ req' = [req EXCEPT ![p] = Begun(s, NewRequest(TRUE))]
     /\ UNCHANGED <<loggingIn, reauth>>

CodeSent(p) ==
  /\ req[p].pc = "sent" /\ stage[p] = "code" /\ req[p].sent \in Honoured(p)
  /\ NoteSessionWorking(p)
  /\ Ends(p, held, FALSE)
  /\ UNCHANGED cloud

NeedsCaptcha(p) ==
  /\ req[p].pc = "sent" /\ stage[p] \in Posting
  /\ stage' = [stage EXCEPT ![p] = "captcha"]
  /\ req' = [req EXCEPT ![p] = NoRequest]
  /\ UNCHANGED <<held, loggingIn, reauth, contended, cloud>>

CaptchaShown(p) ==
  /\ stage[p] = "captcha"
  /\ Ends(p, [held EXCEPT !.captcha = TRUE], FALSE)
  /\ UNCHANGED <<contended, cloud>>

CaptchaFails(p) ==
  /\ stage[p] = "captcha"
  /\ Ends(p, held, FALSE)
  /\ UNCHANGED <<contended, cloud>>

-----------------------------------------------------------------------------
(* The host, the other client and the cloud.                               *)

HostClears ==
  /\ held' = ClearSession
  /\ UNCHANGED <<loggingIn, reauth, contended, req, stage, cloud>>

RivalLogsIn ==
  /\ SharedStore /\ Issues("full")
  /\ held' = [held EXCEPT !.store = issued']
  /\ UNCHANGED <<loggingIn, reauth, contended, req, stage>>

Expires(t) ==
  /\ t \in alive /\ alive' = alive \ {t}
  /\ UNCHANGED <<held, loggingIn, reauth, contended, req, stage,
                 issued, limited>>

RequestStep(p) ==
  \/ Exchanged(p) \/ ExchangeFails(p) \/ Refused(p)
  \/ IdentityError(p) \/ Reexchanged(p) \/ ReexchangeFails(p)
  \/ RejectedTwice(p) \/ RejectedLate(p) \/ RejectedJoins(p)
  \/ Adopts(p) \/ GivesUp(p) \/ Reauthenticates(p)

LoginStep(p) ==
  \/ Accepted(p) \/ Bound(p) \/ BindFails(p)
  \/ NeedsCode(p) \/ CodeSent(p)
  \/ NeedsCaptcha(p) \/ CaptchaShown(p) \/ CaptchaFails(p)

Next ==
  \/ \E c \in Calls : CallStarts(c) \/ Answered(c)
  \/ \E p \in Procs : RequestStep(p)
  \/ \E p \in Logins : LoginStep(p)
  \/ \E code \in BOOLEAN : HostLogsIn(code)
  \/ HostClears \/ RivalLogsIn
  \/ \E t \in Tokens : Expires(t)

Spec == Init /\ [][Next]_vars

\* Every request is answered or fails: sockets time out.
FairSpec ==
  /\ Spec
  /\ \A c \in Calls : WF_vars(Answered(c) \/ RequestStep(c))
  /\ \A p \in Logins : WF_vars(RequestStep(p) \/ LoginStep(p))

-----------------------------------------------------------------------------
\* Action property.  No request drops a token the cloud still honours.  The
\* exceptions: a key that could not be exchanged again, and a request that was
\* refused with this very token, because the token is limited and the request
\* is not part of a login, or because the gateway refused a fresh key of the
\* request too (postSigned).  The concern is a late rejection, and joiners that
\* surrender after somebody else recovered.
HonouredTokenKept ==
  [][(held.auth \in alive /\ held'.auth = NoToken) =>
        \/ HostClears
        \/ \E p \in Procs : ReexchangeFails(p)
        \/ \E p \in Procs :
             /\ req[p].sent = held.auth /\ req'[p] # req[p]
             /\ held.auth \notin Honoured(p) \/ req[p].identity]_vars

\* Action property.  A request is only told to try again while the client holds
\* a token, even if the session was cleared again while it waited for the
\* re-login, and never with the token it was just rejected with, unless the
\* re-login it joined had obtained that one (recoverRejectedSession).  What
\* becomes of the session after that, while the request exchanges a key before
\* it is posted, is not claimed.
RetryIsReplaced ==
  [][\A p \in Procs : req'[p].reauth /\ ~req[p].reauth =>
       /\ held'.auth # NoToken
       /\ held'.auth = req[p].sent => req[p].pc = "joined"]_vars

\* The re-login was rejected with the token it holds, and waits for itself.
SelfJoined == req["reauth"].pc = "joined"

\* Liveness.  Every request ends, unless the re-login waits for itself.
CallsEnd ==
  \A c \in Calls : req[c].pc # "idle" ~> (req[c].pc = "idle" \/ SelfJoined)

\* Liveness.  What the documentation of login() says: what cannot be
\* recovered reaches the caller.
RejectionReachesCaller ==
  \A c \in Calls : req[c].pc # "idle" ~> req[c].pc = "idle"
=============================================================================
