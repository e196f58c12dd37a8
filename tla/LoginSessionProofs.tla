------------------------- MODULE LoginSessionProofs -------------------------
(***************************************************************************)
(* Proofs about LoginSession, for any requests, any number of tokens, with *)
(* or without credentials and a shared store.                              *)
(***************************************************************************)
EXTENDS LoginSession, TLAPS

\* Sessions and requests over the first n tokens.
SessionTo(n) == [auth : 0 .. n, key : BOOLEAN, captcha : BOOLEAN,
                 pending2fa : BOOLEAN, store : 0 .. n]
RequestTo(n) == [pc : {"idle", "exchange", "sent", "reexchange", "joined"},
                 sent : 0 .. n, authed : BOOLEAN,
                 identity : BOOLEAN, reauth : BOOLEAN]

\* Only tokens the cloud issued are held, stored or sent.
IssuedOK ==
  /\ issued \in 0 .. MaxTokens
  /\ alive \subseteq 1 .. issued /\ limited \subseteq 1 .. issued
  /\ held \in SessionTo(issued)
  /\ req \in [Procs -> RequestTo(issued)]

FlowOK ==
  /\ loggingIn \in BOOLEAN /\ reauth \in BOOLEAN /\ contended \in BOOLEAN
  /\ stage \in [Logins -> Stages]
  /\ \A p \in Logins :
       req[p].pc # "idle" => stage[p] \in Posting \cup {"code"}
  /\ reauth <=> stage["reauth"] # "idle"

\* Whoever waits for the re-login was rejected with a token that does not serve
\* it and never will again, or under a key it had exchanged again.
JoinersRejected ==
  \A p \in Procs : req[p].pc = "joined" =>
    req[p].sent \notin Honoured(p) \/ req[p].identity

IInv == IssuedOK /\ FlowOK /\ JoinersRejected

-----------------------------------------------------------------------------
\* What the operations on a session return is a session over the same tokens.
LEMMA SessionOps ==
  ASSUME NEW n \in Nat, NEW s \in SessionTo(n), NEW t
  PROVE  /\ ClearSession \in SessionTo(n)
         /\ Hydrated(s) \in SessionTo(n)
         /\ Keyed(s) \in SessionTo(n)
         /\ Persisted(s) \in SessionTo(n)
         /\ Surrendered(s, t) \in SessionTo(n)
<1>1. ClearSession \in SessionTo(n)
  BY DEF SessionTo, ClearSession, NoToken
<1>2. Keyed(s) \in SessionTo(n)
  BY DEF SessionTo, Keyed
<1>3. Hydrated(s) \in SessionTo(n)
  BY DEF SessionTo, Hydrated
<1>4. Persisted(s) \in SessionTo(n)
  BY DEF SessionTo, Persisted
<1>5. Surrendered(s, t) \in SessionTo(n)
  BY <1>1 DEF Surrendered
<1>. QED  BY <1>1, <1>2, <1>3, <1>4, <1>5

\* A request that is posted, begun or tried again is one over the same tokens.
LEMMA RequestOps ==
  ASSUME NEW n \in Nat, NEW s \in SessionTo(n), NEW r \in RequestTo(n),
         NEW a \in BOOLEAN
  PROVE  /\ NoRequest \in RequestTo(n) /\ NoRequest.pc = "idle"
         /\ NewRequest(a) \in RequestTo(n)
         /\ Posted(s, r) \in RequestTo(n) /\ Posted(s, r).pc = "sent"
         /\ Begun(s, r) \in RequestTo(n)
         /\ Begun(s, r).pc \in {"sent", "exchange"}
         /\ Again(s, r) \in RequestTo(n)
         /\ Again(s, r).pc \in {"sent", "exchange"}
<1>1. NoRequest \in RequestTo(n) /\ NoRequest.pc = "idle"
  BY DEF RequestTo, NoRequest, NoToken
<1>a. NewRequest(a) \in RequestTo(n)
  BY <1>1 DEF RequestTo, NewRequest
<1>2. ASSUME NEW x \in RequestTo(n)
      PROVE  /\ Posted(s, x) \in RequestTo(n) /\ Posted(s, x).pc = "sent"
             /\ Begun(s, x) \in RequestTo(n)
             /\ Begun(s, x).pc \in {"sent", "exchange"}
  <2>. DEFINE b == x.authed \/ s.auth # NoToken
  <2>1. b \in BOOLEAN
    OBVIOUS
  <2>2. Posted(s, x) = [x EXCEPT !.pc = "sent", !.authed = b, !.sent = s.auth]
    BY DEF Posted
  <2>. HIDE DEF b
  <2>3. Posted(s, x) \in RequestTo(n) /\ Posted(s, x).pc = "sent"
    BY <2>1, <2>2 DEF RequestTo, SessionTo
  <2>. DEFINE e == [x EXCEPT !.pc = "exchange", !.sent = NoToken]
  <2>4. e \in RequestTo(n) /\ e.pc = "exchange"
    <3>1. NoToken \in 0 .. n
      BY DEF NoToken
    <3>. QED  BY <3>1 DEF RequestTo
  <2>5. Begun(s, x) = IF s.key THEN Posted(s, x) ELSE e
    BY DEF Begun
  <2>. HIDE DEF e
  <2>. QED  BY <2>3, <2>4, <2>5
<1>3. [r EXCEPT !.reauth = TRUE] \in RequestTo(n)
  BY DEF RequestTo
<1>. QED  BY <1>1, <1>a, <1>2, <1>3 DEF Again

\* However a process ends, the invariant survives.
LEMMA EndsOK ==
  ASSUME IInv, NEW p \in Procs, NEW s \in SessionTo(issued),
         NEW ok \in BOOLEAN, Ends(p, s, ok),
         UNCHANGED cloud, contended' \in BOOLEAN
  PROVE  IInv'
<1>. DEFINE joiners == IF p = "reauth" THEN Joiners ELSE {}
            losers  == IF ok THEN {} ELSE joiners
            over    == {p} \cup losers
<1>n. issued \in Nat
  BY DEF IInv, IssuedOK
<1>u. /\ issued' = issued /\ alive' = alive /\ limited' = limited
  BY DEF cloud
<1>1. held' \in SessionTo(issued)
  BY <1>n, SessionOps DEF Ends
<1>2. req' = [q \in Procs |-> IF q \in over THEN NoRequest
                              ELSE IF q \in joiners THEN Again(s, req[q])
                              ELSE req[q]]
  BY DEF Ends
<1>3. ASSUME NEW q \in Procs
      PROVE  /\ req'[q] \in RequestTo(issued)
             /\ req'[q].pc # "idle" => req[q].pc # "idle" /\ q \notin over
             /\ req'[q].pc = "joined" => req'[q] = req[q]
  <2>1. req[q] \in RequestTo(issued)
    BY DEF IInv, IssuedOK
  <2>2. CASE q \in over
    BY <1>2, <1>n, <2>1, <2>2, RequestOps
  <2>3. CASE q \notin over /\ q \in joiners
    <3>1. req'[q] = Again(s, req[q])
      BY <1>2, <2>3
    <3>2. req[q].pc = "joined"
      BY <2>3 DEF Joiners
    <3>. QED  BY <3>1, <3>2, <1>n, <2>1, <2>3, RequestOps
  <2>4. CASE q \notin over /\ q \notin joiners
    BY <1>2, <2>1, <2>4
  <2>. QED  BY <2>2, <2>3, <2>4
<1>4. IssuedOK'
  BY <1>1, <1>2, <1>3, <1>u DEF IInv, IssuedOK
<1>5. stage' = [l \in Logins |-> IF l \in over THEN "idle" ELSE stage[l]]
  BY DEF Ends
<1>6. "reauth" \in over <=> p = "reauth"
  OBVIOUS
<1>7. FlowOK'
  <2>1. loggingIn' \in BOOLEAN /\ reauth' = (reauth /\ p # "reauth")
    BY DEF Ends, Pending
  <2>2. stage' \in [Logins -> Stages]
    BY <1>5 DEF IInv, FlowOK, Stages
  <2>3. \A l \in Logins :
          req'[l].pc # "idle" => stage'[l] \in Posting \cup {"code"}
    BY <1>3, <1>5 DEF IInv, FlowOK, Procs
  <2>4. reauth' <=> stage'["reauth"] # "idle"
    BY <1>5, <1>6, <2>1 DEF IInv, FlowOK, Logins
  <2>5. reauth' \in BOOLEAN
    BY <2>1
  <2>. QED  BY <2>1, <2>2, <2>3, <2>4, <2>5 DEF FlowOK
<1>8. JoinersRejected'
  BY <1>3, <1>u DEF IInv, JoinersRejected, Honoured
<1>. QED  BY <1>4, <1>7, <1>8 DEF IInv

\* A request that goes on keeps the invariant, if it only joins rejected.
LEMMA GoesOnOK ==
  ASSUME IInv, NEW p \in Procs, NEW s \in SessionTo(issued),
         NEW r \in RequestTo(issued), GoesOn(p, s, r),
         p \in Logins => stage[p] \in Posting \cup {"code"},
         r.pc = "joined" => r.sent \notin Honoured(p) \/ r.identity,
         UNCHANGED <<contended, cloud>>
  PROVE  IInv'
<1>u. /\ issued' = issued /\ alive' = alive /\ limited' = limited
      /\ held' = s /\ req' = [req EXCEPT ![p] = r]
      /\ loggingIn' = loggingIn /\ reauth' = reauth /\ stage' = stage
      /\ contended' = contended
  BY DEF cloud, GoesOn
<1>1. IssuedOK'
  BY <1>u DEF IInv, IssuedOK
<1>2. FlowOK'
  BY <1>u DEF IInv, IssuedOK, FlowOK, Procs
<1>3. JoinersRejected'
  BY <1>u DEF IInv, IssuedOK, JoinersRejected, Honoured
<1>. QED  BY <1>1, <1>2, <1>3 DEF IInv

\* The invariant holds of a client that was constructed, restored or not.
LEMMA InitOK == Init => IInv
<1>. SUFFICES ASSUME Init PROVE IInv
  OBVIOUS
<1>. DEFINE stored == [ClearSession EXCEPT !.store = 1]
<1>1. 1 \in Nat /\ issued = 1 /\ MaxTokens \in Nat /\ 1 \in 0 .. MaxTokens
  BY LoginConstants DEF Init
<1>2. ClearSession \in SessionTo(1) /\ stored \in SessionTo(1)
  <2>1. ClearSession \in SessionTo(1)
    BY DEF SessionTo, ClearSession, NoToken
  <2>. QED  BY <2>1 DEF SessionTo
<1>3. Hydrated(stored) \in SessionTo(1)
  BY <1>1, <1>2, SessionOps
<1>4. held \in SessionTo(1)
  BY <1>2, <1>3 DEF Init
<1>5. NoRequest \in RequestTo(1) /\ NoRequest.pc = "idle"
  BY DEF RequestTo, NoRequest, NoToken
<1>6. IssuedOK
  BY <1>1, <1>4, <1>5 DEF Init, IssuedOK
<1>7. FlowOK
  BY <1>5 DEF Init, FlowOK, Stages, Logins, Procs
<1>8. JoinersRejected
  BY <1>5 DEF Init, JoinersRejected
<1>. QED  BY <1>6, <1>7, <1>8 DEF IInv

\* Every step of a request keeps the invariant.
LEMMA RequestStepOK ==
  ASSUME IInv, NEW p \in Procs, RequestStep(p)
  PROVE  IInv'
<1>n. /\ issued \in Nat /\ held \in SessionTo(issued)
      /\ req[p] \in RequestTo(issued) /\ contended \in BOOLEAN
  BY DEF IInv, IssuedOK, FlowOK
<1>b. req[p].pc # "idle"
  BY DEF RequestStep, Exchanged, ExchangeFails, Refused, IdentityError,
         Reexchanged, ReexchangeFails, RejectedTwice, RejectedLate,
         RejectedJoins, Adopts, GivesUp, Reauthenticates, FirstRejected,
         Rejected
<1>f. p \in Logins => stage[p] \in Posting \cup {"code"}
  BY <1>b DEF IInv, FlowOK
<1>1. CASE Exchanged(p)
  BY <1>1, <1>n, <1>f, SessionOps, RequestOps, GoesOnOK DEF Exchanged
<1>2. CASE ExchangeFails(p)
  BY <1>2, <1>n, EndsOK DEF ExchangeFails
<1>3. CASE Refused(p)
  BY <1>3, <1>n, EndsOK DEF Refused
<1>4. CASE IdentityError(p)
  <2>. DEFINE s == [held EXCEPT !.key = FALSE]
              r == [req[p] EXCEPT !.pc = "reexchange", !.sent = NoToken]
  <2>1. s \in SessionTo(issued)
    BY <1>n DEF SessionTo
  <2>2. r \in RequestTo(issued) /\ r.pc # "joined"
    <3>1. NoToken \in 0 .. issued
      BY <1>n DEF NoToken
    <3>. QED  BY <1>n, <3>1 DEF RequestTo
  <2>3. GoesOn(p, s, r) /\ UNCHANGED <<contended, cloud>>
    BY <1>4 DEF IdentityError
  <2>. HIDE DEF s, r
  <2>. QED  BY <2>1, <2>2, <2>3, <1>f, GoesOnOK
<1>5. CASE Reexchanged(p)
  <2>. DEFINE s == Persisted(Keyed(held))
              x == [req[p] EXCEPT !.identity = TRUE]
  <2>1. s \in SessionTo(issued)
    BY <1>n, SessionOps
  <2>2. x \in RequestTo(issued)
    BY <1>n DEF RequestTo
  <2>3. GoesOn(p, s, Posted(s, x)) /\ UNCHANGED <<contended, cloud>>
    BY <1>5 DEF Reexchanged
  <2>. HIDE DEF s, x
  <2>4. Posted(s, x) \in RequestTo(issued) /\ Posted(s, x).pc = "sent"
    BY <2>1, <2>2, <1>n, RequestOps
  <2>. QED  BY <2>1, <2>3, <2>4, <1>f, GoesOnOK
<1>6. CASE ReexchangeFails(p)
  BY <1>6, <1>n, SessionOps, EndsOK DEF ReexchangeFails
<1>7. CASE RejectedTwice(p)
  BY <1>7, <1>n, SessionOps, EndsOK DEF RejectedTwice
<1>8. CASE RejectedLate(p)
  <2>1. Again(held, req[p]) \in RequestTo(issued)
        /\ Again(held, req[p]).pc # "joined"
    BY <1>n, RequestOps
  <2>. QED  BY <1>8, <1>n, <1>f, <2>1, GoesOnOK DEF RejectedLate
<1>9. CASE RejectedJoins(p)
  <2>. DEFINE r == [req[p] EXCEPT !.pc = "joined"]
  <2>1. r \in RequestTo(issued) /\ r.sent = req[p].sent /\ r.identity = req[p].identity
    BY <1>n DEF RequestTo
  <2>2. req[p].sent \notin Honoured(p) \/ req[p].identity
    BY <1>9 DEF RejectedJoins, Rejected
  <2>3. GoesOn(p, held, r) /\ UNCHANGED <<contended, cloud>>
    BY <1>9 DEF RejectedJoins
  <2>. HIDE DEF r
  <2>. QED  BY <2>1, <2>2, <2>3, <1>n, <1>f, GoesOnOK
<1>l. \A h \in Loads : h \in SessionTo(issued)
  BY <1>n, SessionOps DEF Loads
<1>10. CASE Adopts(p)
  <2>1. PICK h \in Loads : /\ GoesOn(p, h, Again(h, req[p]))
                           /\ UNCHANGED <<contended, cloud>>
    BY <1>10 DEF Adopts
  <2>2. Again(h, req[p]) \in RequestTo(issued)
        /\ Again(h, req[p]).pc # "joined"
    BY <1>n, <1>l, RequestOps
  <2>. QED  BY <1>l, <1>f, <2>1, <2>2, GoesOnOK
<1>11. CASE GivesUp(p)
  <2>1. PICK h \in Loads : /\ Ends(p, Surrendered(h, req[p].sent), FALSE)
                           /\ UNCHANGED <<contended, cloud>>
    BY <1>11 DEF GivesUp
  <2>2. Surrendered(h, req[p].sent) \in SessionTo(issued)
    BY <1>n, <1>l, SessionOps
  <2>. QED  BY <1>n, <2>1, <2>2, EndsOK
<1>12. CASE Reauthenticates(p)
  <2>. DEFINE r == Begun(ClearSession, NewRequest(FALSE))
              j == [req[p] EXCEPT !.pc = "joined"]
  <2>u. /\ issued' = issued /\ alive' = alive /\ limited' = limited
        /\ held' = ClearSession /\ contended' = TRUE /\ loggingIn' = TRUE
        /\ reauth' = TRUE /\ stage' = [stage EXCEPT !["reauth"] = "post"]
        /\ ~reauth
    BY <1>12 DEF Reauthenticates, FirstRejected, cloud
  <2>1. r \in RequestTo(issued) /\ r.pc \in {"sent", "exchange"}
    BY <1>n, SessionOps, RequestOps
  <2>2. /\ j \in RequestTo(issued) /\ j.pc = "joined" /\ j.sent = req[p].sent
        /\ j.identity = req[p].identity
    BY <1>n DEF RequestTo
  <2>3. p # "reauth"
    BY <1>b, <2>u, <1>f DEF IInv, FlowOK, Posting, Logins
  <2>4. /\ req' \in [Procs -> RequestTo(issued)]
        /\ req'["reauth"] = r /\ req'[p] = j
        /\ \A q \in Procs \ {p, "reauth"} : req'[q] = req[q]
    <3>1. req' = [req EXCEPT ![p] = j, !["reauth"] = r]
      BY <1>12 DEF Reauthenticates
    <3>. HIDE DEF j, r
    <3>. QED  BY <2>1, <2>2, <2>3, <3>1 DEF IInv, IssuedOK, Procs, Logins
  <2>. HIDE DEF j, r
  <2>5. IssuedOK'
    BY <2>u, <2>4, <1>n, SessionOps DEF IInv, IssuedOK
  <2>6. req[p].sent \notin Honoured(p) \/ req[p].identity
    BY <1>12 DEF Reauthenticates, FirstRejected, Rejected
  <2>7. FlowOK'
    <3>1. \A l \in Logins :
            req'[l].pc # "idle" => stage'[l] \in Posting \cup {"code"}
      BY <2>u, <2>3, <2>4, <1>f DEF IInv, FlowOK, Posting, Procs, Logins
    <3>2. stage' \in [Logins -> Stages] /\ stage'["reauth"] # "idle"
      BY <2>u DEF IInv, FlowOK, Stages, Logins
    <3>. QED  BY <2>u, <3>1, <3>2 DEF FlowOK
  <2>8. JoinersRejected'
    BY <2>u, <2>1, <2>2, <2>4, <2>6 DEF IInv, JoinersRejected, Honoured
  <2>. QED  BY <2>5, <2>7, <2>8 DEF IInv
<1>. QED  BY <1>1, <1>2, <1>3, <1>4, <1>5, <1>6, <1>7, <1>8, <1>9, <1>10,
             <1>11, <1>12 DEF RequestStep

\* A token that is issued honours nobody who was rejected before.
LEMMA IssuesOK ==
  ASSUME IInv, NEW kind, Issues(kind),
         held' \in SessionTo(issued'), req' \in [Procs -> RequestTo(issued')],
         \A q \in Procs : req'[q].pc = "joined" => req'[q] = req[q]
  PROVE  IssuedOK' /\ JoinersRejected'
<1>1. /\ issued \in Nat /\ MaxTokens \in Nat /\ issued' = issued + 1
      /\ issued' \in 0 .. MaxTokens
      /\ alive' = alive \cup {issued'}
      /\ limited' = limited \cup {issued'} \/ limited' = limited
  BY LoginConstants DEF IInv, IssuedOK, Issues
<1>2. IssuedOK'
  <2>1. 1 .. issued \subseteq 1 .. issued' /\ issued' \in 1 .. issued'
    BY <1>1
  <2>2. alive \subseteq 1 .. issued /\ limited \subseteq 1 .. issued
    BY DEF IInv, IssuedOK
  <2>3. alive' \subseteq 1 .. issued' /\ limited' \subseteq 1 .. issued'
    BY <1>1, <2>1, <2>2
  <2>. QED  BY <1>1, <2>3 DEF IssuedOK
<1>3. JoinersRejected'
  <2>. SUFFICES ASSUME NEW q \in Procs, req'[q].pc = "joined"
                PROVE  req'[q].sent \notin Honoured(q)' \/ req'[q].identity
    BY DEF JoinersRejected
  <2>1. req'[q] = req[q] /\ req[q].sent \in 0 .. issued
    BY DEF IInv, IssuedOK, RequestTo
  <2>2. req[q].sent \notin Honoured(q) \/ req[q].identity
    BY <2>1 DEF IInv, JoinersRejected
  <2>. QED  BY <1>1, <2>1, <2>2 DEF Honoured
<1>. QED  BY <1>2, <1>3

\* Sessions and requests over the tokens issued so far stay ones when more
\* are issued.
LEMMA Widen ==
  ASSUME NEW n \in Nat
  PROVE  /\ \A s \in SessionTo(n) : s \in SessionTo(n + 1)
         /\ \A r \in RequestTo(n) : r \in RequestTo(n + 1)
BY DEF SessionTo, RequestTo

\* Every step of a login keeps the invariant.
LEMMA LoginStepOK ==
  ASSUME IInv, NEW p \in Logins, LoginStep(p)
  PROVE  IInv'
<1>n. /\ issued \in Nat /\ held \in SessionTo(issued) /\ p \in Procs
      /\ req[p] \in RequestTo(issued) /\ contended \in BOOLEAN
      /\ req \in [Procs -> RequestTo(issued)]
  BY DEF IInv, IssuedOK, FlowOK, Procs
<1>c. NoteSessionWorking(p) => contended' \in BOOLEAN
  BY <1>n DEF NoteSessionWorking
<1>1. CASE Accepted(p)
  <2>u. /\ Issues("full") /\ contended' \in BOOLEAN
        /\ held' = [held EXCEPT !.auth = issued', !.key = FALSE,
                                !.captcha = FALSE, !.pending2fa = FALSE]
        /\ req' = [req EXCEPT ![p] = NoRequest]
        /\ stage' = [stage EXCEPT ![p] = "bind"]
        /\ loggingIn' = loggingIn /\ reauth' = reauth
    BY <1>1, <1>c DEF Accepted, PostAnswered
  <2>i. issued' = issued + 1
    BY <2>u DEF Issues
  <2>w. held \in SessionTo(issued') /\ issued' \in 0 .. issued'
    BY <1>n, <2>i, Widen
  <2>1. held' \in SessionTo(issued')
    BY <2>u, <2>w DEF SessionTo
  <2>2. NoRequest \in RequestTo(issued') /\ NoRequest.pc = "idle"
    BY <1>n, <2>i DEF RequestTo, NoRequest, NoToken
  <2>3. req' \in [Procs -> RequestTo(issued')]
    BY <1>n, <2>u, <2>i, <2>2, Widen
  <2>4. IssuedOK' /\ JoinersRejected'
    BY <1>n, <2>u, <2>1, <2>2, <2>3, IssuesOK
  <2>5. stage[p] # "idle"
    BY <1>1 DEF Accepted, PostAnswered, Posting
  <2>6. FlowOK'
    BY <1>n, <2>u, <2>2, <2>5 DEF IInv, FlowOK, Stages, Procs, Logins
  <2>. QED  BY <2>4, <2>6 DEF IInv
<1>2. CASE Bound(p)
  <2>. DEFINE s == Persisted(Keyed(held))
  <2>1. s \in SessionTo(issued)
    BY <1>n, SessionOps
  <2>2. Ends(p, s, s.auth # NoToken) /\ UNCHANGED <<contended, cloud>>
    BY <1>2 DEF Bound
  <2>. HIDE DEF s
  <2>3. (s.auth # NoToken) \in BOOLEAN
    OBVIOUS
  <2>. QED  BY <1>n, <2>1, <2>2, <2>3, EndsOK
<1>3. CASE BindFails(p)
  BY <1>3, <1>n, EndsOK DEF BindFails
<1>4. CASE NeedsCode(p)
  <2>. DEFINE s == [held EXCEPT !.auth = issued', !.captcha = FALSE,
                                !.pending2fa = TRUE]
              r == Begun(s, NewRequest(TRUE))
  <2>u. /\ Issues("limited") /\ contended' \in BOOLEAN
        /\ held' = s /\ req' = [req EXCEPT ![p] = r]
        /\ stage' = [stage EXCEPT ![p] = "code"] /\ stage[p] = "post"
        /\ loggingIn' = loggingIn /\ reauth' = reauth
    BY <1>4, <1>c DEF NeedsCode, PostAnswered
  <2>i. issued' = issued + 1
    BY <2>u DEF Issues
  <2>w. /\ held \in SessionTo(issued') /\ issued' \in Nat
        /\ issued' \in 0 .. issued'
    BY <1>n, <2>i, Widen
  <2>1. s \in SessionTo(issued')
    BY <2>w DEF SessionTo
  <2>. HIDE DEF s
  <2>2. NewRequest(TRUE) \in RequestTo(issued')
    <3>1. NoRequest \in RequestTo(issued')
      BY <2>w DEF RequestTo, NoRequest, NoToken
    <3>. QED  BY <2>w, <2>1, <3>1, RequestOps
  <2>3. r \in RequestTo(issued') /\ r.pc # "joined"
    <3>. DEFINE n == issued'
    <3>1. /\ n \in Nat /\ s \in SessionTo(n)
          /\ NewRequest(TRUE) \in RequestTo(n)
      BY <2>w, <2>1, <2>2
    <3>. HIDE DEF n
    <3>2. /\ Begun(s, NewRequest(TRUE)) \in RequestTo(n)
          /\ Begun(s, NewRequest(TRUE)).pc \in {"sent", "exchange"}
      BY <3>1, RequestOps
    <3>. QED  BY <3>2 DEF n
  <2>. HIDE DEF r
  <2>4. req' \in [Procs -> RequestTo(issued')]
    BY <1>n, <2>u, <2>i, <2>3, Widen
  <2>5. IssuedOK' /\ JoinersRejected'
    BY <1>n, <2>u, <2>1, <2>3, <2>4, IssuesOK
  <2>6. FlowOK'
    BY <1>n, <2>u DEF IInv, FlowOK, Stages, Posting, Procs, Logins
  <2>. QED  BY <2>5, <2>6 DEF IInv
<1>5. CASE CodeSent(p)
  BY <1>5, <1>n, <1>c, EndsOK DEF CodeSent
<1>6. CASE NeedsCaptcha(p)
  <2>1. NoRequest \in RequestTo(issued) /\ NoRequest.pc = "idle"
    BY <1>n, SessionOps, RequestOps
  <2>u. /\ req' = [req EXCEPT ![p] = NoRequest] /\ held' = held
        /\ stage' = [stage EXCEPT ![p] = "captcha"] /\ stage[p] # "idle"
        /\ loggingIn' = loggingIn /\ reauth' = reauth /\ contended' = contended
        /\ issued' = issued /\ alive' = alive /\ limited' = limited
    BY <1>6 DEF NeedsCaptcha, Posting, cloud
  <2>2. IssuedOK' /\ JoinersRejected'
    BY <1>n, <2>1, <2>u DEF IInv, IssuedOK, JoinersRejected, Honoured
  <2>3. FlowOK'
    BY <1>n, <2>1, <2>u DEF IInv, FlowOK, Stages, Procs, Logins
  <2>. QED  BY <2>2, <2>3 DEF IInv
<1>7. CASE CaptchaShown(p)
  <2>. DEFINE s == [held EXCEPT !.captcha = TRUE]
  <2>1. s \in SessionTo(issued)
    BY <1>n DEF SessionTo
  <2>2. Ends(p, s, FALSE) /\ UNCHANGED <<contended, cloud>>
    BY <1>7 DEF CaptchaShown
  <2>. HIDE DEF s
  <2>. QED  BY <1>n, <2>1, <2>2, EndsOK
<1>8. CASE CaptchaFails(p)
  BY <1>8, <1>n, EndsOK DEF CaptchaFails
<1>. QED  BY <1>1, <1>2, <1>3, <1>4, <1>5, <1>6, <1>7, <1>8 DEF LoginStep

\* Every step keeps the invariant.
LEMMA NextOK == IInv /\ [Next]_vars => IInv'
<1>. SUFFICES ASSUME IInv, [Next]_vars PROVE IInv'
  OBVIOUS
<1>n. /\ issued \in Nat /\ held \in SessionTo(issued) /\ contended \in BOOLEAN
      /\ req \in [Procs -> RequestTo(issued)]
  BY DEF IInv, IssuedOK, FlowOK
<1>1. ASSUME NEW c \in Calls, CallStarts(c) PROVE IInv'
  <2>. DEFINE r == Begun(held, NewRequest(TRUE))
  <2>1. r \in RequestTo(issued) /\ r.pc # "joined"
    BY <1>n, RequestOps DEF Procs
  <2>2. GoesOn(c, held, r) /\ UNCHANGED <<contended, cloud>> /\ c \in Procs
    BY <1>1 DEF CallStarts, Procs
  <2>3. c \notin Logins
    BY LoginConstants DEF Logins
  <2>. HIDE DEF r
  <2>. QED  BY <1>n, <2>1, <2>2, <2>3, GoesOnOK
<1>2. ASSUME NEW c \in Calls, Answered(c) PROVE IInv'
  <2>1. contended' \in BOOLEAN /\ c \in Procs /\ UNCHANGED cloud
        /\ Ends(c, held, FALSE)
    BY <1>2, <1>n DEF Answered, NoteSessionWorking, Procs
  <2>. QED  BY <1>n, <2>1, EndsOK
<1>3. ASSUME NEW code \in BOOLEAN, HostLogsIn(code) PROVE IInv'
  <2>. DEFINE r == Begun(held, NewRequest(FALSE))
              g == IF code THEN "verify" ELSE "post"
  <2>1. r \in RequestTo(issued) /\ r.pc # "joined"
    BY <1>n, RequestOps DEF Procs, Logins
  <2>2. g \in Posting /\ g \in Stages
    BY DEF Posting, Stages
  <2>3. /\ stage' = [stage EXCEPT !["host"] = g] /\ loggingIn' = TRUE
        /\ req' = [req EXCEPT !["host"] = r] /\ held' = held
        /\ reauth' = reauth /\ contended' = contended
        /\ issued' = issued /\ alive' = alive /\ limited' = limited
    BY <1>3 DEF HostLogsIn, cloud
  <2>. HIDE DEF r, g
  <2>4. IssuedOK' /\ JoinersRejected'
    BY <2>1, <2>3 DEF IInv, IssuedOK, JoinersRejected, Honoured
  <2>5. FlowOK'
    BY <1>n, <2>2, <2>3 DEF IInv, FlowOK, Logins, Procs
  <2>. QED  BY <2>4, <2>5 DEF IInv
<1>4. CASE HostClears
  <2>1. ClearSession \in SessionTo(issued)
    BY <1>n, SessionOps
  <2>. QED  BY <1>4, <2>1 DEF HostClears, cloud, IInv, IssuedOK, FlowOK,
                            JoinersRejected, Honoured
<1>5. CASE RivalLogsIn
  <2>u. /\ Issues("full") /\ held' = [held EXCEPT !.store = issued']
        /\ UNCHANGED <<loggingIn, reauth, contended, req, stage>>
    BY <1>5 DEF RivalLogsIn
  <2>i. issued' = issued + 1
    BY <2>u DEF Issues
  <2>w. held \in SessionTo(issued') /\ issued' \in 0 .. issued'
    BY <1>n, <2>i, Widen
  <2>1. held' \in SessionTo(issued')
    BY <2>u, <2>w DEF SessionTo
  <2>2. req' \in [Procs -> RequestTo(issued')]
    BY <1>n, <2>u, <2>i, Widen
  <2>3. IssuedOK' /\ JoinersRejected'
    BY <2>u, <2>1, <2>2, IssuesOK
  <2>. QED  BY <2>u, <2>3 DEF IInv, FlowOK
<1>6. ASSUME NEW t \in Tokens, Expires(t) PROVE IInv'
  BY <1>6 DEF Expires, IInv, IssuedOK, FlowOK, JoinersRejected, Honoured
<1>7. CASE UNCHANGED vars
  BY <1>7 DEF vars, cloud, IInv, IssuedOK, FlowOK, JoinersRejected, Honoured
<1>. QED  BY <1>1, <1>2, <1>3, <1>4, <1>5, <1>6, <1>7, RequestStepOK,
             LoginStepOK DEF Next

\* The invariant describes every reachable state.
THEOREM Invariance == Spec => []IInv
BY InitOK, NextOK, PTL DEF Spec

\* Theorem.  The client, its requests and its logins keep their shape, for
\* any requests and tokens; the re-login is pending exactly while its round
\* trip is under way.
THEOREM TypeCorrect == Spec => []TypeOK
<1>1. IInv => TypeOK
  <2>. SUFFICES ASSUME IInv PROVE TypeOK
    OBVIOUS
  <2>1. issued \in Nat /\ MaxTokens \in Nat /\ issued <= MaxTokens
    BY LoginConstants DEF IInv, IssuedOK
  <2>2. held \in Session
    BY <2>1 DEF IInv, IssuedOK, SessionTo, Session
  <2>3. \A r \in RequestTo(issued) : r \in Request
    BY <2>1 DEF RequestTo, Request
  <2>4. req \in [Procs -> Request]
    BY <2>3 DEF IInv, IssuedOK
  <2>. QED  BY <2>2, <2>4 DEF IInv, IssuedOK, FlowOK, TypeOK
<1>. QED  BY <1>1, Invariance, PTL

-----------------------------------------------------------------------------
\* Somebody was refused with the token the client holds, for want of a session
\* or of a key.
HeldRefused ==
  \E p \in Procs : /\ req[p].sent = held.auth /\ req'[p] # req[p]
                   /\ held.auth \notin Honoured(p) \/ req[p].identity

\* The end of a process that keeps the session only loses it to joiners that
\* were refused so.
LEMMA EndsKeeps ==
  ASSUME IInv, NEW p \in Procs, NEW s \in SessionTo(issued),
         NEW ok \in BOOLEAN, Ends(p, s, ok), s.auth = held.auth,
         held.auth \in alive, held'.auth = NoToken
  PROVE  HeldRefused
<1>. DEFINE joiners == IF p = "reauth" THEN Joiners ELSE {}
            losers  == IF ok THEN {} ELSE joiners
<1>1. held.auth # NoToken
  BY DEF IInv, IssuedOK, NoToken
<1>2. PICK q \in losers : ~Replaced(s, req[q].sent)
  BY <1>1 DEF Ends
<1>3. q \in Procs /\ req[q].pc = "joined" /\ req[q].sent = held.auth
  BY <1>1, <1>2 DEF Joiners, Replaced
<1>4. held.auth \notin Honoured(q) \/ req[q].identity
  BY <1>3 DEF IInv, JoinersRejected
<1>5. req'[q] = NoRequest
  BY <1>2, <1>3 DEF Ends
<1>6. NoRequest.pc # "joined"
  BY DEF NoRequest
<1>. QED  BY <1>3, <1>4, <1>5, <1>6 DEF HeldRefused

\* So was a request that was rejected with the token the client holds, and goes
\* on or ends.
LEMMA RejectedKeeps ==
  ASSUME IInv, NEW p \in Procs, Rejected(p), ~Replaced(held, req[p].sent),
         held.auth \in alive, req'[p].pc # "sent"
  PROVE  HeldRefused
<1>1. held.auth # NoToken
  BY DEF IInv, IssuedOK, NoToken
<1>2. req[p].sent = held.auth /\ req[p].pc = "sent"
  BY <1>1 DEF Replaced, Rejected
<1>3. held.auth \notin Honoured(p) \/ req[p].identity
  BY <1>2 DEF Rejected
<1>. QED  BY <1>2, <1>3 DEF HeldRefused

\* Theorem.  For any number of requests, logins and tokens, no request drops
\* a token the cloud honours, but where the exchange of a key failed, or the
\* request was refused with this very token: for want of a session, or under a
\* key it had exchanged again (postSigned, recoverRejectedSession).
THEOREM HonouredKept == Spec => HonouredTokenKept
<1>1. ASSUME IInv, Next, held.auth \in alive, held'.auth = NoToken
      PROVE  HostClears \/ (\E p \in Procs : ReexchangeFails(p)) \/ HeldRefused
  <2>n. /\ issued \in Nat /\ held \in SessionTo(issued)
        /\ held.auth # NoToken /\ req \in [Procs -> RequestTo(issued)]
    BY <1>1 DEF IInv, IssuedOK, NoToken
  <2>d. NoRequest.pc = "idle"
    BY DEF NoRequest
  <2>e. \A p \in Procs : \A s, ok : Ends(p, s, ok) => req'[p] = NoRequest
    BY DEF Ends
  <2>k. ASSUME NEW p \in Procs, Ends(p, held, FALSE) PROVE HeldRefused
    BY <1>1, <2>n, <2>k, EndsKeeps
  <2>1. ASSUME NEW c \in Calls, CallStarts(c) \/ Answered(c)
        PROVE  HeldRefused
    BY <1>1, <2>n, <2>1, <2>k DEF CallStarts, Answered, GoesOn, Procs
  <2>2. ASSUME NEW p \in Procs, RequestStep(p), ~ReexchangeFails(p)
        PROVE  HeldRefused
    <3>1. CASE Exchanged(p) \/ IdentityError(p) \/ Reexchanged(p)
      <4>1. Keyed(held) \in SessionTo(issued) /\ Keyed(held).auth = held.auth
        BY <2>n DEF Keyed, SessionTo
      <4>2. Persisted(Keyed(held)).auth = held.auth
        BY <4>1 DEF Persisted, SessionTo
      <4>3. [held EXCEPT !.key = FALSE].auth = held.auth
        BY <2>n DEF SessionTo
      <4>. QED  BY <1>1, <2>n, <3>1, <4>1, <4>2, <4>3
                   DEF Exchanged, IdentityError, Reexchanged, GoesOn
    <3>2. CASE ExchangeFails(p) \/ Refused(p)
      BY <2>k, <3>2 DEF ExchangeFails, Refused
    <3>3. CASE RejectedTwice(p)
      <4>1. CASE Replaced(held, req[p].sent)
        BY <2>k, <3>3, <4>1 DEF RejectedTwice, Surrendered
      <4>2. CASE ~Replaced(held, req[p].sent)
        BY <1>1, <2>d, <2>e, <3>3, <4>2, RejectedKeeps DEF RejectedTwice
      <4>. QED  BY <4>1, <4>2
    <3>4. CASE RejectedLate(p) \/ RejectedJoins(p)
      BY <1>1, <2>n, <3>4 DEF RejectedLate, RejectedJoins, GoesOn
    <3>5. CASE Adopts(p)
      BY <1>1, <3>5 DEF Adopts, GoesOn, Replaced
    <3>6. CASE GivesUp(p)
      BY <1>1, <2>d, <2>e, <3>6, RejectedKeeps DEF GivesUp, FirstRejected
    <3>7. CASE Reauthenticates(p)
      <4>1. Rejected(p) /\ ~Replaced(held, req[p].sent)
        BY <3>7 DEF Reauthenticates, FirstRejected
      <4>2. p # "reauth"
        <5>1. stage["reauth"] = "idle"
          BY <1>1, <3>7 DEF Reauthenticates, FirstRejected, IInv, FlowOK
        <5>. QED  BY <1>1, <4>1, <5>1 DEF Rejected, IInv, FlowOK, Posting, Logins
      <4>3. req'[p] = [req[p] EXCEPT !.pc = "joined"]
        BY <2>n, <3>7, <4>2 DEF Reauthenticates, Procs, Logins
      <4>4. [req[p] EXCEPT !.pc = "joined"].pc = "joined"
        BY <2>n DEF RequestTo
      <4>. QED  BY <1>1, <4>1, <4>3, <4>4, RejectedKeeps
    <3>. QED  BY <2>2, <3>1, <3>2, <3>3, <3>4, <3>5, <3>6, <3>7
                 DEF RequestStep
  <2>3. ASSUME NEW p \in Logins, LoginStep(p)
        PROVE  HeldRefused
    <3>p. p \in Procs
      BY DEF Procs
    <3>1. CASE Accepted(p) \/ NeedsCode(p)
      <4>1. issued' = issued + 1
        BY <3>1 DEF Accepted, NeedsCode, Issues
      <4>2. held'.auth = issued'
        BY <2>n, <3>1 DEF Accepted, NeedsCode, SessionTo
      <4>. QED  BY <1>1, <2>n, <4>1, <4>2 DEF NoToken
    <3>2. CASE Bound(p)
      <4>. DEFINE s == Persisted(Keyed(held))
      <4>1. s \in SessionTo(issued)
        BY <2>n, SessionOps
      <4>2. Keyed(held) \in SessionTo(issued) /\ Keyed(held).auth = held.auth
        BY <2>n DEF Keyed, SessionTo
      <4>3. s.auth = held.auth
        BY <4>2 DEF Persisted, SessionTo
      <4>4. Ends(p, s, s.auth # NoToken) /\ (s.auth # NoToken) \in BOOLEAN
        BY <3>2 DEF Bound
      <4>. HIDE DEF s
      <4>. QED  BY <1>1, <3>p, <4>1, <4>3, <4>4, EndsKeeps
    <3>3. CASE BindFails(p) \/ CodeSent(p) \/ CaptchaFails(p)
      BY <2>k, <3>p, <3>3 DEF BindFails, CodeSent, CaptchaFails
    <3>4. CASE NeedsCaptcha(p)
      BY <1>1, <2>n, <3>4 DEF NeedsCaptcha
    <3>5. CASE CaptchaShown(p)
      <4>. DEFINE s == [held EXCEPT !.captcha = TRUE]
      <4>1. s \in SessionTo(issued) /\ s.auth = held.auth
        BY <2>n DEF SessionTo
      <4>2. Ends(p, s, FALSE)
        BY <3>5 DEF CaptchaShown
      <4>. HIDE DEF s
      <4>. QED  BY <1>1, <3>p, <4>1, <4>2, EndsKeeps
    <3>. QED  BY <2>3, <3>1, <3>2, <3>3, <3>4, <3>5 DEF LoginStep
  <2>4. ASSUME RivalLogsIn PROVE HeldRefused
    BY <1>1, <2>n, <2>4 DEF RivalLogsIn, SessionTo
  <2>5. ASSUME \/ \E code \in BOOLEAN : HostLogsIn(code)
               \/ \E t \in Tokens : Expires(t)
        PROVE  HeldRefused
    BY <1>1, <2>n, <2>5 DEF HostLogsIn, Expires
  <2>. QED  BY <1>1, <2>1, <2>2, <2>3, <2>4, <2>5 DEF Next
<1>2. IInv /\ [Next]_vars =>
        [(held.auth \in alive /\ held'.auth = NoToken) =>
           \/ HostClears
           \/ \E p \in Procs : ReexchangeFails(p)
           \/ \E p \in Procs :
                /\ req[p].sent = held.auth /\ req'[p] # req[p]
                /\ held.auth \notin Honoured(p) \/ req[p].identity]_vars
  BY <1>1 DEF HeldRefused
<1>. QED  BY <1>2, Invariance, PTL DEF Spec, HonouredTokenKept

-----------------------------------------------------------------------------
\* Posting and beginning a request do not mark it as tried again.
LEMMA MarkKept ==
  ASSUME NEW n \in Nat, NEW s \in SessionTo(n), NEW r \in RequestTo(n)
  PROVE  Posted(s, r).reauth = r.reauth /\ Begun(s, r).reauth = r.reauth
<1>1. Posted(s, r).reauth = r.reauth
  <2>. DEFINE b == r.authed \/ s.auth # NoToken
  <2>1. Posted(s, r) = [r EXCEPT !.pc = "sent", !.authed = b, !.sent = s.auth]
    BY DEF Posted
  <2>. HIDE DEF b
  <2>. QED  BY <2>1 DEF RequestTo
<1>2. [r EXCEPT !.pc = "exchange", !.sent = NoToken].reauth = r.reauth
  BY DEF RequestTo
<1>. QED  BY <1>1, <1>2 DEF Begun

\* A request is told to try again, with no token or with the rejected one.
InVain(q) ==
  /\ req'[q].reauth /\ ~req[q].reauth
  /\ held'.auth = NoToken \/ (held'.auth = req[q].sent /\ req[q].pc # "joined")

\* Nobody is by a process that ends.
LEMMA EndsReplaced ==
  ASSUME IInv, NEW p \in Procs, NEW s \in SessionTo(issued),
         NEW ok \in BOOLEAN, Ends(p, s, ok), ok => s.auth # NoToken,
         NEW q \in Procs, InVain(q)
  PROVE  FALSE
<1>1. ~NoRequest.reauth
  BY DEF NoRequest
<1>2. ok /\ q \in Joiners
  BY <1>1 DEF Ends, InVain
<1>3. held' = s
  BY <1>2 DEF Ends
<1>. QED  BY <1>2, <1>3 DEF InVain, Joiners

\* Nor by a request that goes on, if it is not told so or the session replaced
\* the rejected one.
LEMMA GoesOnReplaced ==
  ASSUME IInv, NEW p \in Procs, NEW s, NEW r, GoesOn(p, s, r),
         NEW q \in Procs, InVain(q)
  PROVE  /\ r.reauth /\ ~req[p].reauth
         /\ ~Replaced(s, req[p].sent)
<1>1. held' = s /\ req' = [req EXCEPT ![p] = r]
  BY DEF GoesOn
<1>2. p = q
  BY <1>1 DEF IInv, IssuedOK, InVain
<1>3. req'[p] = r
  BY <1>1 DEF IInv, IssuedOK
<1>. QED  BY <1>1, <1>2, <1>3 DEF InVain, Replaced

\* Theorem.  For any number of requests that join, recover and clear, one is
\* told to try again only while the client holds a token, and with the token it
\* was rejected with only where the re-login it joined had obtained that one
\* (recoverRejectedSession).
THEOREM RetryReplaced == Spec => RetryIsReplaced
<1>1. ASSUME IInv, Next, NEW q \in Procs, InVain(q)
      PROVE  FALSE
  <2>n. /\ issued \in Nat /\ held \in SessionTo(issued)
        /\ req \in [Procs -> RequestTo(issued)]
        /\ \A p \in Procs : req[p] \in RequestTo(issued)
    BY <1>1 DEF IInv, IssuedOK
  <2>e. ASSUME NEW p \in Procs, NEW s \in SessionTo(issued), Ends(p, s, FALSE)
        PROVE  FALSE
    BY <1>1, <2>e, EndsReplaced
  <2>a. ASSUME NEW p \in Procs, NEW s \in SessionTo(issued),
               GoesOn(p, s, Again(s, req[p])), Replaced(s, req[p].sent)
        PROVE  FALSE
    BY <1>1, <2>a, GoesOnReplaced
  <2>u. ASSUME UNCHANGED req PROVE FALSE
    BY <1>1, <2>u DEF InVain
  <2>1. ASSUME NEW c \in Calls, CallStarts(c) PROVE FALSE
    <3>1. c \in Procs
      BY DEF Procs
    <3>2. Begun(held, NewRequest(TRUE)).reauth
      BY <1>1, <2>1, <3>1, GoesOnReplaced DEF CallStarts
    <3>3. NewRequest(TRUE) \in RequestTo(issued) /\ ~NewRequest(TRUE).reauth
      BY <2>n, <3>1, RequestOps DEF NewRequest, NoRequest
    <3>. QED  BY <2>n, <3>2, <3>3, MarkKept
  <2>2. ASSUME NEW c \in Calls, Answered(c) PROVE FALSE
    BY <2>e, <2>n, <2>2 DEF Answered, Procs
  <2>3. ASSUME NEW p \in Procs, RequestStep(p) PROVE FALSE
    <3>1. CASE Exchanged(p)
      <4>1. Posted(held, req[p]).reauth /\ ~req[p].reauth
        BY <1>1, <3>1, GoesOnReplaced DEF Exchanged
      <4>. QED  BY <2>n, <4>1, MarkKept
    <3>2. CASE ExchangeFails(p) \/ Refused(p)
      BY <2>e, <2>n, <3>2 DEF ExchangeFails, Refused
    <3>3. CASE IdentityError(p)
      <4>. DEFINE s == [held EXCEPT !.key = FALSE]
                  r == [req[p] EXCEPT !.pc = "reexchange", !.sent = NoToken]
      <4>1. r.reauth = req[p].reauth
        BY <2>n DEF RequestTo
      <4>2. GoesOn(p, s, r)
        BY <3>3 DEF IdentityError
      <4>. HIDE DEF s, r
      <4>. QED  BY <1>1, <4>1, <4>2, GoesOnReplaced
    <3>4. CASE Reexchanged(p)
      <4>. DEFINE s == Persisted(Keyed(held))
                  x == [req[p] EXCEPT !.identity = TRUE]
      <4>1. s \in SessionTo(issued)
        BY <2>n, SessionOps
      <4>2. x \in RequestTo(issued) /\ x.reauth = req[p].reauth
        BY <2>n DEF RequestTo
      <4>3. GoesOn(p, s, Posted(s, x))
        BY <3>4 DEF Reexchanged
      <4>. HIDE DEF s, x
      <4>4. Posted(s, x).reauth /\ ~req[p].reauth
        BY <1>1, <4>3, GoesOnReplaced
      <4>. QED  BY <2>n, <4>1, <4>2, <4>4, MarkKept
    <3>5. CASE ReexchangeFails(p)
      BY <2>e, <2>n, <3>5, SessionOps DEF ReexchangeFails
    <3>6. CASE RejectedTwice(p)
      BY <2>e, <2>n, <3>6, SessionOps DEF RejectedTwice
    <3>7. CASE RejectedLate(p)
      BY <2>a, <2>n, <3>7 DEF RejectedLate
    <3>8. CASE RejectedJoins(p)
      <4>. DEFINE r == [req[p] EXCEPT !.pc = "joined"]
      <4>1. r.reauth = req[p].reauth
        BY <2>n DEF RequestTo
      <4>2. GoesOn(p, held, r)
        BY <3>8 DEF RejectedJoins
      <4>. HIDE DEF r
      <4>. QED  BY <1>1, <4>1, <4>2, GoesOnReplaced
    <3>l. \A h \in Loads : h \in SessionTo(issued)
      BY <2>n, SessionOps DEF Loads
    <3>9. CASE Adopts(p)
      BY <2>a, <3>l, <3>9 DEF Adopts
    <3>10. CASE GivesUp(p)
      <4>1. PICK h \in Loads : Ends(p, Surrendered(h, req[p].sent), FALSE)
        BY <3>10 DEF GivesUp
      <4>. QED  BY <2>e, <2>n, <3>l, <4>1, SessionOps
    <3>11. CASE Reauthenticates(p)
      <4>. DEFINE r == Begun(ClearSession, NewRequest(FALSE))
                  j == [req[p] EXCEPT !.pc = "joined"]
      <4>1. ~r.reauth
        BY DEF Begun, ClearSession, NewRequest, NoRequest
      <4>2. j.reauth = req[p].reauth
        BY <2>n DEF RequestTo
      <4>3. req' = [req EXCEPT ![p] = j, !["reauth"] = r]
        BY <3>11 DEF Reauthenticates
      <4>. HIDE DEF r, j
      <4>. QED  BY <1>1, <2>n, <4>1, <4>2, <4>3 DEF InVain
    <3>. QED  BY <2>3, <3>1, <3>2, <3>3, <3>4, <3>5, <3>6, <3>7, <3>8, <3>9,
                 <3>10, <3>11 DEF RequestStep
  <2>4. ASSUME NEW p \in Logins, LoginStep(p) PROVE FALSE
    <3>p. p \in Procs
      BY DEF Procs
    <3>0. ~NoRequest.reauth
      BY DEF NoRequest
    <3>1. CASE Accepted(p) \/ NeedsCaptcha(p)
      BY <1>1, <2>n, <3>1, <3>0 DEF Accepted, NeedsCaptcha, InVain
    <3>2. CASE Bound(p)
      <4>. DEFINE s == Persisted(Keyed(held))
      <4>1. s \in SessionTo(issued)
        BY <2>n, SessionOps
      <4>2. Ends(p, s, s.auth # NoToken) /\ (s.auth # NoToken) \in BOOLEAN
        BY <3>2 DEF Bound
      <4>. HIDE DEF s
      <4>. QED  BY <1>1, <3>p, <4>1, <4>2, EndsReplaced
    <3>3. CASE BindFails(p) \/ CodeSent(p) \/ CaptchaFails(p)
      BY <2>e, <2>n, <3>p, <3>3 DEF BindFails, CodeSent, CaptchaFails
    <3>4. CASE NeedsCode(p)
      <4>. DEFINE s == [held EXCEPT !.auth = issued', !.captcha = FALSE,
                                    !.pending2fa = TRUE]
                  n == issued'
      <4>i. issued' = issued + 1
        BY <3>4 DEF NeedsCode, Issues
      <4>w. held \in SessionTo(n) /\ n \in Nat /\ n \in 0 .. n
        BY <2>n, <4>i, Widen
      <4>1. s \in SessionTo(n)
        BY <4>w DEF SessionTo
      <4>2. req' = [req EXCEPT ![p] = Begun(s, NewRequest(TRUE))]
        BY <3>4 DEF NeedsCode
      <4>. HIDE DEF s, n
      <4>3. NoRequest \in RequestTo(n)
        BY <4>w DEF RequestTo, NoRequest, NoToken
      <4>4. NewRequest(TRUE) \in RequestTo(n) /\ ~NewRequest(TRUE).reauth
        BY <4>w, <4>1, <4>3, RequestOps DEF NewRequest, NoRequest
      <4>5. ~Begun(s, NewRequest(TRUE)).reauth
        BY <4>w, <4>1, <4>4, MarkKept
      <4>. QED  BY <1>1, <2>n, <4>2, <4>5 DEF InVain
    <3>5. CASE CaptchaShown(p)
      <4>. DEFINE s == [held EXCEPT !.captcha = TRUE]
      <4>1. s \in SessionTo(issued)
        BY <2>n DEF SessionTo
      <4>2. Ends(p, s, FALSE)
        BY <3>5 DEF CaptchaShown
      <4>. HIDE DEF s
      <4>. QED  BY <2>e, <3>p, <4>1, <4>2
    <3>. QED  BY <2>4, <3>1, <3>2, <3>3, <3>4, <3>5 DEF LoginStep
  <2>5. ASSUME NEW code \in BOOLEAN, HostLogsIn(code) PROVE FALSE
    <3>1. NoRequest \in RequestTo(issued)
      BY <2>n DEF RequestTo, NoRequest, NoToken
    <3>2. NewRequest(FALSE) \in RequestTo(issued) /\ ~NewRequest(FALSE).reauth
      BY <2>n, <3>1, RequestOps DEF NewRequest, NoRequest
    <3>3. ~Begun(held, NewRequest(FALSE)).reauth
      BY <2>n, <3>2, MarkKept
    <3>. QED  BY <1>1, <2>n, <2>5, <3>3 DEF HostLogsIn, InVain
  <2>6. ASSUME HostClears \/ RivalLogsIn \/ \E t \in Tokens : Expires(t)
        PROVE  FALSE
    BY <2>u, <2>6 DEF HostClears, RivalLogsIn, Expires
  <2>. QED  BY <1>1, <2>1, <2>2, <2>3, <2>4, <2>5, <2>6 DEF Next
<1>2. IInv /\ [Next]_vars =>
        [\A p \in Procs : req'[p].reauth /\ ~req[p].reauth =>
           /\ held'.auth # NoToken
           /\ held'.auth = req[p].sent => req[p].pc = "joined"]_vars
  BY <1>1 DEF InVain
<1>. QED  BY <1>2, Invariance, PTL DEF Spec, RetryIsReplaced
=============================================================================
