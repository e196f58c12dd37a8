---------------------------- MODULE SessionEntry ----------------------------
(***************************************************************************)
(* The lifecycle entry the session manager keeps per parent station        *)
(* (src/src/transport/p2p/session-manager.ts, interface SessionEntry), and *)
(* what each manager operation does to ONE entry.  Which entry a serial    *)
(* names is the business of the modules that use this one.                 *)
(*                                                                         *)
(* The P2P session an entry carries is abstracted to its life:             *)
(*   none     the factory has not registered one                           *)
(*   dialing  registered; lookups and hole punching                        *)
(*   up       the handshake is complete                                    *)
(*   closing  close() has run up to the wait for the socket                *)
(*   closed   the socket is gone and "close" has been emitted              *)
(* A hold is an expiring retain; the timers of one entry are               *)
(* interchangeable, so the set holdTimers is its size.                     *)
(***************************************************************************)
EXTENDS Naturals

SessionStates == {"none", "dialing", "up", "closing", "closed"}
OpeningStates == {"none", "building", "binding"}
ResetStates   == {"none", "pending", "settled"}

Entry == [retained : Nat,             \* reasons to stay connected
          holds    : Nat,             \* the subset that expires by itself
          idle     : BOOLEAN,         \* the idle timer is pending
          opening  : OpeningStates,   \* how far the `connecting` factory is
          session  : SessionStates,
          reset    : ResetStates]     \* the deferred resetWhenUnused

NewEntry == [retained |-> 0, holds |-> 0, idle |-> FALSE,
             opening |-> "none", session |-> "none", reset |-> "none"]

----------------------------------------------------------------------------
\* retain(): count the reason, cancel a pending idle close.
Retained(en) == [en EXCEPT !.retained = @ + 1, !.idle = FALSE]

\* hold(): retain, and own a timer that will release it.
Held(en) == [Retained(en) EXCEPT !.holds = @ + 1]

MutHoldFired(en) == en    \* mutant: the fired timer stays in holdTimers

\* The timer leaves holdTimers before the release it stands for.
HoldFired(en) == [en EXCEPT !.holds = @ - 1]

\* The part of release() that stays inside the entry: a release with nothing
\* retained is refused.
Released(en) == IF en.retained = 0 THEN en
                                   ELSE [en EXCEPT !.retained = @ - 1]

\* Mutant: the reset waits for nothing.
MutResetEager(en) == en.reset = "pending"

\* release(), second half: a deferred reset falls due once only expiring
\* holds are left.
ResetDue(en) == en.reset = "pending" /\ en.retained <= en.holds

\* armIdle(): the tier is read now, and a wired station arms nothing.
IdleArmed(en, battery) == [en EXCEPT !.idle = battery]

\* discard(): every timer the entry owns dies with it.
Discarded(en) == [en EXCEPT !.idle = FALSE, !.holds = 0]

\* A session whose close() has not run.
Alive(en) == en.session \in {"dialing", "up"}

\* P2PSession.close() up to the wait for its socket; idempotent.
CloseSession(en) == IF Alive(en) THEN [en EXCEPT !.session = "closing"] ELSE en

MutSettleReset(en) == en    \* mutant: the deferred promise is forgotten

\* closeEntry() awaits session.close(), which returns at once where there is
\* no session or one that is already closing; only then the reset settles.
SettleReset(en) == IF en.reset = "pending" THEN [en EXCEPT !.reset = "settled"]
                                           ELSE en

ClosedEntry(en) ==
  IF Alive(en) THEN CloseSession(Discarded(en)) ELSE SettleReset(Discarded(en))

\* An entry that carries a viewer rather than only expiring holds.
HasViewer(en) == en.retained > en.holds
=============================================================================
