----------------------- MODULE SessionManagerProofs -----------------------
(***************************************************************************)
(* Proofs about the session manager, for any number of stations, callers,  *)
(* viewers and entries.                                                    *)
(*                                                                         *)
(* The invariants the runs check are not inductive: that no session is     *)
(* orphaned rests on how far the factory of an entry is, and all of them   *)
(* rest on a serial naming at most one entry.  IInv adds both: Wiring says *)
(* which entries are named, Sound what holds of one entry given whether it *)
(* is.  An operation changes one entry and whether that one is named, so   *)
(* the proof goes through what each operation does to one entry.           *)
(*                                                                         *)
(* The count needs a further tie, CountInv: a viewer's release names the   *)
(* station, so the proof follows which entry each viewer retained.         *)
(***************************************************************************)
EXTENDS SessionManager, FiniteSetTheorems, TLAPS

Wiring ==
  /\ \A s \in Stations : entries[s] <= issued
  /\ \A s, t \in Stations : entries[s] # NoId /\ entries[s] = entries[t] => s = t
  /\ \A e \in Ids : e > issued => ent[e] = NewEntry

\* Any entry: how far its factory is, and what it carries.
Opening(en) ==
  /\ en.opening = "building" => en.session = "none"
  /\ en.opening = "binding" => en.session # "none"

\* The entry a serial names.
SoundNamed(en) ==
  /\ Opening(en)
  /\ en.idle => en.retained = 0
  /\ en.reset = "pending" => HasViewer(en)

\* An entry no serial names any more, or not yet.
SoundUnnamed(en) ==
  /\ Opening(en)
  /\ en.idle = FALSE
  /\ en.holds = 0
  /\ Alive(en) => en.opening = "binding"

Sound == \A e \in Ids :
  IF Registered(e) THEN SoundNamed(ent[e]) ELSE SoundUnnamed(ent[e])

\* The manager's own state, and that of whoever uses it.
ManagerOK ==
  /\ entries \in [Stations -> Ids \cup {NoId}]
  /\ ent \in [Ids -> Entry]
  /\ issued \in 0 .. MaxEntries
  /\ Wiring
  /\ Sound

UsersOK ==
  /\ at \in [Viewers -> Stations \cup {Nowhere}]
  /\ on \in [Viewers -> Ids \cup {NoId}]
  /\ robbed \subseteq Ids
  /\ caller \in [Callers -> CallerState]

IInv == ManagerOK /\ UsersOK

----------------------------------------------------------------------------
(* What the operations do to one entry.                                    *)

USE DEF SessionStates, OpeningStates, ResetStates

\* A fresh entry is sound, named or not (entry()).
LEMMA NewEntrySound ==
  NewEntry \in Entry /\ SoundNamed(NewEntry) /\ SoundUnnamed(NewEntry)
BY DEF NewEntry, Entry, SoundNamed, SoundUnnamed, Opening, Alive, HasViewer

\* retain() keeps a named entry sound: the idle window it cancels is gone.
LEMMA RetainedSound ==
  ASSUME NEW en \in Entry, SoundNamed(en)
  PROVE  Retained(en) \in Entry /\ SoundNamed(Retained(en))
<1>0. en.retained + 1 \in Nat
  BY DEF Entry
<1>a. [en EXCEPT !.retained = en.retained + 1] \in Entry
  BY <1>0 DEF Entry
<1>1. Retained(en) \in Entry
  BY <1>a DEF Entry, Retained
<1>2. /\ Retained(en).retained = en.retained + 1
      /\ Retained(en).idle = FALSE
      /\ Retained(en).holds = en.holds
      /\ Retained(en).reset = en.reset
      /\ Retained(en).opening = en.opening
      /\ Retained(en).session = en.session
  BY DEF Entry, Retained
<1>3. QED
  BY <1>1, <1>2 DEF Entry, SoundNamed, Opening, HasViewer

\* hold() keeps a named entry sound.
LEMMA HeldSound ==
  ASSUME NEW en \in Entry, SoundNamed(en)
  PROVE  Held(en) \in Entry /\ SoundNamed(Held(en))
<1>1. Held(en) = [Retained(en) EXCEPT !.holds = Retained(en).holds + 1]
  BY DEF Held
<1>2. Retained(en) \in Entry /\ SoundNamed(Retained(en))
  BY RetainedSound
<1>3. /\ Retained(en).retained = en.retained + 1
      /\ Retained(en).holds = en.holds
      /\ Retained(en).reset = en.reset
  BY DEF Entry, Retained
<1>4. Held(en) \in Entry
  BY <1>1, <1>2 DEF Entry
<1>5. QED
  BY <1>1, <1>2, <1>3, <1>4 DEF Entry, SoundNamed, Opening, HasViewer, Retained

\* Whatever entry a close discards, the result is sound unnamed.
LEMMA ClosedSound ==
  ASSUME NEW en \in Entry, Opening(en)
  PROVE  ClosedEntry(en) \in Entry /\ SoundUnnamed(ClosedEntry(en))
BY DEF Entry, SoundUnnamed, Opening, ClosedEntry, CloseSession, SettleReset, Discarded, Alive

\* A release that makes no reset due keeps a named entry sound, whatever the
\* tier it arms the idle window by.
LEMMA ReleasedSound ==
  ASSUME NEW en \in Entry, NEW battery \in BOOLEAN, SoundNamed(en),
         en.retained > 0, ~ResetDue(Released(en)),
         NEW n, n = IF Released(en).retained = 0
                    THEN IdleArmed(Released(en), battery) ELSE Released(en)
  PROVE  n \in Entry /\ SoundNamed(n)
BY DEF Entry, SoundNamed, Opening, Released, IdleArmed, ResetDue, HasViewer

\* release() keeps the type of an entry: it never counts below zero.
LEMMA ReleasedType ==
  ASSUME NEW en \in Entry, Opening(en)
  PROVE  Released(en) \in Entry /\ Opening(Released(en))
BY DEF Entry, Released, Opening

\* A hold that fires leaves its entry sound, for release() to be applied to.
LEMMA HoldFiredSound ==
  ASSUME NEW en \in Entry, SoundNamed(en), en.holds > 0
  PROVE  HoldFired(en) \in Entry /\ SoundNamed(HoldFired(en))
BY DEF Entry, SoundNamed, Opening, HoldFired, HasViewer

----------------------------------------------------------------------------
(* What happens to the map of entries when one of them changes.            *)

\* A serial names at most one entry, and no entry is named by two serials.
LEMMA NamedOnce ==
  ASSUME ManagerOK, NEW s \in Stations, entries[s] # NoId
  PROVE  /\ entries[s] \in Ids /\ Registered(entries[s])
         /\ SoundNamed(ent[entries[s]]) /\ ent[entries[s]] \in Entry
         /\ \A t \in Stations : entries[t] = entries[s] => t = s
BY DEF ManagerOK, Wiring, Sound, Registered

\* entry() answers with a sound entry, new or named.
LEMMA SlotSound ==
  ASSUME ManagerOK, NEW s \in Stations, CanTouch(s)
  PROVE  Slot(s) \in Ids /\ ent[Slot(s)] \in Entry /\ SoundNamed(ent[Slot(s)])
<1>1. CASE entries[s] # NoId
  BY <1>1, NamedOnce DEF Slot
<1>2. CASE entries[s] = NoId
  <2>1. Slot(s) = issued + 1 /\ issued + 1 \in Ids
    BY <1>2, BoundsAssumption DEF Slot, CanTouch, ManagerOK, Ids, NoId
  <2>2. ent[Slot(s)] = NewEntry
    BY <2>1 DEF ManagerOK, Wiring, Ids
  <2>3. QED
    BY <2>1, <2>2, NewEntrySound
<1>3. QED
  BY <1>1, <1>2

\* An operation on the entry of s, created if need be.
LEMMA TouchStep ==
  ASSUME ManagerOK, NEW s \in Stations, CanTouch(s), Touch(s),
         NEW n \in Entry, SoundNamed(n),
         ent' = [ent EXCEPT ![Slot(s)] = n]
  PROVE  ManagerOK'
<1>1. Slot(s) \in Ids
  BY SlotSound
<1>2. entries' \in [Stations -> Ids \cup {NoId}] /\ ent' \in [Ids -> Entry]
  BY <1>1 DEF ManagerOK, Touch
<1>4. issued' \in 0 .. MaxEntries
  BY BoundsAssumption DEF ManagerOK, Touch, CanTouch
<1>5. /\ issued \in Nat /\ issued' >= issued /\ Slot(s) <= issued'
      /\ \A e \in Ids : e > issued' => e # Slot(s)
  BY BoundsAssumption DEF ManagerOK, Touch, CanTouch, Slot, Wiring, Ids
<1>6. \A t \in Stations : t # s /\ entries[t] # NoId => entries[t] # Slot(s)
  BY <1>5 DEF ManagerOK, Wiring, Slot
<1>7. Wiring'
  <2>1. \A t \in Stations : entries'[t] = IF t = s THEN Slot(s) ELSE entries[t]
    BY DEF Touch, ManagerOK
  <2>3. \A t \in Stations : entries'[t] <= issued'
    BY <2>1, <1>1, <1>4, <1>5 DEF ManagerOK, Wiring, Ids, NoId
  <2>4. \A t, u \in Stations : entries'[t] # NoId /\ entries'[t] = entries'[u] => t = u
    BY <2>1, <1>1, <1>6 DEF ManagerOK, Wiring, Ids, NoId
  <2>2. ASSUME NEW e \in Ids, e > issued'
        PROVE  ent'[e] = NewEntry
    <3>1. e # Slot(s) /\ e > issued
      BY <2>2, <1>4, <1>5 DEF Ids
    <3>2. QED
      BY <3>1, <1>1 DEF ManagerOK, Wiring
  <2>5. QED
    BY <2>2, <2>3, <2>4 DEF Wiring
<1>8. ASSUME NEW e \in Ids, e # Slot(s)
      PROVE  Registered(e)' <=> Registered(e)
  BY <1>8 DEF Touch, Registered, ManagerOK, Slot, Ids, NoId
<1>9. PICK x \in Ids : x = Slot(s)
  BY <1>1
<1>10. Sound'
  <2>1. Registered(x)'
    BY <1>9 DEF Touch, Registered, ManagerOK
  <2>2. ent'[x] = n /\ \A e \in Ids : e # x => ent'[e] = ent[e]
    BY <1>9 DEF ManagerOK
  <2>3. QED
    BY <2>1, <2>2, <1>8, <1>9 DEF ManagerOK, Sound
<1>11. QED
  BY <1>2, <1>4, <1>7, <1>10 DEF ManagerOK

\* An operation on a named entry that stays named.
LEMMA KeepStep ==
  ASSUME ManagerOK, NEW x \in Ids, Registered(x),
         NEW n \in Entry, SoundNamed(n),
         ent' = [ent EXCEPT ![x] = n], UNCHANGED <<entries, issued>>
  PROVE  ManagerOK'
<1>1. ent' \in [Ids -> Entry]
  BY DEF ManagerOK
<1>2. \A e \in Ids : Registered(e)' <=> Registered(e)
  BY DEF Registered
<1>3. Wiring'
  <2>1. x <= issued
    BY DEF ManagerOK, Wiring, Registered, Ids, NoId
  <2>2. QED
    BY <2>1 DEF ManagerOK, Wiring, Ids
<1>4. Sound'
  BY <1>2 DEF ManagerOK, Sound
<1>5. QED
  BY <1>1, <1>3, <1>4 DEF ManagerOK

\* An operation on an entry no serial names.
LEMMA UnnamedStep ==
  ASSUME ManagerOK, NEW x \in Ids, ~Registered(x), ent[x] # NewEntry,
         NEW n \in Entry, SoundUnnamed(n),
         ent' = [ent EXCEPT ![x] = n], UNCHANGED <<entries, issued>>
  PROVE  ManagerOK'
<1>1. ent' \in [Ids -> Entry]
  BY DEF ManagerOK
<1>2. \A e \in Ids : Registered(e)' <=> Registered(e)
  BY DEF Registered
<1>3. Wiring'
  BY DEF ManagerOK, Wiring, Ids
<1>4. Sound'
  BY <1>2 DEF ManagerOK, Sound
<1>5. QED
  BY <1>1, <1>3, <1>4 DEF ManagerOK

\* A serial gives its entry up.
LEMMA GiveUpStep ==
  ASSUME ManagerOK, NEW s \in Stations, entries[s] # NoId,
         NEW n \in Entry, SoundUnnamed(n),
         entries' = [entries EXCEPT ![s] = NoId],
         ent' = [ent EXCEPT ![entries[s]] = n], UNCHANGED issued
  PROVE  ManagerOK'
<1>1. /\ entries[s] \in Ids
      /\ \A t \in Stations : entries[t] = entries[s] => t = s
  BY NamedOnce
<1>2. entries' \in [Stations -> Ids \cup {NoId}] /\ ent' \in [Ids -> Entry]
  BY <1>1 DEF ManagerOK
<1>3. PICK x \in Ids : x = entries[s]
  BY <1>1
<1>4. ASSUME NEW e \in Ids, e # entries[s]
      PROVE  Registered(e)' <=> Registered(e)
  BY <1>4 DEF Registered, ManagerOK, Ids, NoId
<1>5. Wiring'
  BY <1>1 DEF ManagerOK, Wiring, Ids, NoId
<1>6. Sound'
  <2>1. ~Registered(x)'
    BY <1>1, <1>3 DEF Registered, ManagerOK, Ids, NoId
  <2>2. ent'[x] = n /\ \A e \in Ids : e # x => ent'[e] = ent[e]
    BY <1>3 DEF ManagerOK
  <2>3. QED
    BY <2>1, <2>2, <1>3, <1>4 DEF ManagerOK, Sound
<1>7. QED
  BY <1>2, <1>5, <1>6 DEF ManagerOK
----------------------------------------------------------------------------
(* The actions.                                                            *)

\* A record whose fields stay in their types and whose opening ends.
LEMMA OpeningEnds ==
  ASSUME NEW en \in Entry, SoundNamed(en)
  PROVE  [en EXCEPT !.opening = "none"] \in Entry
         /\ SoundNamed([en EXCEPT !.opening = "none"])
BY DEF Entry, SoundNamed, Opening, HasViewer

\* Dropping viewers and settling callers keeps their types.
LEMMA DropType ==
  ASSUME UsersOK, NEW V, Drop(V)
  PROVE  /\ at' \in [Viewers -> Stations \cup {Nowhere}]
         /\ on' \in [Viewers -> Ids \cup {NoId}]
BY DEF UsersOK, Drop

\* release() on the entry of a serial, with or without the close it brings.
LEMMA ReleaseStep ==
  ASSUME ManagerOK, UsersOK, NEW s \in Stations, entries[s] # NoId,
         NEW en \in Entry, SoundNamed(en), NEW V, ReleaseOf(s, en, V),
         UNCHANGED issued
  PROVE  /\ ManagerOK'
         /\ at' \in [Viewers -> Stations \cup {Nowhere}]
         /\ on' \in [Viewers -> Ids \cup {NoId}]
<1> DEFINE r == Released(en)
<1>1. entries[s] \in Ids /\ Registered(entries[s])
  BY NamedOnce
<1>2. r \in Entry /\ Opening(r)
  BY ReleasedType DEF SoundNamed
<1>3. CASE en.retained = 0 /\ ent' = [ent EXCEPT ![entries[s]] = r]
           /\ Drop(V) /\ UNCHANGED entries
  <2>1. r = en
    BY <1>3 DEF Released
  <2>2. ManagerOK'
    BY <1>1, <1>3, <2>1, KeepStep
  <2>3. QED
    BY <1>3, <2>2, DropType
<1>4. CASE AutoCloseOf(s, r, V)
  <2>1. ClosedEntry(r) \in Entry /\ SoundUnnamed(ClosedEntry(r))
    BY <1>2, ClosedSound
  <2>2. ManagerOK'
    BY <1>4, <2>1, GiveUpStep DEF AutoCloseOf
  <2>3. QED
    BY <1>4, <2>2, DropType DEF AutoCloseOf
<1>5. CASE /\ en.retained > 0 /\ ~ResetDue(r)
           /\ \E battery \in Tiers(s) :
                ent' = [ent EXCEPT ![entries[s]] =
                          IF r.retained = 0 THEN IdleArmed(r, battery) ELSE r]
           /\ Drop(V) /\ UNCHANGED entries
  <2>1. PICK battery \in BOOLEAN :
          ent' = [ent EXCEPT ![entries[s]] =
                    IF r.retained = 0 THEN IdleArmed(r, battery) ELSE r]
    BY <1>5 DEF Tiers
  <2>2. PICK n : n = IF r.retained = 0 THEN IdleArmed(r, battery) ELSE r
    OBVIOUS
  <2>3. n \in Entry /\ SoundNamed(n)
    BY <1>5, <2>2, ReleasedSound
  <2>4. ManagerOK'
    BY <1>1, <1>5, <2>1, <2>2, <2>3, KeepStep
  <2>5. QED
    BY <1>5, <2>4, DropType
<1>6. QED
  BY <1>3, <1>4, <1>5 DEF ReleaseOf

\* Settling an open keeps the callers well-typed.
LEMMA SettlesType ==
  ASSUME UsersOK, NEW e \in Ids, NEW o \in CallerState, OpenSettles(e, o)
  PROVE  caller' \in [Callers -> CallerState]
BY DEF UsersOK, OpenSettles, NotCalling, CallerState

\* Every operation that names a serial preserves the invariant.
LEMMA StationStepInv ==
  ASSUME IInv, NEW s \in Stations, StationStep(s)
  PROVE  IInv'
<1>0. ManagerOK /\ UsersOK
  BY DEF IInv
<1>1. ASSUME Hold(s) PROVE IInv'
  <2>1. Slot(s) \in Ids /\ ent[Slot(s)] \in Entry /\ SoundNamed(ent[Slot(s)])
    BY <1>0, <1>1, SlotSound DEF Hold
  <2>2. ent' = [ent EXCEPT ![Slot(s)] = Held(ent[Slot(s)])]
    BY <1>1 DEF Hold
  <2>3. ManagerOK'
    BY <1>0, <1>1, <2>1, <2>2, HeldSound, TouchStep DEF Hold
  <2>4. QED
    BY <1>0, <1>1, <2>3 DEF Hold, IInv, UsersOK
<1>2. ASSUME HoldExpires(s) PROVE IInv'
  <2>1. entries[s] \in Ids /\ ent[entries[s]] \in Entry /\ SoundNamed(ent[entries[s]])
    BY <1>0, <1>2, NamedOnce DEF HoldExpires
  <2>2. HoldFired(ent[entries[s]]) \in Entry /\ SoundNamed(HoldFired(ent[entries[s]]))
    BY <1>2, <2>1, HoldFiredSound DEF HoldExpires
  <2>3. ReleaseOf(s, HoldFired(ent[entries[s]]), {}) /\ UNCHANGED issued
        /\ entries[s] # NoId /\ UNCHANGED <<robbed, caller>>
    BY <1>2 DEF HoldExpires
  <2>4. /\ ManagerOK'
        /\ at' \in [Viewers -> Stations \cup {Nowhere}]
        /\ on' \in [Viewers -> Ids \cup {NoId}]
    BY <1>0, <2>2, <2>3, ReleaseStep
  <2>5. QED
    BY <1>0, <2>3, <2>4 DEF IInv, UsersOK
<1>3. ASSUME IdleElapses(s) PROVE IInv'
  <2> DEFINE en == ent[entries[s]]
             fired == [en EXCEPT !.idle = FALSE]
  <2>1. entries[s] \in Ids /\ Registered(entries[s]) /\ en \in Entry /\ SoundNamed(en)
    BY <1>0, <1>3, NamedOnce DEF IdleElapses
  <2>2. fired \in Entry /\ SoundNamed(fired)
    BY <2>1 DEF Entry, SoundNamed, Opening, HasViewer
  <2>3. CASE ent' = [ent EXCEPT ![entries[s]] = fired] /\ UNCHANGED <<entries, at, on>>
    <3>1. ManagerOK'
      BY <1>0, <1>3, <2>1, <2>2, <2>3, KeepStep DEF IdleElapses
    <3>2. QED
      BY <1>0, <1>3, <2>3, <3>1 DEF IdleElapses, IInv, UsersOK
  <2>4. CASE AutoCloseOf(s, fired, {})
    <3>1. ClosedEntry(fired) \in Entry /\ SoundUnnamed(ClosedEntry(fired))
      BY <2>2, ClosedSound DEF SoundNamed
    <3>2. ManagerOK'
      BY <1>0, <1>3, <2>4, <3>1, GiveUpStep DEF AutoCloseOf, IdleElapses
    <3>3. QED
      BY <1>0, <1>3, <2>4, <3>2, DropType DEF AutoCloseOf, IdleElapses, IInv, UsersOK
  <2>5. QED
    BY <1>3, <2>3, <2>4 DEF IdleElapses
<1>4. ASSUME ResetWhenUnused(s) PROVE IInv'
  <2> DEFINE en == ent[entries[s]]
  <2>1. entries[s] \in Ids /\ Registered(entries[s]) /\ en \in Entry /\ SoundNamed(en)
    BY <1>0, <1>4, NamedOnce DEF ResetWhenUnused
  <2>2. CASE AutoCloseOf(s, en, {})
    <3>1. ClosedEntry(en) \in Entry /\ SoundUnnamed(ClosedEntry(en))
      BY <2>1, ClosedSound DEF SoundNamed
    <3>2. ManagerOK'
      BY <1>0, <1>4, <2>2, <3>1, GiveUpStep DEF AutoCloseOf, ResetWhenUnused
    <3>3. QED
      BY <1>0, <1>4, <2>2, <3>2, DropType DEF AutoCloseOf, ResetWhenUnused, IInv, UsersOK
  <2>3. CASE /\ HasViewer(en) /\ UNCHANGED <<entries, at, on>>
             /\ ent' = [ent EXCEPT ![entries[s]].reset = "pending"]
    <3>1. PICK n : n = [en EXCEPT !.reset = "pending"]
      OBVIOUS
    <3>2. n \in Entry /\ SoundNamed(n)
      BY <2>1, <2>3, <3>1 DEF Entry, SoundNamed, Opening, HasViewer
    <3>3. ManagerOK'
      BY <1>0, <1>4, <2>1, <2>3, <3>1, <3>2, KeepStep DEF ResetWhenUnused
    <3>4. QED
      BY <1>0, <1>4, <2>3, <3>3 DEF ResetWhenUnused, IInv, UsersOK
  <2>4. QED
    BY <1>4, <2>2, <2>3 DEF ResetWhenUnused
<1>5. ASSUME Close(s) PROVE IInv'
  <2>1. entries[s] # NoId /\ ent[entries[s]] \in Entry /\ SoundNamed(ent[entries[s]])
    BY <1>0, <1>5, NamedOnce DEF Close
  <2>2. PICK n : n = ClosedEntry(ent[entries[s]])
    OBVIOUS
  <2>3. n \in Entry /\ SoundUnnamed(n)
    BY <2>1, <2>2, ClosedSound DEF SoundNamed
  <2>4. ManagerOK'
    BY <1>0, <1>5, <2>1, <2>2, <2>3, GiveUpStep DEF Close
  <2>5. QED
    BY <1>0, <1>5, <2>4 DEF Close, IInv, UsersOK
<1>6. ASSUME NEW c \in Callers, AcquireCold(c, s) PROVE IInv'
  <2>1. Slot(s) \in Ids /\ ent[Slot(s)] \in Entry /\ SoundNamed(ent[Slot(s)])
    BY <1>0, <1>6, SlotSound DEF AcquireCold
  <2>2. PICK n : n = [ent[Slot(s)] EXCEPT !.opening = "building"]
    OBVIOUS
  <2>3. n \in Entry /\ SoundNamed(n)
    BY <1>6, <2>1, <2>2 DEF AcquireCold, Entry, SoundNamed, Opening, HasViewer
  <2>4. ManagerOK'
    BY <1>0, <1>6, <2>1, <2>2, <2>3, TouchStep DEF AcquireCold
  <2>5. caller' \in [Callers -> CallerState]
    BY <1>0, <1>6, <2>1 DEF AcquireCold, UsersOK, CallerState
  <2>6. QED
    BY <1>0, <1>6, <2>4, <2>5 DEF AcquireCold, IInv, UsersOK
<1>7. ASSUME NEW c \in Callers, AcquireJoin(c, s) PROVE IInv'
  <2>1. ManagerOK'
    <3>1. UNCHANGED <<entries, ent, issued>>
      BY <1>7 DEF AcquireJoin
    <3>2. QED
      BY <1>0, <3>1 DEF ManagerOK, Wiring, Sound, Registered
  <2>2. caller' \in [Callers -> CallerState]
    BY <1>0, <1>7 DEF AcquireJoin, ManagerOK, UsersOK, CallerState
  <2>3. QED
    BY <1>0, <1>7, <2>1, <2>2 DEF AcquireJoin, IInv, UsersOK
<1>8. ASSUME NEW v \in Viewers, ViewerRetains(v, s) PROVE IInv'
  <2>1. Slot(s) \in Ids /\ ent[Slot(s)] \in Entry /\ SoundNamed(ent[Slot(s)])
    BY <1>0, <1>8, SlotSound DEF ViewerRetains
  <2>2. ent' = [ent EXCEPT ![Slot(s)] = Retained(ent[Slot(s)])]
    BY <1>8 DEF ViewerRetains
  <2>3. ManagerOK'
    BY <1>0, <1>8, <2>1, <2>2, RetainedSound, TouchStep DEF ViewerRetains
  <2>4. QED
    BY <1>0, <1>8, <2>1, <2>3 DEF ViewerRetains, IInv, UsersOK
<1>9. QED
  BY <1>1, <1>2, <1>3, <1>4, <1>5, <1>6, <1>7, <1>8 DEF StationStep

\* A step of one entry, whether a serial still names it or not.
LEMMA EntryChange ==
  ASSUME ManagerOK, NEW x \in Ids, ent[x] # NewEntry, NEW n \in Entry,
         Registered(x) => SoundNamed(n), ~Registered(x) => SoundUnnamed(n),
         ent' = [ent EXCEPT ![x] = n], UNCHANGED <<entries, issued>>
  PROVE  ManagerOK'
BY KeepStep, UnnamedStep

\* Every step of a factory or a session preserves it.
LEMMA EntryStepInv ==
  ASSUME IInv, NEW e \in Ids, EntryStep(e)
  PROVE  IInv'
<1> DEFINE en == ent[e]
<1>0. /\ ManagerOK /\ UsersOK /\ en \in Entry
      /\ Registered(e) => SoundNamed(en)
      /\ ~Registered(e) => SoundUnnamed(en)
  BY DEF IInv, ManagerOK, Sound
<1>1. ASSUME FactoryRefuses(e) PROVE IInv'
  <2>1. PICK n : n = [en EXCEPT !.opening = "none"]
    OBVIOUS
  <2>2. en.opening = "building" /\ en # NewEntry
    BY <1>1 DEF FactoryRefuses, NewEntry
  <2>3. n \in Entry /\ (Registered(e) => SoundNamed(n)) /\ (~Registered(e) => SoundUnnamed(n))
    BY <1>0, <2>1, <2>2 DEF Entry, SoundNamed, SoundUnnamed, Opening, HasViewer, Alive
  <2>4. ManagerOK'
    BY <1>0, <1>1, <2>1, <2>2, <2>3, EntryChange DEF FactoryRefuses
  <2>5. NotCalling \in CallerState
    BY DEF NotCalling, CallerState
  <2>6. caller' \in [Callers -> CallerState]
    BY <1>0, <1>1, <2>5, SettlesType DEF FactoryRefuses
  <2>7. QED
    BY <1>0, <1>1, <2>4, <2>6 DEF FactoryRefuses, IInv, UsersOK
<1>2. ASSUME FactoryConnects(e) PROVE IInv'
  <2>1. PICK n : n = [en EXCEPT !.opening = "binding", !.session = "dialing"]
    OBVIOUS
  <2>2. en.opening = "building" /\ en # NewEntry
    BY <1>2 DEF FactoryConnects, NewEntry
  <2>3. n \in Entry /\ (Registered(e) => SoundNamed(n)) /\ (~Registered(e) => SoundUnnamed(n))
    BY <1>0, <2>1, <2>2 DEF Entry, SoundNamed, SoundUnnamed, Opening, HasViewer, Alive
  <2>4. ent' = [ent EXCEPT ![e] = n]
    BY <1>0, <1>2, <2>1 DEF FactoryConnects, ManagerOK, Entry
  <2>5. ManagerOK'
    BY <1>0, <1>2, <2>2, <2>3, <2>4, EntryChange DEF FactoryConnects
  <2>6. QED
    BY <1>0, <1>2, <2>5 DEF FactoryConnects, IInv, UsersOK
<1>3. ASSUME Bound(e) PROVE IInv'
  <2>1. PICK m : m = [en EXCEPT !.opening = "none"]
    OBVIOUS
  <2>2. en.opening = "binding" /\ Alive(en) /\ en # NewEntry
    BY <1>3 DEF Bound, NewEntry
  <2>3. m \in Entry /\ Opening(m) /\ (Registered(e) => SoundNamed(m))
    BY <1>0, <2>1 DEF Entry, SoundNamed, Opening, HasViewer
  <2>4. NotCalling \in CallerState /\ [pc |-> "closing", id |-> e] \in CallerState
    BY DEF NotCalling, CallerState
  <2>5. caller' \in [Callers -> CallerState]
    BY <1>0, <1>3, <2>4, SettlesType DEF Bound
  <2>6. CASE Registered(e)
    <3>1. ManagerOK'
      BY <1>0, <1>3, <2>1, <2>2, <2>3, <2>6, EntryChange DEF Bound
    <3>2. QED
      BY <1>0, <1>3, <2>5, <3>1 DEF Bound, IInv, UsersOK
  <2>7. CASE ~Registered(e)
    <3>1. PICK n : n = CloseSession(m)
      OBVIOUS
    <3>2. n \in Entry /\ SoundUnnamed(n)
      BY <1>0, <2>1, <2>3, <2>7, <3>1 DEF Entry, SoundUnnamed, Opening, CloseSession, Alive
    <3>3. ManagerOK'
      BY <1>0, <1>3, <2>1, <2>2, <2>7, <3>1, <3>2, EntryChange DEF Bound
    <3>4. QED
      BY <1>0, <1>3, <2>5, <3>3 DEF Bound, IInv, UsersOK
  <2>8. QED
    BY <2>6, <2>7
<1>4. ASSUME Connected(e) PROVE IInv'
  <2>1. PICK n : n = [en EXCEPT !.session = "up"]
    OBVIOUS
  <2>2. en.session = "dialing" /\ en.opening = "none" /\ en # NewEntry
    BY <1>4 DEF Connected, NewEntry
  <2>3. n \in Entry /\ (Registered(e) => SoundNamed(n)) /\ (~Registered(e) => SoundUnnamed(n))
    BY <1>0, <2>1, <2>2 DEF Entry, SoundNamed, SoundUnnamed, Opening, HasViewer, Alive
  <2>4. ManagerOK'
    BY <1>0, <1>4, <2>1, <2>2, <2>3, EntryChange DEF Connected
  <2>5. QED
    BY <1>0, <1>4, <2>4 DEF Connected, IInv, UsersOK
<1>5. ASSUME ConnectTimesOut(e) PROVE IInv'
  <2>1. PICK n : n = CloseSession(en)
    OBVIOUS
  <2>2. en.session = "dialing" /\ en.opening = "none" /\ en # NewEntry
    BY <1>5 DEF ConnectTimesOut, NewEntry
  <2>3. n \in Entry /\ (Registered(e) => SoundNamed(n)) /\ (~Registered(e) => SoundUnnamed(n))
    BY <1>0, <2>1, <2>2 DEF Entry, SoundNamed, SoundUnnamed, Opening, HasViewer, Alive, CloseSession
  <2>4. ManagerOK'
    BY <1>0, <1>5, <2>1, <2>2, <2>3, EntryChange DEF ConnectTimesOut
  <2>5. QED
    BY <1>0, <1>5, <2>4 DEF ConnectTimesOut, IInv, UsersOK
<1>6. ASSUME SocketClosed(e) PROVE IInv'
  <2> DEFINE gone == [en EXCEPT !.session = "closed"]
  <2>1. en.session = "closing" /\ en # NewEntry
    BY <1>6 DEF SocketClosed, NewEntry
  <2>2. caller' \in [Callers -> CallerState]
    BY <1>0, <1>6 DEF SocketClosed, UsersOK, NotCalling, CallerState
  <2>3. gone \in Entry /\ (~Registered(e) => SoundUnnamed(gone)) /\ Opening(gone)
    BY <1>0, <2>1 DEF Entry, SoundNamed, SoundUnnamed, Opening, Alive
  <2>4. ASSUME NEW s \in Stations, entries[s] = e,
               entries' = [entries EXCEPT ![s] = NoId],
               ent' = [ent EXCEPT ![e] = SettleReset(Discarded(gone))],
               Drop(AtStation(s))
        PROVE  IInv'
    <3>1. PICK n : n = SettleReset(Discarded(gone))
      OBVIOUS
    <3>2. n \in Entry /\ SoundUnnamed(n)
      BY <2>3, <3>1 DEF Entry, SoundUnnamed, Opening, Alive, SettleReset, Discarded
    <3>3. entries[s] # NoId /\ UNCHANGED issued
      BY <1>6, <2>4 DEF SocketClosed, Ids, NoId
    <3>4. ManagerOK'
      BY <1>0, <2>4, <3>1, <3>2, <3>3, GiveUpStep
    <3>5. QED
      BY <1>0, <1>6, <2>2, <2>4, <3>4, DropType DEF SocketClosed, IInv, UsersOK
  <2>5. CASE /\ ~Registered(e) /\ ent' = [ent EXCEPT ![e] = SettleReset(gone)]
             /\ UNCHANGED <<entries, at, on>>
    <3>1. PICK n : n = SettleReset(gone)
      OBVIOUS
    <3>2. n \in Entry /\ SoundUnnamed(n)
      BY <2>3, <2>5, <3>1 DEF Entry, SoundUnnamed, Opening, Alive, SettleReset
    <3>3. ManagerOK'
      BY <1>0, <1>6, <2>1, <2>5, <3>1, <3>2, EntryChange DEF SocketClosed
    <3>4. QED
      BY <1>0, <1>6, <2>2, <2>5, <3>3 DEF SocketClosed, IInv, UsersOK
  <2>6. QED
    BY <1>6, <2>4, <2>5 DEF SocketClosed
<1>7. QED
  BY <1>1, <1>2, <1>3, <1>4, <1>5, <1>6 DEF EntryStep

\* A viewer that leaves, on whatever entry the serial names by then.
LEMMA ViewerLeavesInv ==
  ASSUME IInv, NEW v \in Viewers, ViewerLeaves(v)
  PROVE  IInv'
<1>0. ManagerOK /\ UsersOK /\ UNCHANGED <<issued, caller>>
  BY DEF IInv, ViewerLeaves
<1>1. PICK s \in Stations : s = at[v]
  BY DEF IInv, UsersOK, ViewerLeaves
<1>2. CASE entries[s] = NoId /\ Drop({v}) /\ UNCHANGED <<entries, ent, robbed>>
  <2>1. ManagerOK'
    BY <1>0, <1>2 DEF ManagerOK, Wiring, Sound, Registered
  <2>2. QED
    BY <1>0, <1>2, <2>1, DropType DEF IInv, UsersOK
<1>3. CASE entries[s] # NoId /\ ReleaseOf(s, ent[entries[s]], {v})
           /\ robbed' \in {robbed, robbed \cup {entries[s]}}
  <2>1. entries[s] \in Ids /\ ent[entries[s]] \in Entry /\ SoundNamed(ent[entries[s]])
    BY <1>0, <1>3, NamedOnce
  <2>2. /\ ManagerOK'
        /\ at' \in [Viewers -> Stations \cup {Nowhere}]
        /\ on' \in [Viewers -> Ids \cup {NoId}]
    BY <1>0, <1>3, <2>1, ReleaseStep
  <2>3. QED
    BY <1>0, <1>3, <2>1, <2>2 DEF IInv, UsersOK
<1>4. QED
  BY <1>1, <1>2, <1>3 DEF ViewerLeaves

\* closeAll() discards every named entry at once.
LEMMA CloseAllInv == ASSUME IInv, CloseAll PROVE IInv'
<1>0. ManagerOK /\ UsersOK /\ UNCHANGED <<issued, robbed, caller>> /\ Drop(Viewers)
  BY DEF IInv, CloseAll
<1>1. /\ entries' = [s \in Stations |-> NoId]
      /\ ent' = [e \in Ids |-> IF Registered(e) THEN ClosedEntry(ent[e]) ELSE ent[e]]
  BY DEF CloseAll
<1>2. \A e \in Ids : ent'[e] \in Entry /\ SoundUnnamed(ent'[e])
  <2>1. ASSUME NEW e \in Ids
        PROVE  ent'[e] \in Entry /\ SoundUnnamed(ent'[e])
    <3>1. CASE Registered(e)
      BY <1>0, <1>1, <3>1, ClosedSound DEF ManagerOK, Sound, SoundNamed
    <3>2. CASE ~Registered(e)
      BY <1>0, <1>1, <3>2 DEF ManagerOK, Sound
    <3>3. QED
      BY <3>1, <3>2
  <2>2. QED
    BY <2>1
<1>3. \A e \in Ids : ~Registered(e)'
  BY <1>1 DEF Registered, Ids, NoId
<1>4. Sound'
  BY <1>2, <1>3 DEF Sound
<1>5. Wiring'
  <2>1. ASSUME NEW e \in Ids, e > issued' PROVE ent'[e] = NewEntry
    <3>1. ~Registered(e)
      BY <1>0, <2>1 DEF ManagerOK, Wiring, Registered, Ids
    <3>2. QED
      BY <1>0, <1>1, <2>1, <3>1 DEF ManagerOK, Wiring
  <2>2. QED
    BY <1>0, <1>1, <2>1 DEF Wiring, ManagerOK, NoId
<1>6. ManagerOK'
  <2>1. ent' \in [Ids -> Entry]
    BY <1>1, <1>2
  <2>2. entries' \in [Stations -> Ids \cup {NoId}]
    BY <1>1
  <2>3. QED
    BY <1>0, <1>4, <1>5, <2>1, <2>2 DEF ManagerOK
<1>7. QED
  BY <1>0, <1>6, DropType DEF IInv, UsersOK

----------------------------------------------------------------------------
(* The theorems.                                                           *)

\* The manager starts with no entry.
LEMMA InitInv == Init => IInv
<1> SUFFICES ASSUME Init PROVE IInv
  OBVIOUS
<1>1. \A e \in Ids : ~Registered(e)
  BY DEF Init, Registered, Ids, NoId
<1>2. Sound
  BY <1>1, NewEntrySound DEF Init, Sound
<1>3. Wiring
  BY BoundsAssumption DEF Init, Wiring, NoId
<1>4. ManagerOK
  BY <1>2, <1>3, NewEntrySound, BoundsAssumption DEF Init, ManagerOK
<1>5. UsersOK
  BY DEF Init, UsersOK, NotCalling, CallerState
<1>6. QED
  BY <1>4, <1>5 DEF IInv

\* Every step, one lemma per group of actions.
LEMMA StepInv == IInv /\ [Next]_vars => IInv'
<1> SUFFICES ASSUME IInv, [Next]_vars PROVE IInv'
  OBVIOUS
<1>1. CASE UNCHANGED vars
  BY <1>1 DEF vars, IInv, ManagerOK, UsersOK, Wiring, Sound, Registered
<1>2. CASE Next
  BY <1>2, StationStepInv, EntryStepInv, ViewerLeavesInv, CloseAllInv DEF Next
<1>3. QED
  BY <1>1, <1>2

\* The inductive invariant implies what the runs check.
LEMMA InvImplies ==
  IInv => TypeOK /\ TimersAreOwned /\ DeferredResetHasViewer /\ NoOrphanSession
<1> SUFFICES ASSUME IInv
             PROVE  TypeOK /\ TimersAreOwned /\ DeferredResetHasViewer /\ NoOrphanSession
  OBVIOUS
<1>1. TypeOK
  BY DEF IInv, ManagerOK, UsersOK, TypeOK
<1>2. TimersAreOwned
  BY DEF IInv, ManagerOK, Sound, SoundNamed, SoundUnnamed, TimersAreOwned, Entry
<1>3. DeferredResetHasViewer
  BY DEF IInv, ManagerOK, Sound, SoundNamed, DeferredResetHasViewer
<1>4. NoOrphanSession
  BY DEF IInv, ManagerOK, Sound, SoundUnnamed, NoOrphanSession
<1>5. QED
  BY <1>1, <1>2, <1>3, <1>4

\* The inductive invariant holds in every reachable state.
LEMMA Invariance == Spec => []IInv
BY InitInv, StepInv, PTL DEF Spec

\* Every state of the manager has its type: in particular no release drives a
\* count below zero (release() refuses one with nothing retained).
THEOREM TypeCorrect == Spec => []TypeOK
BY Invariance, InvImplies, PTL

\* The idle window and the holds run only on the entry a serial names, and the
\* idle window only at a count of zero, whatever the order of retains,
\* releases, closes and expiries (armIdle, retain, discard).
THEOREM TimersCorrect == Spec => []TimersAreOwned
BY Invariance, InvImplies, PTL

\* A deferred reset always waits on a viewer that can make it due
\* (resetWhenUnused, release).
THEOREM DeferredResetCorrect == Spec => []DeferredResetHasViewer
BY Invariance, InvImplies, PTL

\* No connected session escapes the manager, even one opened by a factory that
\* finishes after its entry was discarded (acquire).
THEOREM NoLeak == Spec => []NoOrphanSession
BY Invariance, InvImplies, PTL

----------------------------------------------------------------------------
(* The one counter behind every timer: release() names a serial, not a      *)
(* reason, so the count is tied to the viewers through the entry each one   *)
(* retained.                                                                *)

\* The viewers that retained the entry e and have not left.
OnEntry(e) == {v \in Viewers : on[v] = e}

\* A viewer retains an entry exactly while it is at a station, and the entry,
\* as long as a serial names it, is that station's.
Tied ==
  /\ \A v \in Viewers : on[v] <= issued
  /\ \A v \in Viewers : at[v] = Nowhere => on[v] = NoId
  /\ \A v \in Viewers, s \in Stations : entries[s] # NoId /\ on[v] = entries[s] => at[v] = s

Counted(s) ==
  entries[s] # NoId /\ entries[s] \notin robbed =>
    ent[entries[s]].retained = ent[entries[s]].holds + Cardinality(OnEntry(entries[s]))

CountInv == IInv /\ Tied /\ \A s \in Stations : Counted(s)

\* The viewers of one entry are finitely many.
LEMMA OnEntryFinite ==
  ASSUME NEW e
  PROVE  IsFiniteSet(OnEntry(e)) /\ Cardinality(OnEntry(e)) \in Nat
<1>1. OnEntry(e) \in SUBSET Viewers
  BY DEF OnEntry
<1>2. QED
  BY <1>1, FS_Subset, FS_CardinalityType, ViewersAssumption

\* A station whose entry, count and viewers a step leaves alone stays counted.
LEMMA CountKept ==
  ASSUME CountInv, NEW t \in Stations,
         entries'[t] = entries[t],
         entries[t] # NoId =>
           /\ ent'[entries[t]].retained = ent[entries[t]].retained
           /\ ent'[entries[t]].holds = ent[entries[t]].holds
           /\ \A v \in Viewers : on'[v] = entries[t] <=> on[v] = entries[t],
         robbed \subseteq robbed'
  PROVE  Counted(t)'
<1>1. entries[t] # NoId => OnEntry(entries[t])' = OnEntry(entries[t])
  BY DEF OnEntry
<1>2. QED
  BY <1>1 DEF CountInv, Counted

\* Viewers that leave keep the rest tied.
LEMMA TiedDrop ==
  ASSUME CountInv, NEW V, Drop(V), issued' = issued,
         \A t \in Stations : entries'[t] \in {entries[t], NoId}
  PROVE  Tied'
<1>1. \A v \in Viewers : on'[v] = (IF v \in V THEN NoId ELSE on[v])
                         /\ at'[v] = (IF v \in V THEN Nowhere ELSE at[v])
  BY DEF Drop
<1>2. issued \in Nat /\ NoId = 0
  BY BoundsAssumption DEF CountInv, IInv, ManagerOK, NoId
<1>3. QED
  BY <1>1, <1>2 DEF Tied, CountInv

\* The same where nobody leaves.
LEMMA TiedSame ==
  ASSUME CountInv, UNCHANGED <<at, on>>, issued' = issued,
         \A t \in Stations : entries'[t] \in {entries[t], NoId}
  PROVE  Tied'
BY DEF Tied, CountInv

\* A station that gives up its entry, the viewers V leaving with it: the others
\* stay counted, because whoever is on their entries is not among V.
LEMMA CountGivenUp ==
  ASSUME CountInv, NEW s \in Stations, entries[s] # NoId, NEW n, NEW V,
         entries' = [entries EXCEPT ![s] = NoId],
         ent' = [ent EXCEPT ![entries[s]] = n],
         \/ Drop(V) /\ \A v \in V \cap Viewers : at[v] = s
         \/ UNCHANGED <<at, on>>,
         issued' = issued, robbed \subseteq robbed'
  PROVE  Tied' /\ \A t \in Stations : Counted(t)'
<1>0. ManagerOK /\ UsersOK
  BY DEF CountInv, IInv
<1>1. \A t \in Stations : entries'[t] = IF t = s THEN NoId ELSE entries[t]
  BY <1>0 DEF ManagerOK
<1>2. ASSUME NEW t \in Stations PROVE Counted(t)'
  <2>1. CASE t = s
    BY <1>1, <2>1 DEF Counted
  <2>2. CASE t # s
    <3>1. entries[t] # NoId => entries[t] \in Ids /\ entries[t] # entries[s]
      BY <1>0, <2>2, NamedOnce
    <3>2. entries[t] # NoId => ent'[entries[t]] = ent[entries[t]]
      BY <1>0, <3>1 DEF ManagerOK
    <3>3. ASSUME NEW v \in Viewers, entries[t] # NoId
          PROVE  on'[v] = entries[t] <=> on[v] = entries[t]
      <4>1. on[v] = entries[t] => at[v] = t
        BY <3>3 DEF CountInv, Tied
      <4>2. CASE Drop(V) /\ (\A w \in V \cap Viewers : at[w] = s)
        BY <4>1, <4>2, <2>2, <3>3 DEF Drop
      <4>3. CASE UNCHANGED <<at, on>>
        BY <4>3
      <4>4. QED
        BY <4>2, <4>3
    <3>4. QED
      BY <1>1, <2>2, <3>2, <3>3, CountKept
  <2>3. QED
    BY <2>1, <2>2
<1>3. Tied'
  BY <1>1, TiedDrop, TiedSame
<1>4. QED
  BY <1>2, <1>3


\* The entry that entry() answers with is counted, new or named, and is no
\* other station's.
LEMMA SlotCounted ==
  ASSUME CountInv, NEW s \in Stations, CanTouch(s)
  PROVE  /\ Slot(s) \in Ids /\ ent[Slot(s)] \in Entry
         /\ Slot(s) \notin robbed \/ entries[s] = NoId =>
              ent[Slot(s)].retained = ent[Slot(s)].holds + Cardinality(OnEntry(Slot(s)))
         /\ \A t \in Stations : t # s /\ entries[t] # NoId => entries[t] # Slot(s)
         /\ \A v \in Viewers : on[v] = Slot(s) => at[v] = s
<1>0. ManagerOK /\ UsersOK
  BY DEF CountInv, IInv
<1>1. Slot(s) \in Ids /\ ent[Slot(s)] \in Entry
  BY <1>0, SlotSound
<1>2. CASE entries[s] # NoId
  <2>1. Slot(s) = entries[s]
    BY <1>2 DEF Slot
  <2>2. QED
    BY <1>0, <1>1, <1>2, <2>1, NamedOnce DEF CountInv, Tied, Counted
<1>3. CASE entries[s] = NoId
  <2>1. Slot(s) = issued + 1 /\ issued \in Nat
    BY <1>0, <1>3, BoundsAssumption DEF Slot, ManagerOK
  <2>2. \A v \in Viewers : on[v] # Slot(s)
    BY <2>1, <1>0 DEF CountInv, Tied, UsersOK, Ids, NoId
  <2>3. OnEntry(Slot(s)) = {}
    BY <2>2 DEF OnEntry
  <2>4. ent[Slot(s)] = NewEntry
    BY <1>0, <1>1, <2>1 DEF ManagerOK, Wiring, Ids
  <2>5. \A t \in Stations : entries[t] # NoId => entries[t] # Slot(s)
    BY <2>1, <1>0 DEF ManagerOK, Wiring, Ids, NoId
  <2>6. QED
    BY <1>1, <2>2, <2>3, <2>4, <2>5, FS_EmptySet DEF NewEntry
<1>4. QED
  BY <1>2, <1>3

\* An operation on the entry of s, created if need be, whose count and holds
\* move together: every station stays counted.
LEMMA CountTouched ==
  ASSUME CountInv, NEW s \in Stations, CanTouch(s), Touch(s),
         NEW n \in Entry, ent' = [ent EXCEPT ![Slot(s)] = n],
         n.retained - n.holds = ent[Slot(s)].retained - ent[Slot(s)].holds,
         UNCHANGED <<at, on, robbed>>
  PROVE  Tied' /\ \A t \in Stations : Counted(t)'
<1>0. ManagerOK /\ UsersOK
  BY DEF CountInv, IInv
<1>1. /\ Slot(s) \in Ids /\ ent[Slot(s)] \in Entry
      /\ Slot(s) \notin robbed \/ entries[s] = NoId =>
           ent[Slot(s)].retained = ent[Slot(s)].holds + Cardinality(OnEntry(Slot(s)))
      /\ \A t \in Stations : t # s /\ entries[t] # NoId => entries[t] # Slot(s)
      /\ \A v \in Viewers : on[v] = Slot(s) => at[v] = s
  BY SlotCounted
<1>2. /\ \A t \in Stations : entries'[t] = IF t = s THEN Slot(s) ELSE entries[t]
      /\ ent'[Slot(s)] = n /\ \A e \in Ids : e # Slot(s) => ent'[e] = ent[e]
      /\ issued \in Nat /\ issued' \in {issued, issued + 1}
  BY <1>0, <1>1, BoundsAssumption DEF Touch, ManagerOK
<1>3. ASSUME NEW t \in Stations PROVE Counted(t)'
  <2>1. CASE t = s
    <3>1. OnEntry(Slot(s))' = OnEntry(Slot(s)) \/ Slot(s)' # Slot(s)
      BY DEF OnEntry
    <3>2. PICK x : x = Slot(s)
      OBVIOUS
    <3>3. OnEntry(x)' = OnEntry(x)
      BY DEF OnEntry
    <3>4. Cardinality(OnEntry(x)) \in Nat
      BY OnEntryFinite
    <3>5. x \notin robbed => n.retained = n.holds + Cardinality(OnEntry(x))
      BY <1>1, <3>2, <3>4 DEF Entry
    <3>6. entries'[t] = x /\ ent'[x] = n
      BY <1>2, <2>1, <3>2
    <3>7. QED
      BY <3>3, <3>5, <3>6 DEF Counted
  <2>2. CASE t # s
    <3>1. entries[t] # NoId => entries[t] \in Ids
      BY <1>0 DEF ManagerOK
    <3>2. entries[t] # NoId => ent'[entries[t]] = ent[entries[t]]
      BY <1>1, <1>2, <2>2, <3>1
    <3>3. QED
      BY <1>2, <2>2, <3>2, CountKept
  <2>3. QED
    BY <2>1, <2>2
<1>4. Tied'
  <2>1. \A v \in Viewers : on[v] \in Nat
    BY <1>0 DEF UsersOK, Ids, NoId
  <2>2. QED
    BY <1>1, <1>2, <2>1 DEF CountInv, Tied
<1>5. QED
  BY <1>3, <1>4

\* retain(): the viewer and the reason it counts come together.
LEMMA CountViewerRetains ==
  ASSUME CountInv, NEW s \in Stations, NEW v \in Viewers, ViewerRetains(v, s)
  PROVE  Tied' /\ \A t \in Stations : Counted(t)'
<1>0. /\ ManagerOK /\ UsersOK /\ CanTouch(s) /\ at[v] = Nowhere /\ on[v] = NoId
      /\ UNCHANGED robbed
  BY DEF CountInv, IInv, ViewerRetains, Tied
<1>1. /\ Slot(s) \in Ids /\ ent[Slot(s)] \in Entry
      /\ Slot(s) \notin robbed \/ entries[s] = NoId =>
           ent[Slot(s)].retained = ent[Slot(s)].holds + Cardinality(OnEntry(Slot(s)))
      /\ \A t \in Stations : t # s /\ entries[t] # NoId => entries[t] # Slot(s)
      /\ \A w \in Viewers : on[w] = Slot(s) => at[w] = s
  BY <1>0, SlotCounted
<1>2. PICK x : x = Slot(s)
  OBVIOUS
<1>3. /\ \A t \in Stations : entries'[t] = IF t = s THEN x ELSE entries[t]
      /\ \A e \in Ids : e # x => ent'[e] = ent[e]
      /\ issued \in Nat /\ issued' \in Nat /\ issued' >= issued /\ x <= issued'
      /\ \A w \in Viewers : on'[w] = (IF w = v THEN x ELSE on[w])
                            /\ at'[w] = (IF w = v THEN s ELSE at[w])
  BY <1>0, <1>1, <1>2, BoundsAssumption
  DEF ViewerRetains, Touch, ManagerOK, UsersOK, Wiring, Slot, Ids, NoId
<1>4. ent'[x].retained = ent[x].retained + 1 /\ ent'[x].holds = ent[x].holds
  BY <1>0, <1>1, <1>2 DEF ViewerRetains, Retained, Entry, ManagerOK
<1>5. x # NoId
  BY <1>1, <1>2 DEF Ids, NoId
<1>6. ASSUME NEW t \in Stations PROVE Counted(t)'
  <2>1. CASE t = s
    <3>1. OnEntry(x)' = OnEntry(x) \cup {v}
      BY <1>3 DEF OnEntry
    <3>2. v \notin OnEntry(x)
      BY <1>0, <1>5 DEF OnEntry
    <3>3. Cardinality(OnEntry(x)') = Cardinality(OnEntry(x)) + 1
      BY <3>1, <3>2, OnEntryFinite, FS_AddElement
    <3>4. Cardinality(OnEntry(x)) \in Nat
      BY OnEntryFinite
    <3>5. x \notin robbed => ent'[x].retained = ent'[x].holds + Cardinality(OnEntry(x)')
      BY <1>1, <1>2, <1>4, <3>3, <3>4 DEF Entry
    <3>6. entries'[t] = x
      BY <1>3, <2>1
    <3>7. QED
      BY <1>0, <3>5, <3>6 DEF Counted, OnEntry
  <2>2. CASE t # s
    <3>1. entries[t] # NoId => entries[t] \in Ids /\ entries[t] # x
      BY <1>0, <1>1, <1>2, <2>2 DEF ManagerOK
    <3>2. entries[t] # NoId => ent'[entries[t]] = ent[entries[t]]
      BY <1>3, <3>1
    <3>3. ASSUME NEW w \in Viewers, entries[t] # NoId
          PROVE  on'[w] = entries[t] <=> on[w] = entries[t]
      BY <1>0, <1>3, <3>1, <3>3
    <3>4. entries'[t] = entries[t]
      BY <1>3, <2>2
    <3>5. QED
      BY <1>0, <3>2, <3>3, <3>4, CountKept
  <2>3. QED
    BY <2>1, <2>2
<1>7. Tied'
  <2>1. \A w \in Viewers : on[w] \in Nat
    BY <1>0 DEF UsersOK, Ids, NoId
  <2>2. \A w \in Viewers : on'[w] <= issued'
    BY <1>3, <2>1, <1>1, <1>2 DEF CountInv, Tied, Ids
  <2>3. \A w \in Viewers : at'[w] = Nowhere => on'[w] = NoId
    BY <1>3, StationsAssumption DEF CountInv, Tied
  <2>4. ASSUME NEW w \in Viewers, NEW t \in Stations, entries'[t] # NoId, on'[w] = entries'[t]
        PROVE  at'[w] = t
    BY <1>0, <1>1, <1>2, <1>3, <2>4 DEF CountInv, Tied
  <2>5. QED
    BY <2>2, <2>3, <2>4 DEF Tied
<1>8. QED
  BY <1>6, <1>7

\* release() takes one reason from the entry of s, the viewers V leaving: if
\* what is left is what the record still counts, every station stays counted.
LEMMA CountReleased ==
  ASSUME CountInv, NEW s \in Stations, entries[s] # NoId,
         NEW en \in Entry, NEW V, ReleaseOf(s, en, V), UNCHANGED issued,
         robbed \subseteq robbed',
         \A w \in V \cap Viewers : at[w] = s,
         entries[s] \notin robbed' =>
           Released(en).retained = en.holds + Cardinality(OnEntry(entries[s]) \ V)
  PROVE  Tied' /\ \A t \in Stations : Counted(t)'
<1> DEFINE r == Released(en)
<1>0. ManagerOK /\ UsersOK /\ entries[s] \in Ids
  BY NamedOnce DEF CountInv, IInv
<1>1. r.holds = en.holds
  BY DEF Released, Entry
<1>2. CASE AutoCloseOf(s, r, V)
  <2>1. Drop(V \cup Riders(s, r)) /\ \A w \in (V \cup Riders(s, r)) \cap Viewers : at[w] = s
    BY <1>2 DEF AutoCloseOf, Riders, AtStation
  <2>2. QED
    BY <1>2, <2>1, CountGivenUp DEF AutoCloseOf
<1>3. ASSUME NEW n, ent' = [ent EXCEPT ![entries[s]] = n], Drop(V), UNCHANGED entries,
             n.retained = r.retained, n.holds = r.holds
      PROVE  Tied' /\ \A t \in Stations : Counted(t)'
  <2>1. PICK x \in Ids : x = entries[s]
    BY <1>0
  <2>2. OnEntry(x)' = OnEntry(x) \ V
    BY <1>3, <2>1 DEF OnEntry, Drop, Ids, NoId
  <2>3. Counted(s)'
    <3>1. ent'[x] = n
      BY <1>0, <1>3, <2>1 DEF ManagerOK
    <3>2. entries'[s] = x
      BY <1>3, <2>1
    <3>3. x \notin robbed' => n.retained = n.holds + Cardinality(OnEntry(x)')
      BY <1>1, <1>3, <2>1, <2>2
    <3>4. QED
      BY <3>1, <3>2, <3>3 DEF Counted, OnEntry
  <2>4. ASSUME NEW t \in Stations, t # s PROVE Counted(t)'
    <3>1. entries[t] # NoId => entries[t] \in Ids /\ entries[t] # entries[s]
      BY <1>0, <2>4, NamedOnce
    <3>2. entries[t] # NoId => ent'[entries[t]] = ent[entries[t]]
      BY <1>0, <1>3, <3>1 DEF ManagerOK
    <3>3. ASSUME NEW w \in Viewers, entries[t] # NoId
          PROVE  on'[w] = entries[t] <=> on[w] = entries[t]
      BY <1>3, <2>4, <3>3 DEF CountInv, Tied, Drop
    <3>4. QED
      BY <1>3, <3>2, <3>3, CountKept
  <2>5. QED
    BY <1>3, <2>3, <2>4, TiedDrop
<1>4. CASE en.retained = 0 /\ ent' = [ent EXCEPT ![entries[s]] = r]
           /\ Drop(V) /\ UNCHANGED entries
  BY <1>3, <1>4
<1>5. CASE /\ \E battery \in Tiers(s) :
                ent' = [ent EXCEPT ![entries[s]] =
                          IF r.retained = 0 THEN IdleArmed(r, battery) ELSE r]
           /\ Drop(V) /\ UNCHANGED entries
  <2>1. PICK battery : ent' = [ent EXCEPT ![entries[s]] =
                                 IF r.retained = 0 THEN IdleArmed(r, battery) ELSE r]
    BY <1>5
  <2>2. r \in Entry
    BY DEF Released, Entry
  <2>3. PICK n : n = IF r.retained = 0 THEN IdleArmed(r, battery) ELSE r
    OBVIOUS
  <2>4. n.retained = r.retained /\ n.holds = r.holds
    BY <2>2, <2>3 DEF IdleArmed, Entry
  <2>5. QED
    BY <1>3, <1>5, <2>1, <2>3, <2>4
<1>6. QED
  BY <1>2, <1>4, <1>5 DEF ReleaseOf

\* Every operation that names a serial keeps the counts right.
LEMMA CountStationStep ==
  ASSUME CountInv, NEW s \in Stations, StationStep(s)
  PROVE  Tied' /\ \A t \in Stations : Counted(t)'
<1>0. ManagerOK /\ UsersOK
  BY DEF CountInv, IInv
<1>1. ASSUME Hold(s) PROVE Tied' /\ \A t \in Stations : Counted(t)'
  <2>1. Slot(s) \in Ids /\ ent[Slot(s)] \in Entry /\ SoundNamed(ent[Slot(s)])
    BY <1>0, <1>1, SlotSound DEF Hold
  <2>2. PICK n : n = Held(ent[Slot(s)])
    OBVIOUS
  <2>3. PICK en \in Entry : en = ent[Slot(s)]
    BY <2>1
  <2>4. n.retained = en.retained + 1 /\ n.holds = en.holds + 1
    BY <2>2, <2>3 DEF Held, Retained, Entry
  <2>5. n \in Entry /\ n.retained - n.holds = en.retained - en.holds
    BY <2>1, <2>2, <2>3, <2>4, HeldSound DEF Entry
  <2>6. QED
    BY <1>1, <2>2, <2>3, <2>5, CountTouched DEF Hold
<1>2. ASSUME HoldExpires(s) PROVE Tied' /\ \A t \in Stations : Counted(t)'
  <2> DEFINE e == entries[s]
             en == HoldFired(ent[e])
  <2>1. /\ e # NoId /\ e \in Ids /\ ent[e] \in Entry /\ SoundNamed(ent[e])
        /\ ent[e].holds > 0 /\ ReleaseOf(s, en, {}) /\ UNCHANGED <<issued, robbed>>
    BY <1>0, <1>2, NamedOnce DEF HoldExpires
  <2>2. en \in Entry
    BY <2>1, HoldFiredSound
  <2>3. en.retained = ent[e].retained /\ en.holds = ent[e].holds - 1
    BY <2>1 DEF HoldFired, Entry
  <2>4. Cardinality(OnEntry(e)) \in Nat
    BY OnEntryFinite
  <2>5. e \notin robbed => ent[e].retained = ent[e].holds + Cardinality(OnEntry(e))
    BY <2>1 DEF CountInv, Counted
  <2>6. e \notin robbed => Released(en).retained = en.holds + Cardinality(OnEntry(e))
    BY <2>1, <2>2, <2>3, <2>4, <2>5 DEF Released, Entry
  <2>7. OnEntry(e) \ {} = OnEntry(e)
    OBVIOUS
  <2>8. QED
    BY <2>1, <2>2, <2>6, <2>7, CountReleased
<1>3. ASSUME IdleElapses(s) PROVE Tied' /\ \A t \in Stations : Counted(t)'
  <2> DEFINE fired == [ent[entries[s]] EXCEPT !.idle = FALSE]
  <2>1. /\ entries[s] # NoId /\ entries[s] \in Ids /\ ent[entries[s]] \in Entry
        /\ CanTouch(s) /\ Slot(s) = entries[s] /\ UNCHANGED <<issued, robbed>>
    BY <1>0, <1>3, NamedOnce DEF IdleElapses, CanTouch, Slot
  <2>2. CASE ent' = [ent EXCEPT ![entries[s]] = fired] /\ UNCHANGED <<entries, at, on>>
    <3>1. PICK n : n = fired
      OBVIOUS
    <3>2. PICK en \in Entry : en = ent[entries[s]]
      BY <2>1
    <3>3. n \in Entry /\ n.retained = en.retained /\ n.holds = en.holds
      BY <3>1, <3>2 DEF Entry
    <3>4. n.retained - n.holds = ent[Slot(s)].retained - ent[Slot(s)].holds
      BY <2>1, <3>2, <3>3
    <3>5. Touch(s)
      BY <1>0, <2>1, <2>2 DEF Touch, ManagerOK
    <3>6. QED
      BY <2>1, <2>2, <3>1, <3>3, <3>4, <3>5, CountTouched
  <2>3. CASE AutoCloseOf(s, fired, {})
    <3>1. PICK V : V = {} \cup Riders(s, fired)
      OBVIOUS
    <3>2. Drop(V) /\ \A w \in V \cap Viewers : at[w] = s
      BY <2>3, <3>1 DEF AutoCloseOf, Riders, AtStation
    <3>3. QED
      BY <2>1, <2>3, <3>2, CountGivenUp DEF AutoCloseOf
  <2>4. QED
    BY <1>3, <2>2, <2>3 DEF IdleElapses
<1>4. ASSUME ResetWhenUnused(s) PROVE Tied' /\ \A t \in Stations : Counted(t)'
  <2>1. /\ entries[s] # NoId /\ entries[s] \in Ids /\ ent[entries[s]] \in Entry
        /\ CanTouch(s) /\ Slot(s) = entries[s] /\ UNCHANGED <<issued, robbed>>
    BY <1>0, <1>4, NamedOnce DEF ResetWhenUnused, CanTouch, Slot
  <2>2. CASE AutoCloseOf(s, ent[entries[s]], {})
    <3>1. PICK V : V = {} \cup Riders(s, ent[entries[s]])
      OBVIOUS
    <3>2. Drop(V) /\ \A w \in V \cap Viewers : at[w] = s
      BY <2>2, <3>1 DEF AutoCloseOf, Riders, AtStation
    <3>3. QED
      BY <2>1, <2>2, <3>2, CountGivenUp DEF AutoCloseOf
  <2>3. CASE ent' = [ent EXCEPT ![entries[s]].reset = "pending"] /\ UNCHANGED <<entries, at, on>>
    <3>1. PICK n : n = [ent[entries[s]] EXCEPT !.reset = "pending"]
      OBVIOUS
    <3>2. PICK en \in Entry : en = ent[entries[s]]
      BY <2>1
    <3>3. n \in Entry /\ n.retained = en.retained /\ n.holds = en.holds
      BY <3>1, <3>2 DEF Entry
    <3>4. n.retained - n.holds = ent[Slot(s)].retained - ent[Slot(s)].holds
      BY <2>1, <3>2, <3>3
    <3>5. Touch(s)
      BY <1>0, <2>1, <2>3 DEF Touch, ManagerOK
    <3>6. QED
      BY <2>1, <2>3, <3>1, <3>3, <3>4, <3>5, CountTouched
  <2>4. QED
    BY <1>4, <2>2, <2>3 DEF ResetWhenUnused
<1>5. ASSUME Close(s) PROVE Tied' /\ \A t \in Stations : Counted(t)'
  BY <1>5, CountGivenUp DEF Close
<1>6. ASSUME NEW c \in Callers, AcquireCold(c, s)
      PROVE  Tied' /\ \A t \in Stations : Counted(t)'
  <2>1. Slot(s) \in Ids /\ ent[Slot(s)] \in Entry
    BY <1>0, <1>6, SlotSound DEF AcquireCold
  <2>2. PICK n : n = [ent[Slot(s)] EXCEPT !.opening = "building"]
    OBVIOUS
  <2>3. PICK en \in Entry : en = ent[Slot(s)]
    BY <2>1
  <2>4. n \in Entry /\ n.retained = en.retained /\ n.holds = en.holds
    BY <2>2, <2>3 DEF Entry
  <2>5. n.retained - n.holds = ent[Slot(s)].retained - ent[Slot(s)].holds
    BY <2>3, <2>4
  <2>6. QED
    BY <1>6, <2>2, <2>4, <2>5, CountTouched DEF AcquireCold
<1>7. ASSUME NEW c \in Callers, AcquireJoin(c, s)
      PROVE  Tied' /\ \A t \in Stations : Counted(t)'
  BY <1>7, CountKept, TiedSame DEF AcquireJoin
<1>8. QED
  BY <1>1, <1>2, <1>3, <1>4, <1>5, <1>6, <1>7, CountViewerRetains DEF StationStep

\* A step of a factory or a session counts nothing, and frees the viewers of a
\* station only with its entry.
LEMMA CountEntryStep ==
  ASSUME CountInv, NEW e \in Ids, EntryStep(e)
  PROVE  Tied' /\ \A t \in Stations : Counted(t)'
<1>0. ManagerOK /\ UsersOK /\ ent[e] \in Entry
  BY DEF CountInv, IInv, ManagerOK
<1>1. ASSUME NEW n, ent' = [ent EXCEPT ![e] = n],
             n.retained = ent[e].retained, n.holds = ent[e].holds \/ ~Registered(e),
             UNCHANGED <<entries, issued, at, on, robbed>>
      PROVE  Tied' /\ \A t \in Stations : Counted(t)'
  <2>1. ASSUME NEW t \in Stations PROVE Counted(t)'
    <3>1. entries[t] # NoId => entries[t] \in Ids /\ (entries[t] = e => Registered(e))
      BY <1>0 DEF ManagerOK, Registered
    <3>2. entries[t] # NoId => /\ ent'[entries[t]].retained = ent[entries[t]].retained
                               /\ ent'[entries[t]].holds = ent[entries[t]].holds
      BY <1>0, <1>1, <3>1 DEF ManagerOK
    <3>3. QED
      BY <1>1, <3>2, CountKept
  <2>2. QED
    BY <1>1, <2>1, TiedSame
<1>2. CASE FactoryRefuses(e) \/ FactoryConnects(e) \/ Connected(e) \/ ConnectTimesOut(e)
  BY <1>0, <1>1, <1>2
  DEF FactoryRefuses, FactoryConnects, Connected, ConnectTimesOut, CloseSession, Entry, ManagerOK
<1>3. CASE Bound(e)
  <2>1. CASE Registered(e)
    BY <1>0, <1>1, <1>3, <2>1 DEF Bound, Entry
  <2>2. CASE ~Registered(e)
    <3>1. PICK n : n = CloseSession([ent[e] EXCEPT !.opening = "none"])
      OBVIOUS
    <3>2. n.retained = ent[e].retained
      BY <1>0, <3>1 DEF CloseSession, Entry
    <3>3. QED
      BY <1>1, <1>3, <2>2, <3>1, <3>2 DEF Bound
  <2>3. QED
    BY <2>1, <2>2
<1>4. CASE SocketClosed(e)
  <2> DEFINE gone == [ent[e] EXCEPT !.session = "closed"]
  <2>1. ASSUME NEW s \in Stations, entries[s] = e,
               entries' = [entries EXCEPT ![s] = NoId],
               ent' = [ent EXCEPT ![e] = SettleReset(Discarded(gone))],
               Drop(AtStation(s))
        PROVE  Tied' /\ \A t \in Stations : Counted(t)'
    <3>1. /\ entries[s] # NoId /\ UNCHANGED <<issued, robbed>>
          /\ \A w \in AtStation(s) \cap Viewers : at[w] = s
      BY <1>4, <2>1 DEF SocketClosed, Ids, NoId, AtStation
    <3>2. QED
      BY <2>1, <3>1, CountGivenUp
  <2>2. CASE /\ ~Registered(e) /\ ent' = [ent EXCEPT ![e] = SettleReset(gone)]
             /\ UNCHANGED <<entries, at, on>>
    <3>1. PICK n : n = SettleReset(gone)
      OBVIOUS
    <3>2. n.retained = ent[e].retained
      BY <1>0, <3>1 DEF SettleReset, Entry
    <3>3. QED
      BY <1>1, <1>4, <2>2, <3>1, <3>2 DEF SocketClosed
  <2>3. QED
    BY <1>4, <2>1, <2>2 DEF SocketClosed
<1>5. QED
  BY <1>2, <1>3, <1>4 DEF EntryStep

\* A viewer that leaves takes its own reason, or robs the entry that came after.
LEMMA CountViewerLeaves ==
  ASSUME CountInv, NEW v \in Viewers, ViewerLeaves(v)
  PROVE  Tied' /\ \A t \in Stations : Counted(t)'
<1>0. ManagerOK /\ UsersOK /\ UNCHANGED issued
  BY DEF CountInv, IInv, ViewerLeaves
<1>1. PICK s \in Stations : s = at[v]
  BY <1>0 DEF UsersOK, ViewerLeaves
<1>2. CASE entries[s] = NoId /\ Drop({v}) /\ UNCHANGED <<entries, ent, robbed>>
  <2>1. ASSUME NEW t \in Stations PROVE Counted(t)'
    <3>1. ASSUME NEW w \in Viewers, entries[t] # NoId
          PROVE  on'[w] = entries[t] <=> on[w] = entries[t]
      BY <1>1, <1>2, <3>1 DEF CountInv, Tied, Drop
    <3>2. QED
      BY <1>2, <3>1, CountKept
  <2>2. QED
    BY <1>0, <1>2, <2>1, TiedDrop
<1>3. CASE /\ entries[s] # NoId /\ ReleaseOf(s, ent[entries[s]], {v})
           /\ robbed' = IF on[v] # entries[s] /\ ent[entries[s]].retained > 0
                        THEN robbed \cup {entries[s]} ELSE robbed
  <2> DEFINE e == entries[s]
  <2>1. e \in Ids /\ ent[e] \in Entry
    BY <1>0, <1>3, NamedOnce
  <2>2. IsFiniteSet(OnEntry(e)) /\ Cardinality(OnEntry(e)) \in Nat
    BY OnEntryFinite
  <2>3. e \notin robbed => ent[e].retained = ent[e].holds + Cardinality(OnEntry(e))
    BY <1>3 DEF CountInv, Counted
  <2>4. e \notin robbed' => Released(ent[e]).retained = ent[e].holds + Cardinality(OnEntry(e) \ {v})
    <3>1. CASE on[v] = e
      <4>1. v \in OnEntry(e)
        BY <3>1 DEF OnEntry
      <4>2. Cardinality(OnEntry(e) \ {v}) = Cardinality(OnEntry(e)) - 1
        BY <2>2, <4>1, FS_RemoveElement
      <4>3. Cardinality(OnEntry(e)) # 0
        BY <2>2, <4>1, FS_EmptySet
      <4>4. QED
        BY <1>3, <2>1, <2>2, <2>3, <3>1, <4>2, <4>3 DEF Released, Entry
    <3>2. CASE on[v] # e
      <4>1. OnEntry(e) \ {v} = OnEntry(e)
        BY <3>2 DEF OnEntry
      <4>2. QED
        <5>1. e \notin robbed' => e \notin robbed /\ ent[e].retained = 0
          BY <1>3, <2>1, <3>2 DEF Entry
        <5>2. ent[e].retained = 0 => Released(ent[e]) = ent[e]
          BY DEF Released
        <5>3. QED
          BY <2>3, <4>1, <5>1, <5>2
    <3>3. QED
      BY <3>1, <3>2
  <2>5. robbed \subseteq robbed' /\ \A w \in {v} \cap Viewers : at[w] = s
    BY <1>1, <1>3
  <2>6. QED
    BY <1>0, <1>3, <2>1, <2>4, <2>5, CountReleased
<1>4. QED
  BY <1>1, <1>2, <1>3 DEF ViewerLeaves

\* The counts are right from the start, and through every step.
LEMMA CountInvariance == Spec => []CountInv
<1>1. Init => Tied /\ \A s \in Stations : Counted(s)
  BY DEF Init, Tied, Counted, NoId
<1>2. CountInv /\ [Next]_vars => (Tied /\ \A t \in Stations : Counted(t))'
  <2> SUFFICES ASSUME CountInv, [Next]_vars
               PROVE  Tied' /\ \A t \in Stations : Counted(t)'
    OBVIOUS
  <2>1. CASE UNCHANGED vars
    BY <2>1, CountKept, TiedSame DEF vars
  <2>2. CASE CloseAll
    <3>1. Drop(Viewers) /\ issued' = issued /\ \A t \in Stations : entries'[t] = NoId
      BY <2>2 DEF CloseAll
    <3>2. QED
      BY <3>1, TiedDrop DEF Counted
  <2>3. QED
    BY <2>1, <2>2, CountStationStep, CountEntryStep, CountViewerLeaves DEF Next
<1>3. Init => CountInv
  BY <1>1, InitInv DEF CountInv
<1>4. CountInv /\ [Next]_vars => CountInv'
  BY <1>2, StepInv DEF CountInv
<1>5. QED
  BY <1>3, <1>4, PTL DEF Spec

\* The one counter behind every timer is right, for any number of stations,
\* viewers and successive entries (retain, release, hold).
THEOREM CountCorrect == Spec => []CountIsReasons
<1>1. CountInv => CountIsReasons
  <2> SUFFICES ASSUME CountInv, NEW s \in Stations,
                      entries[s] # NoId, entries[s] \notin robbed
               PROVE  ent[entries[s]].retained = ent[entries[s]].holds
                        + Cardinality({v \in AtStation(s) : on[v] = entries[s]})
    BY DEF CountIsReasons
  <2>1. {v \in AtStation(s) : on[v] = entries[s]} = OnEntry(entries[s])
    BY DEF CountInv, Tied, AtStation, OnEntry
  <2>2. QED
    BY <2>1 DEF CountInv, Counted
<1>2. QED
  BY <1>1, CountInvariance, PTL

\* A close of the manager's own accord finds no viewer counted on the entry,
\* but the one that leaves with it.
LEMMA SpareStep ==
  ASSUME CountInv, NEW s \in Stations, entries[s] # NoId, entries'[s] = NoId,
         entries[s] \notin robbed'
  PROVE  /\ IdleElapses(s) \/ HoldExpires(s) \/ ResetWhenUnused(s) =>
              \A w \in Viewers : on[w] # entries[s]
         /\ \A v \in AtStation(s) : ViewerLeaves(v) =>
              \A w \in Viewers \ {v} : on[w] # entries[s]
<1> DEFINE e == entries[s]
<1>0. e \in Ids /\ ent[e] \in Entry
  BY NamedOnce DEF CountInv, IInv
<1>1. IsFiniteSet(OnEntry(e)) /\ Cardinality(OnEntry(e)) \in Nat
  BY OnEntryFinite
<1>2. robbed \subseteq robbed' => ent[e].retained = ent[e].holds + Cardinality(OnEntry(e))
  BY DEF CountInv, Counted
<1>3. Cardinality(OnEntry(e)) = 0 => \A w \in Viewers : on[w] # e
  BY <1>1, FS_EmptySet DEF OnEntry
<1>4. CASE IdleElapses(s)
  BY <1>0, <1>1, <1>2, <1>3, <1>4 DEF IdleElapses, Entry
<1>5. CASE HoldExpires(s)
  <2>1. ResetDue(Released(HoldFired(ent[e]))) /\ ent[e].holds > 0 /\ UNCHANGED robbed
    BY <1>5 DEF HoldExpires, ReleaseOf
  <2>2. ent[e].retained <= ent[e].holds
    BY <1>0, <2>1 DEF ResetDue, Released, HoldFired, Entry
  <2>3. QED
    BY <1>0, <1>1, <1>2, <1>3, <2>1, <2>2 DEF Entry
<1>6. CASE ResetWhenUnused(s)
  BY <1>0, <1>1, <1>2, <1>3, <1>6 DEF ResetWhenUnused, HasViewer, Entry
<1>7. ASSUME NEW v \in AtStation(s), ViewerLeaves(v), NEW w \in Viewers \ {v}, on[w] = e
      PROVE  FALSE
  <2>1. v \in Viewers /\ at[v] = s
    BY <1>7 DEF AtStation
  <2>2. /\ ReleaseOf(s, ent[e], {v})
        /\ robbed' = IF on[v] # e /\ ent[e].retained > 0 THEN robbed \cup {e} ELSE robbed
    BY <1>7, <2>1 DEF ViewerLeaves
  <2>3. ent[e].retained > 0 /\ ResetDue(Released(ent[e]))
    BY <2>2 DEF ReleaseOf
  <2>4. on[v] = e /\ robbed' = robbed
    BY <2>2, <2>3
  <2>5. ent[e].retained <= ent[e].holds + 1
    BY <1>0, <2>3 DEF ResetDue, Released, Entry
  <2>6. w \in OnEntry(e) \ {v} /\ v \in OnEntry(e)
    BY <1>7, <2>1, <2>4 DEF OnEntry
  <2>7. /\ IsFiniteSet(OnEntry(e) \ {v}) /\ Cardinality(OnEntry(e) \ {v}) \in Nat
        /\ Cardinality(OnEntry(e) \ {v}) = Cardinality(OnEntry(e)) - 1
    BY <1>1, <2>6, FS_RemoveElement, FS_CardinalityType
  <2>8. Cardinality(OnEntry(e) \ {v}) # 0
    BY <2>6, <2>7, FS_EmptySet
  <2>9. QED
    BY <1>0, <1>1, <1>2, <2>4, <2>5, <2>7, <2>8 DEF Entry
<1>8. QED
  BY <1>4, <1>5, <1>6, <1>7

\* The manager never detaches a station of its own accord under a viewer whose
\* retain the entry still counts (onIdle, release, resetWhenUnused).
THEOREM SparesViewers == Spec => AutoCloseSparesViewers
<1>1. CountInv /\ [Next]_vars =>
        [\A s \in Stations :
           entries[s] # NoId /\ entries'[s] = NoId /\ entries[s] \notin robbed' =>
             /\ IdleElapses(s) \/ HoldExpires(s) \/ ResetWhenUnused(s) =>
                  \A w \in Viewers : on[w] # entries[s]
             /\ \A v \in AtStation(s) : ViewerLeaves(v) =>
                  \A w \in Viewers \ {v} : on[w] # entries[s]]_vars
  BY SpareStep
<1>2. QED
  BY <1>1, CountInvariance, PTL DEF Spec, AutoCloseSparesViewers
=============================================================================
