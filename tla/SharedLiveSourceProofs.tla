----------------------- MODULE SharedLiveSourceProofs -----------------------
(***************************************************************************)
(* For every set of consumers and either power source: the shared live     *)
(* source keeps its types, bounds every wait by the warm-up deadline, keeps *)
(* a delivering battery pull on its budget, counts its user of the session *)
(* exactly, owns its timers, and tells whoever listens that it is over.     *)
(*                                                                         *)
(* The safety invariants are not inductive alone: Coherent adds what the   *)
(* state machine's fields say of each other.                               *)
(***************************************************************************)
EXTENDS SharedLiveSource, TLAPS

Coherent ==
  /\ state = "warming" => stream /\ ~lastKeyframe
  /\ lastKeyframe => stream
  /\ disposed => consumers = {} /\ ~stream
  /\ "retry" \in timers => "deadline" \in timers
  /\ reuseWatch /\ stream => lastKeyframe
  /\ noticed => Battery

Safe ==
  /\ WarmupIsBounded
  /\ BatteryIsBounded
  /\ UserIsCounted
  /\ TimersHaveStream
  /\ LiveHasPicture

IInv == TypeOK /\ Coherent /\ Safe

USE DEF Timers, States, Notices, Evidence, MaxFruitless

----------------------------------------------------------------------------
(* What the shared operations leave behind.                                *)

\* The detaching consumers L take the user of the session with them exactly
\* when nobody stays.
LEMMA LeaveKeepsUser ==
  ASSUME TypeOK, UserIsCounted, NEW L \in SUBSET consumers, Leave(L)
  PROVE  /\ consumers' = consumers \ L
         /\ users' \in {0, 1}
         /\ UserIsCounted'
<1>1. CASE consumers # {} /\ consumers \subseteq L
  BY <1>1 DEF UserIsCounted, Leave
<1>2. CASE ~(consumers # {} /\ consumers \subseteq L)
  <2>1. users' = users /\ consumers' = consumers \ L
    BY <1>2 DEF Leave
  <2>2. consumers = {} <=> consumers' = {}
    BY <1>2, <2>1
  <2>3. QED
    BY <2>1, <2>2 DEF UserIsCounted, TypeOK
<1>3. QED
  BY <1>1, <1>2

\* The notes a notification carries are notices.
LEMMA NotesType ==
  /\ Silence \in [Consumers -> SUBSET Notices]
  /\ Failing \in [Consumers -> SUBSET Notices]
  /\ Ending \in [Consumers -> SUBSET Notices]
  /\ Both \in [Consumers -> SUBSET Notices]
BY DEF Silence, Failing, Ending, Both

\* A notification keeps the crowd well-formed, whoever leaves in its handler.
LEMMA TellKeepsCrowd ==
  ASSUME TypeOK, UserIsCounted, NEW L \in SUBSET consumers,
         NEW notes \in [Consumers -> SUBSET Notices], Tell(notes, L)
  PROVE  /\ consumers' = consumers \ L
         /\ consumers' \subseteq Consumers
         /\ users' \in {0, 1}
         /\ fed' \in [Consumers -> BOOLEAN]
         /\ told' \in [Consumers -> SUBSET Notices]
         /\ UserIsCounted'
         /\ \A c \in consumers' : fed'[c] = fed[c] /\ notes[c] \subseteq told'[c]
<1>1. Leave(L)
  BY DEF Tell
<1>2. consumers' = consumers \ L /\ users' \in {0, 1} /\ UserIsCounted'
  BY <1>1, LeaveKeepsUser
<1>3. told' \in [Consumers -> SUBSET Notices]
  BY DEF Tell, TypeOK
<1>4. fed' \in [Consumers -> BOOLEAN]
  BY DEF Tell, TypeOK
<1>5. \A c \in consumers' : fed'[c] = fed[c] /\ notes[c] \subseteq told'[c]
  BY <1>2, <1>4 DEF Tell, TypeOK
<1>6. QED
  BY <1>2, <1>3, <1>4, <1>5 DEF TypeOK

\* A torn-down source is safe whatever it was, given a well-formed crowd.
LEMMA TeardownIsSafe ==
  ASSUME TypeOK, Coherent, NEW report \in BOOLEAN, Teardown(report),
         consumers' \subseteq Consumers, users' \in {0, 1},
         fed' \in [Consumers -> BOOLEAN], told' \in [Consumers -> SUBSET Notices],
         UserIsCounted',
         disposed' \in BOOLEAN, disposed' => consumers' = {},
         watch' = watch, owed' = owed, noticed' = noticed
  PROVE  IInv'
<1>1. reported' \in BOOLEAN
  BY DEF Teardown, TypeOK
<1>2. TypeOK'
  BY <1>1 DEF TypeOK, Teardown, watch
<1>3. Coherent'
  BY DEF Coherent, Teardown
<1>4. Safe'
  BY DEF Safe, Teardown, WarmupIsBounded, BatteryIsBounded, TimersHaveStream, LiveHasPicture
<1>5. QED
  BY <1>2, <1>3, <1>4 DEF IInv

\* A step that tells the consumers and tears the stream down.
LEMMA TellTeardown ==
  ASSUME IInv, NEW L \in SUBSET consumers,
         NEW notes \in [Consumers -> SUBSET Notices],
         Tell(notes, L), Teardown(TRUE), disposed' = disposed,
         watch' = watch, owed' = owed, noticed' = noticed
  PROVE  IInv'
<1>1. /\ consumers' = consumers \ L /\ consumers' \subseteq Consumers
      /\ users' \in {0, 1} /\ UserIsCounted'
      /\ fed' \in [Consumers -> BOOLEAN] /\ told' \in [Consumers -> SUBSET Notices]
  BY TellKeepsCrowd DEF IInv, Safe
<1>2. disposed' \in BOOLEAN /\ (disposed' => consumers' = {})
  BY <1>1 DEF IInv, Coherent, TypeOK
<1>3. QED
  BY <1>1, <1>2, TeardownIsSafe DEF IInv

----------------------------------------------------------------------------
(* One lemma per group of actions.                                         *)

\* A consumer that joins finds a pending deadline or arms one.
LEMMA AttachInv == ASSUME IInv, NEW c \in Consumers, Attach(c) PROVE IInv'
<1>1. consumers' = consumers \cup {c} /\ consumers' \subseteq Consumers
  BY DEF Attach, IInv, TypeOK
<1>2. users' \in {0, 1} /\ UserIsCounted'
  <2>1. consumers' # {}
    BY <1>1
  <2>2. users' = 1
    BY DEF Attach, IInv, Safe, UserIsCounted
  <2>3. QED
    BY <2>1, <2>2 DEF UserIsCounted
<1>3. fed' \in [Consumers -> BOOLEAN] /\ told' \in [Consumers -> SUBSET Notices]
  BY DEF Attach, IInv, TypeOK
<1>4. ~disposed' /\ disposed' = disposed /\ lastKeyframe' = lastKeyframe /\ owed' = owed /\ noticed' = noticed
  BY DEF Attach, IInv, TypeOK
<1>5. CASE ~stream /\ Warm
  <2>1. timers' = (timers \ {"linger"}) \cup {"deadline", "retry"}
    BY <1>5 DEF Warm
  <2>2. timers \subseteq {"linger"} /\ ~lastKeyframe
    BY <1>5 DEF IInv, Safe, TimersHaveStream, Coherent
  <2>3. timers' = {"deadline", "retry"}
    BY <2>1, <2>2
  <2>4. TypeOK'
    <3>0. fruitless' \in 0 .. MaxFruitless
      BY <1>5 DEF Warm
    <3>1. /\ delivered' \subseteq Evidence
          /\ reuseWatch' \in BOOLEAN /\ asked' \in BOOLEAN /\ reported' \in BOOLEAN
          /\ state' \in States /\ stream' \in BOOLEAN
      BY <1>5 DEF Warm
    <3>2. timers' \subseteq Timers
      BY <2>3
    <3>3. disposed' \in BOOLEAN /\ lastKeyframe' \in BOOLEAN
          /\ owed' \in BOOLEAN /\ noticed' \in BOOLEAN
      BY <1>4 DEF IInv, TypeOK
    <3>4. QED
      BY <1>1, <1>2, <1>3, <3>0, <3>1, <3>2, <3>3 DEF TypeOK
  <2>5. Coherent'
    BY <1>4, <1>5, <2>2, <2>3 DEF Warm, Coherent, IInv
  <2>6. Safe'
    BY <1>2, <1>4, <1>5, <2>2, <2>3 DEF Warm, Safe, WarmupIsBounded, BatteryIsBounded,
       TimersHaveStream, LiveHasPicture
  <2>7. QED
    BY <2>4, <2>5, <2>6 DEF IInv
<1>6. CASE stream /\ ~(~stream /\ Warm)
  <2>1. /\ stream' /\ asked' = asked /\ reported' = reported
        /\ WatchReusedStream
        /\ state' = IF "linger" \in timers /\ state = "lingering"
                    THEN Reattached ELSE state
    BY <1>6 DEF Attach
  <2>2. state' \in States
    BY <2>1 DEF Reattached, IInv, TypeOK
  <2>3. "deadline" \in timers' /\ "linger" \notin timers' /\ timers' \subseteq Timers
    BY <2>1 DEF WatchReusedStream, IInv, Coherent, TypeOK
  <2>4. timers' \cap {"budget", "grace"} = timers \cap {"budget", "grace"}
    BY <2>1 DEF WatchReusedStream
  <2>5. \/ delivered' = delivered /\ fruitless' = fruitless /\ reuseWatch' = reuseWatch
        \/ delivered' = {} /\ fruitless' = 0 /\ reuseWatch' /\ lastKeyframe
    BY <1>6, <2>1 DEF WatchReusedStream, IInv, Safe, WarmupIsBounded
  <2>6. /\ delivered' \subseteq Evidence
        /\ fruitless' \in 0 .. MaxFruitless /\ reuseWatch' \in BOOLEAN
    <3>1. fruitless' \in 0 .. MaxFruitless
      BY <2>1 DEF WatchReusedStream, IInv, TypeOK
    <3>2. delivered' \subseteq Evidence /\ reuseWatch' \in BOOLEAN
      BY <2>1 DEF WatchReusedStream, IInv, TypeOK
    <3>3. QED
      BY <3>1, <3>2
  <2>7. TypeOK'
    BY <1>1, <1>2, <1>3, <1>4, <2>1, <2>2, <2>3, <2>6 DEF TypeOK, IInv
  <2>8. Coherent'
    BY <1>4, <1>6, <2>1, <2>3, <2>5 DEF Coherent, IInv, Reattached
  <2>9. Safe'
    <3>1. WarmupIsBounded'
      BY <2>3 DEF WarmupIsBounded
    <3>2. BatteryIsBounded'
      BY <1>4, <1>6, <2>4 DEF BatteryIsBounded, IInv, Safe
    <3>3. TimersHaveStream'
      BY <2>1, <2>3 DEF TimersHaveStream
    <3>4. LiveHasPicture'
      BY <1>4, <2>1 DEF LiveHasPicture, Reattached, IInv, Safe
    <3>5. QED
      BY <1>2, <3>1, <3>2, <3>3, <3>4 DEF Safe
  <2>10. QED
    BY <2>7, <2>8, <2>9 DEF IInv
<1>7. QED
  BY <1>5, <1>6 DEF Attach

\* A frame clears the deadline only where there is a keyframe to show.
LEMMA OnFrameInv ==
  ASSUME IInv, NEW kind \in {"video", "audio"}, OnFrame(kind) PROVE IInv'
<1>1. /\ delivered' \subseteq Evidence /\ reuseWatch' = FALSE
      /\ state' \in States /\ timers' \subseteq Timers
  BY DEF OnFrame, Settled, IInv, TypeOK
<1>2. fruitless' \in 0 .. MaxFruitless
  BY DEF OnFrame
<1>3. fed' \in [Consumers -> BOOLEAN] /\ \A c \in consumers : fed'[c]
  BY DEF OnFrame, Fed, IInv, TypeOK
<1>4. stream /\ UNCHANGED <<disposed, stream, lastKeyframe, asked, consumers, told, users, owner>>
  BY DEF OnFrame
<1>5. /\ reuseWatch => lastKeyframe /\ timers' = timers \ {"retry", "deadline"}
      /\ ~reuseWatch => timers' = timers
      /\ state' = state
  BY DEF OnFrame, Settled, IInv, Coherent
<1>6. TypeOK'
  BY <1>1, <1>2, <1>3, <1>4 DEF IInv, TypeOK, owner
<1>7. Coherent'
  BY <1>1, <1>4, <1>5 DEF IInv, Coherent, owner
<1>8. Safe'
  BY <1>3, <1>4, <1>5 DEF IInv, Safe, WarmupIsBounded, BatteryIsBounded, UserIsCounted,
     TimersHaveStream, LiveHasPicture
<1>9. QED
  BY <1>6, <1>7, <1>8 DEF IInv

\* A keyframe either finds the budget running or starts it.
LEMMA OnKeyframeInv == ASSUME IInv, OnKeyframe PROVE IInv'
<1> DEFINE warming == ~reuseWatch /\ timers \cap {"retry", "deadline"} # {}
<1>1. /\ delivered' \subseteq Evidence /\ reuseWatch' = FALSE /\ lastKeyframe' = TRUE
      /\ state' \in States /\ timers' \subseteq Timers
  BY DEF OnKeyframe, IInv, TypeOK
<1>2. fruitless' \in 0 .. MaxFruitless
  BY DEF OnKeyframe
<1>3. fed' \in [Consumers -> BOOLEAN] /\ \A c \in consumers : fed'[c]
  BY DEF OnKeyframe, Fed, IInv, TypeOK
<1>4. stream /\ UNCHANGED <<disposed, stream, asked, consumers, told, users, owner>>
  BY DEF OnKeyframe
<1>5. /\ timers' = IF warming /\ Battery
                   THEN (timers \ {"retry", "deadline", "grace"}) \cup {"budget"}
                   ELSE timers \ {"retry", "deadline"}
      /\ state' = IF state = "warming" THEN "live" ELSE state
  BY DEF OnKeyframe
<1>6. ~warming => lastKeyframe
  BY <1>4 DEF IInv, Safe, WarmupIsBounded, Coherent
<1>7. TypeOK'
  BY <1>1, <1>2, <1>3, <1>4 DEF IInv, TypeOK, owner
<1>8. Coherent'
  BY <1>1, <1>4, <1>5 DEF IInv, Coherent, owner
<1>9. Safe'
  <2>1. BatteryIsBounded'
    BY <1>1, <1>4, <1>5, <1>6 DEF IInv, Safe, BatteryIsBounded
  <2>2. TimersHaveStream'
    BY <1>4, <1>5 DEF IInv, Safe, TimersHaveStream
  <2>3. LiveHasPicture'
    BY <1>1, <1>4 DEF LiveHasPicture
  <2>4. WarmupIsBounded' /\ UserIsCounted'
    BY <1>1, <1>3, <1>4 DEF IInv, Safe, WarmupIsBounded, UserIsCounted
  <2>5. QED
    BY <2>1, <2>2, <2>3, <2>4 DEF Safe
<1>10. QED
  BY <1>7, <1>8, <1>9 DEF IInv

\* The consumer that leaves last arms the linger.
LEMMA DetachInv == ASSUME IInv, NEW c \in Consumers, Detach(c) PROVE IInv'
<1>1. c \in consumers /\ Tell(Silence, {c})
  BY DEF Detach
<1>2. /\ consumers' = consumers \ {c} /\ consumers' \subseteq Consumers
      /\ users' \in {0, 1} /\ UserIsCounted'
      /\ fed' \in [Consumers -> BOOLEAN] /\ told' \in [Consumers -> SUBSET Notices]
      /\ \A d \in consumers' : fed'[d] = fed[d]
  BY <1>1, NotesType, TellKeepsCrowd DEF IInv, Safe
<1>3. /\ UNCHANGED <<disposed, stream, lastKeyframe, watch, owner>>
      /\ IF consumers = {c}
         THEN state' = "lingering" /\ timers' = timers \cup {"linger"}
         ELSE state' = state /\ timers' = timers
  BY DEF Detach
<1>4. ~disposed
  BY <1>1 DEF IInv, Coherent
<1>5. TypeOK'
  <2>1. state' \in States /\ timers' \subseteq Timers
    BY <1>3 DEF IInv, TypeOK
  <2>2. QED
    BY <1>2, <1>3, <2>1 DEF IInv, TypeOK, watch, owner
<1>6. Coherent'
  BY <1>2, <1>3, <1>4 DEF IInv, Coherent, watch, owner
<1>7. Safe'
  BY <1>2, <1>3, <1>4 DEF IInv, Safe, WarmupIsBounded, BatteryIsBounded, TimersHaveStream,
     LiveHasPicture
<1>8. QED
  BY <1>5, <1>6, <1>7 DEF IInv

\* The notifications that end a stream.
LEMMA EndingsInv ==
  ASSUME IInv, NEW L \in SUBSET consumers,
         \/ UpstreamEnds(L) \/ UpstreamFails(L) \/ WarmTimeout(L) \/ GraceFires(L)
  PROVE  IInv'
<1>1. CASE UpstreamEnds(L)
  BY <1>1, NotesType, TellTeardown DEF UpstreamEnds
<1>2. CASE UpstreamFails(L)
  BY <1>2, NotesType, TellTeardown DEF UpstreamFails
<1>3. CASE WarmTimeout(L)
  BY <1>3, NotesType, TellTeardown DEF WarmTimeout
<1>4. CASE GraceFires(L)
  BY <1>4, NotesType, TellTeardown DEF GraceFires
<1>5. QED
  BY <1>1, <1>2, <1>3, <1>4

\* The linger, and the owner's own end.
LEMMA StopsInv == ASSUME IInv, LingerFires \/ Dispose PROVE IInv'
<1>1. CASE LingerFires
  <2>1. /\ UNCHANGED <<disposed, watch, crowd, owed, noticed>>
        /\ Teardown(TRUE)
    BY <1>1 DEF LingerFires
  <2>2. /\ consumers' \subseteq Consumers /\ users' \in {0, 1}
        /\ fed' \in [Consumers -> BOOLEAN] /\ told' \in [Consumers -> SUBSET Notices]
        /\ UserIsCounted'
        /\ disposed' \in BOOLEAN /\ (disposed' => consumers' = {})
    BY <2>1 DEF IInv, TypeOK, Safe, Coherent, UserIsCounted, crowd
  <2>3. QED
    BY <2>1, <2>2, TeardownIsSafe DEF IInv
<1>2. CASE Dispose
  <2>1. /\ disposed' = TRUE /\ consumers' = {} /\ Teardown(FALSE)
        /\ watch' = watch /\ owed' = owed /\ noticed' = noticed
        /\ users' = IF consumers # {} THEN users - 1 ELSE users
    BY <1>2 DEF Dispose
  <2>2. fed' \in [Consumers -> BOOLEAN] /\ told' \in [Consumers -> SUBSET Notices]
    BY <1>2 DEF Dispose
  <2>3. users' = 0
    BY <2>1 DEF IInv, Safe, UserIsCounted
  <2>4. UserIsCounted'
    BY <2>1, <2>3 DEF UserIsCounted
  <2>5. QED
    BY <2>1, <2>2, <2>3, <2>4, TeardownIsSafe DEF IInv
<1>3. QED
  BY <1>1, <1>2

\* Steps that leave the consumers, the stream and its keyframe alone, and
\* neither drop the deadline nor take a battery pull off its budget.
LEMMA QuietStep ==
  ASSUME IInv,
         UNCHANGED <<state, disposed, lastKeyframe, delivered, reuseWatch, crowd>>,
         stream' = stream,
         timers' \subseteq Timers,
         fruitless' \in 0 .. MaxFruitless,
         asked' \in BOOLEAN, reported' \in BOOLEAN, owed' \in BOOLEAN, noticed' \in BOOLEAN,
         "deadline" \in timers' <=> "deadline" \in timers,
         "linger" \in timers' <=> "linger" \in timers,
         "retry" \in timers' => "deadline" \in timers,
         timers' \cap {"budget", "grace"} = {} => timers \cap {"budget", "grace"} = {},
         timers' \cap {"budget", "grace"} # {} =>
           Battery \/ timers \cap {"budget", "grace"} # {},
         noticed' => Battery,
         ~stream => timers' \subseteq timers
  PROVE  IInv'
<1>1. TypeOK'
  BY DEF IInv, TypeOK, crowd
<1>2. Coherent'
  BY DEF IInv, Coherent, crowd
<1>3. Safe'
  BY DEF IInv, Safe, WarmupIsBounded, BatteryIsBounded, UserIsCounted, TimersHaveStream,
     LiveHasPicture, crowd
<1>4. QED
  BY <1>1, <1>2, <1>3 DEF IInv

\* Re-issues, replacements and the budget's own timers.
LEMMA QuietInv ==
  ASSUME IInv,
         \/ RetryTick \/ StartUnacknowledged \/ Rewarm \/ ReplacementFails
         \/ BudgetExpires \/ Extend
  PROVE  IInv'
<1>1. CASE RetryTick
  <2>1. fruitless' \in 0 .. MaxFruitless
    BY <1>1 DEF RetryTick, IInv, TypeOK
  <2>2. UNCHANGED <<stage, delivered, reuseWatch, asked, crowd, owner>>
    BY <1>1 DEF RetryTick
  <2>3. QED
    BY <2>1, <2>2, QuietStep DEF IInv, TypeOK, Coherent, stage, owner
<1>2. CASE StartUnacknowledged
  <2>1. /\ stream /\ asked' = TRUE /\ owed' = TRUE /\ timers' = timers \ {"retry"}
        /\ UNCHANGED <<state, disposed, stream, lastKeyframe, delivered, reuseWatch,
                       fruitless, crowd, reported, noticed>>
    BY <1>2 DEF StartUnacknowledged
  <2>2. timers' \subseteq Timers
    BY <2>1 DEF IInv, TypeOK
  <2>3. fruitless' \in 0 .. MaxFruitless
    BY <2>1 DEF IInv, TypeOK
  <2>4. QED
    BY <2>1, <2>2, <2>3, QuietStep DEF IInv, TypeOK, Coherent
<1>3. CASE Rewarm
  <2>1. /\ owed' = FALSE
        /\ UNCHANGED <<state, disposed, lastKeyframe, delivered, reuseWatch, asked,
                       crowd, reported, noticed>>
    BY <1>3 DEF Rewarm
  <2>2. CASE ~disposed /\ asked /\ state = "warming"
    <3>1. fruitless' = 0 /\ stream' = TRUE /\ timers' = timers \cup {"retry"}
      BY <1>3, <2>2 DEF Rewarm
    <3>2. stream /\ ~lastKeyframe /\ "deadline" \in timers
      BY <2>2 DEF IInv, Coherent, Safe, WarmupIsBounded
    <3>3. fruitless' \in 0 .. MaxFruitless
      BY <3>1
    <3>4. stream' = stream
      BY <3>1, <3>2 DEF IInv, TypeOK
    <3>5. timers' \subseteq Timers
      BY <3>1 DEF IInv, TypeOK
    <3>6. QED
      BY <2>1, <3>1, <3>2, <3>3, <3>4, <3>5, QuietStep DEF IInv, TypeOK, Coherent
  <2>3. CASE ~(~disposed /\ asked /\ state = "warming")
    <3>1. UNCHANGED <<fruitless, stream, timers>>
      BY <1>3, <2>3 DEF Rewarm
    <3>2. fruitless' \in 0 .. MaxFruitless
      BY <3>1 DEF IInv, TypeOK
    <3>3. QED
      BY <2>1, <3>1, <3>2, QuietStep DEF IInv, TypeOK, Coherent
  <2>4. QED
    BY <2>2, <2>3
<1>4. CASE ReplacementFails
  <2>1. owed' = FALSE /\ UNCHANGED <<stage, watch, crowd, reported, noticed>>
    BY <1>4 DEF ReplacementFails
  <2>2. fruitless' \in 0 .. MaxFruitless
    BY <2>1 DEF IInv, TypeOK, watch
  <2>3. QED
    BY <2>1, <2>2, QuietStep DEF IInv, TypeOK, Coherent, stage, watch
<1>5. CASE BudgetExpires
  <2>1. /\ "budget" \in timers /\ noticed' = (noticed \/ consumers # {})
        /\ UNCHANGED <<state, disposed, stream, lastKeyframe, watch, crowd, reported, owed>>
        /\ \/ timers' = (timers \ {"budget"}) \cup {"grace"}
           \/ timers' = timers \ {"grace"}
    BY <1>5 DEF BudgetExpires
  <2>2. stream /\ Battery
    BY <2>1 DEF IInv, Safe, TimersHaveStream, BatteryIsBounded
  <2>3. fruitless' \in 0 .. MaxFruitless
    BY <2>1 DEF IInv, TypeOK, watch
  <2>4. timers' \subseteq Timers
    BY <2>1 DEF IInv, TypeOK
  <2>5. QED
    BY <2>1, <2>2, <2>3, <2>4, QuietStep DEF IInv, TypeOK, Coherent, watch
<1>6. CASE Extend
  <2>1. /\ stream /\ noticed /\ timers' = (timers \ {"grace"}) \cup {"budget"}
        /\ UNCHANGED <<state, disposed, stream, lastKeyframe, watch, crowd, owner>>
    BY <1>6 DEF Extend
  <2>2. fruitless' \in 0 .. MaxFruitless
    BY <2>1 DEF IInv, TypeOK, watch
  <2>3. timers' \subseteq Timers
    BY <2>1 DEF IInv, TypeOK
  <2>4. QED
    BY <2>1, <2>2, <2>3, QuietStep DEF IInv, TypeOK, Coherent, watch, owner
<1>7. QED
  BY <1>1, <1>2, <1>3, <1>4, <1>5, <1>6

----------------------------------------------------------------------------
(* The theorems.                                                           *)

\* The source starts idle, with nobody attached and nothing pending.
LEMMA InitInv == Init => IInv
<1> SUFFICES ASSUME Init PROVE IInv
  OBVIOUS
<1>1. TypeOK
  <2>1. fruitless \in 0 .. MaxFruitless /\ users \in {0, 1}
    BY DEF Init
  <2>2. /\ fed \in [Consumers -> BOOLEAN]
        /\ told \in [Consumers -> SUBSET Notices]
    BY DEF Init
  <2>3. QED
    BY <2>1, <2>2 DEF Init, TypeOK
<1>2. Coherent /\ Safe
  BY DEF Init, Coherent, Safe, WarmupIsBounded, BatteryIsBounded, UserIsCounted,
     TimersHaveStream, LiveHasPicture
<1>3. QED
  BY <1>1, <1>2 DEF IInv

\* Every step, one case per group of actions.
LEMMA StepInv == IInv /\ [Next]_vars => IInv'
<1> SUFFICES ASSUME IInv, [Next]_vars PROVE IInv'
  OBVIOUS
<1>1. CASE UNCHANGED vars
  <2>1. UNCHANGED <<stage, watch, crowd, owner>>
    BY <1>1 DEF vars
  <2>2. TypeOK'
    BY <2>1 DEF IInv, TypeOK, stage, watch, crowd, owner
  <2>3. Coherent' /\ Safe'
    BY <2>1 DEF IInv, Coherent, Safe, WarmupIsBounded, BatteryIsBounded, UserIsCounted,
       TimersHaveStream, LiveHasPicture, stage, watch, crowd, owner
  <2>4. QED
    BY <2>2, <2>3 DEF IInv
<1>2. CASE ConsumerStep
  BY <1>2, AttachInv, DetachInv DEF ConsumerStep
<1>3. CASE StreamStep
  BY <1>3, OnKeyframeInv, OnFrameInv, QuietInv, EndingsInv DEF StreamStep
<1>4. CASE TimerStep
  BY <1>4, StopsInv, QuietInv, EndingsInv DEF TimerStep
<1>5. CASE OwnerStep
  BY <1>5, StopsInv, QuietInv DEF OwnerStep
<1>6. QED
  BY <1>1, <1>2, <1>3, <1>4, <1>5 DEF Next

\* The inductive invariant holds in every reachable state.
LEMMA Invariance == Spec => []IInv
BY InitInv, StepInv, PTL DEF Spec

\* Nobody who listens for both events is left on a stream that ends.
LEMMA EndingsTell ==
  ASSUME IInv, Next, stream, ~stream', NEW c \in (consumers \cap consumers') \ StopOnly
  PROVE  told'[c] # {}
<1>1. PICK notes \in {Failing, Ending, Both}, L \in SUBSET consumers : Tell(notes, L)
  <2>1. CASE ConsumerStep
    BY <2>1 DEF ConsumerStep, Attach, Detach, Warm
  <2>2. CASE StreamStep
    BY <2>2 DEF StreamStep, OnKeyframe, OnFrame, StartUnacknowledged, UpstreamEnds, UpstreamFails
  <2>3. CASE TimerStep
    <3>1. CASE LingerFires
      BY <3>1 DEF LingerFires, IInv, Safe, TimersHaveStream
    <3>2. CASE RetryTick \/ BudgetExpires
      BY <3>2 DEF RetryTick, BudgetExpires, stage
    <3>3. CASE \E L \in SUBSET consumers : WarmTimeout(L) \/ GraceFires(L)
      BY <3>3 DEF WarmTimeout, GraceFires
    <3>4. QED
      BY <2>3, <3>1, <3>2, <3>3 DEF TimerStep
  <2>4. CASE OwnerStep
    BY <2>4 DEF OwnerStep, Rewarm, ReplacementFails, Extend, Dispose, stage
  <2>5. QED
    BY <2>1, <2>2, <2>3, <2>4 DEF Next
<1>2. c \in Consumers /\ notes \in [Consumers -> SUBSET Notices]
  BY NotesType DEF IInv, TypeOK
<1>3. notes[c] \subseteq told'[c]
  BY <1>1, <1>2, TellKeepsCrowd DEF IInv, Safe
<1>4. notes[c] # {}
  BY <1>2 DEF Failing, Ending, Both
<1>5. QED
  BY <1>3, <1>4

\* Every state of the source has its type; the user it counts on the session
\* is never more than one and never negative (onActive, onIdle).
THEOREM TypeCorrect == Spec => []TypeOK
BY Invariance, PTL DEF IInv

\* A pull with nothing to show, or a consumer that has received nothing, is
\* always under the warm-up deadline (warm, watchReusedStream, rewarm).
THEOREM WarmupBounded == Spec => []WarmupIsBounded
BY Invariance, PTL DEF IInv, Safe

\* A delivering battery pull is always on its budget or its grace, and a mains
\* pull never (armBudget, onBudgetExpire, extendBudget).
THEOREM BatteryBounded == Spec => []BatteryIsBounded
BY Invariance, PTL DEF IInv, Safe

\* onActive and onIdle are paired through every failure and every detach from
\* inside a notification (attachConsumer, onDetach, dispose).
THEOREM UserCounted == Spec => []UserIsCounted
BY Invariance, PTL DEF IInv, Safe

\* No timer outlives the stream it was armed for (teardown), and no linger
\* runs under a consumer.
THEOREM TimersOwned == Spec => []TimersHaveStream
BY Invariance, PTL DEF IInv, Safe

\* A live source can prime whoever joins it (attachConsumer, onVideo).
THEOREM LivePrimes == Spec => []LiveHasPicture
BY Invariance, PTL DEF IInv, Safe

\* Whoever listens for both events and stays attached is told when the stream
\* ends (onWarmTimeout, onUpstreamEnd, onUpstreamError, the grace).
THEOREM EndTold == Spec => EndIsTold
<1>1. IInv /\ [Next]_vars =>
        [stream /\ ~stream' =>
           \A c \in (consumers \cap consumers') \ StopOnly : told'[c] # {}]_vars
  BY EndingsTell
<1>2. QED
  BY <1>1, Invariance, PTL DEF Spec, EndIsTold
=============================================================================
