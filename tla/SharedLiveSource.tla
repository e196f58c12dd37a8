-------------------------- MODULE SharedLiveSource --------------------------
(***************************************************************************)
(* One shared live source                                                  *)
(* (src/src/transport/p2p/shared-live-source.ts): one pull of a camera     *)
(* fanned out to the consumers attached to it, with the five timers that   *)
(* bound it -- warm-up retry and deadline, linger, battery budget, grace.  *)
(*                                                                         *)
(* The stream below is the environment: it may deliver video and audio,    *)
(* fail, end, or report its start unacknowledged, whenever one is open.    *)
(* Time is abstracted: a pending timer may fire at any moment.  A frame is *)
(* a keyframe, a delta frame or audio; what the ring and the parameter     *)
(* sets retain is left out.  A consumer may detach from inside a           *)
(* notification (the set L of an action); its listeners do not throw.      *)
(***************************************************************************)
EXTENDS Integers

CONSTANTS
  Consumers,   \* handles; one that detached stands for the next caller
  StopOnly,    \* the consumers without an "error" listener
  Battery      \* powered: "battery" bounds a continuous stream

ASSUME ConsumersAssumption == StopOnly \subseteq Consumers
ASSUME BatteryAssumption   == Battery \in BOOLEAN

Timers == {"retry", "deadline", "linger", "budget", "grace"}
States == {"idle", "warming", "live", "lingering", "stopped"}

VARIABLES
  state, disposed,
  stream,         \* an underlying stream is open
  delivered,      \* what arrived since the watch was armed
  lastKeyframe,   \* a keyframe is retained for joining consumers
  timers,         \* the pending ones
  reuseWatch,     \* the pending watch is settled by any frame
  fruitless,      \* re-issues with nothing arrived, capped at MaxFruitless
  asked,          \* this warm-up asked its owner for another session
  consumers,      \* the attached ones
  fed,            \* [Consumers -> BOOLEAN]: history, got a frame since it joined
  told,           \* [Consumers -> SUBSET Notices]: history, told it is over
  users,          \* onActive calls less onIdle calls
  reported,       \* history: onStartFailed was called for this stream
  owed,           \* the owner is preparing a replacement session
  noticed         \* a host holds a budget notice

stage == <<state, disposed, stream, lastKeyframe, timers>>
watch == <<delivered, reuseWatch, fruitless, asked>>
crowd == <<consumers, fed, told, users>>
owner == <<reported, owed, noticed>>
vars  == <<stage, watch, crowd, owner>>

Notices      == {"error", "stop"}
MaxFruitless == 2   \* the code only asks whether there was more than one
Evidence     == {"keyframe", "video", "audio"}

\* Invariant.  The state keeps its shape: in particular the source is never
\* more than one user of the session, nor less than none.
TypeOK ==
  /\ state \in States
  /\ disposed \in BOOLEAN /\ stream \in BOOLEAN /\ lastKeyframe \in BOOLEAN
  /\ timers \subseteq Timers
  /\ delivered \subseteq Evidence
  /\ reuseWatch \in BOOLEAN /\ asked \in BOOLEAN
  /\ fruitless \in 0 .. MaxFruitless
  /\ consumers \subseteq Consumers
  /\ fed \in [Consumers -> BOOLEAN]
  /\ told \in [Consumers -> SUBSET Notices]
  /\ users \in {0, 1}
  /\ reported \in BOOLEAN /\ owed \in BOOLEAN /\ noticed \in BOOLEAN

Init ==
  /\ state = "idle" /\ disposed = FALSE /\ stream = FALSE
  /\ lastKeyframe = FALSE /\ timers = {}
  /\ delivered = {} /\ reuseWatch = FALSE /\ fruitless = 0 /\ asked = FALSE
  /\ consumers = {} /\ users = 0
  /\ fed = [c \in Consumers |-> FALSE]
  /\ told = [c \in Consumers |-> {}]
  /\ reported = FALSE /\ owed = FALSE /\ noticed = FALSE

----------------------------------------------------------------------------
(* What several operations share.                                          *)

\* onDetach() of the consumers L: the last one to leave calls onIdle.
Leave(L) ==
  /\ consumers' = consumers \ L
  /\ users' = IF consumers # {} /\ consumers \subseteq L THEN users - 1 ELSE users

\* fail() reaches the consumers that listen for "error", end() all of them.
Silence == [c \in Consumers |-> {}]
Failing == [c \in Consumers |-> IF c \in StopOnly THEN {} ELSE {"error"}]
Ending  == [c \in Consumers |-> {"stop"}]
Both    == [c \in Consumers |-> Failing[c] \cup Ending[c]]

\* Every attached consumer c is sent notes[c], and L detach in the handler.
Tell(notes, L) ==
  /\ told' = [c \in Consumers |->
       CASE c \in L -> {} [] c \in consumers \ L -> told[c] \cup notes[c]
         [] OTHER -> told[c]]
  /\ fed' = [c \in Consumers |-> fed[c] /\ c \notin L]
  /\ Leave(L)

\* teardown(): every timer and cache goes with the stream; the "stop" the
\* stream emits on the way finds no stream and is ignored.  A stream that
\* delivered no keyframe is reported to the owner.
Teardown(report) ==
  /\ stream' = FALSE
  /\ timers' = {}
  /\ lastKeyframe' = FALSE
  /\ state' = "stopped"
  /\ reported' = IF report /\ stream /\ "keyframe" \notin delivered THEN TRUE ELSE reported

----------------------------------------------------------------------------
(* Consumers come and go.                                                  *)

\* warm(): a new stream, and the watch that bounds its warm-up.
Warm ==
  /\ state' = "warming"
  /\ asked' = FALSE /\ reuseWatch' = FALSE /\ fruitless' = 0
  /\ delivered' = {}
  /\ stream' = TRUE
  /\ timers' = (timers \ {"linger"}) \cup {"deadline", "retry"}
  /\ reported' = FALSE

\* watchReusedStream(): a joined stream must prove itself again, unless a
\* watch is pending already.  The start is re-issued at once.
WatchReusedStream ==
  LET kept == timers \ {"linger"} IN
  \/ /\ kept \cap {"deadline", "retry"} # {}
     /\ timers' = kept
     /\ UNCHANGED <<delivered, fruitless, reuseWatch>>
  \/ /\ kept \cap {"deadline", "retry"} = {}
     /\ timers' = kept \cup {"deadline", "retry"}
     /\ delivered' = {} /\ fruitless' = 0 /\ reuseWatch' = TRUE

\* Mutant: a re-attached source is live whatever it has to show.
MutReattached == "live"

\* The state a cancelled linger goes back to.
Reattached == IF lastKeyframe THEN "live" ELSE "warming"

\* attachConsumer(): the first consumer calls onActive; a pending linger is
\* cancelled; a stream is warmed, or the one that is open is watched.
Attach(c) ==
  /\ ~disposed
  /\ c \notin consumers
  /\ consumers' = consumers \cup {c}
  /\ users' = IF consumers = {} THEN users + 1 ELSE users
  /\ fed' = [fed EXCEPT ![c] = FALSE]
  /\ told' = [told EXCEPT ![c] = {}]
  /\ \/ ~stream /\ Warm
     \/ /\ stream
        /\ state' = IF "linger" \in timers /\ state = "lingering"
                    THEN Reattached ELSE state
        /\ WatchReusedStream
        /\ UNCHANGED <<stream, asked, reported>>
  /\ UNCHANGED <<disposed, lastKeyframe, owed, noticed>>

\* detach(), from outside a notification: the last consumer arms the linger,
\* whatever the state was.
Detach(c) ==
  /\ c \in consumers
  /\ Tell(Silence, {c})
  /\ IF consumers = {c}
     THEN state' = "lingering" /\ timers' = timers \cup {"linger"}
     ELSE UNCHANGED <<state, timers>>
  /\ UNCHANGED <<disposed, stream, lastKeyframe, watch, owner>>

LingerFires ==
  /\ "linger" \in timers
  /\ Teardown(TRUE)
  /\ UNCHANGED <<disposed, watch, crowd, owed, noticed>>

----------------------------------------------------------------------------
(* The stream delivers.                                                    *)

Fed == fed' = [c \in Consumers |-> fed[c] \/ c \in consumers]

\* settleReuseWatch(), and the state a frame leaves it in.
Settled == IF reuseWatch /\ state = "warming" THEN "live" ELSE state

\* A delta frame, or audio: it settles a reuse watch, and nothing else.
OnFrame(kind) ==
  /\ stream
  /\ delivered' = delivered \cup {kind}
  /\ fruitless' = 0
  /\ reuseWatch' = FALSE
  /\ timers' = IF reuseWatch THEN timers \ {"retry", "deadline"} ELSE timers
  /\ state' = Settled
  /\ Fed
  /\ UNCHANGED <<disposed, stream, lastKeyframe, asked, consumers, told, users, owner>>

\* onVideo() of a keyframe: the stream is live; the keyframe that ends a
\* warm-up starts the battery budget, one that settles a reuse watch does not.
OnKeyframe ==
  LET warming == ~reuseWatch /\ timers \cap {"retry", "deadline"} # {} IN
  /\ stream
  /\ delivered' = delivered \cup {"keyframe", "video"}
  /\ fruitless' = 0 /\ reuseWatch' = FALSE /\ lastKeyframe' = TRUE
  /\ timers' = IF warming /\ Battery
               THEN (timers \ {"retry", "deadline", "grace"}) \cup {"budget"}
               ELSE timers \ {"retry", "deadline"}
  /\ state' = IF state = "warming" THEN "live" ELSE state
  /\ Fed
  /\ UNCHANGED <<disposed, stream, asked, consumers, told, users, owner>>

----------------------------------------------------------------------------
(* The stream does not deliver.                                            *)

\* reissueStart(): the second re-issue with nothing arrived is a forced start.
RetryTick ==
  /\ "retry" \in timers
  /\ fruitless' = IF delivered \cap {"video", "audio"} # {} THEN 0
                  ELSE IF fruitless < MaxFruitless THEN fruitless + 1 ELSE fruitless
  /\ UNCHANGED <<stage, delivered, reuseWatch, asked, crowd, owner>>

\* onWarmTimeout(): consumers are failed, then everything is torn down.
WarmTimeout(L) ==
  /\ "deadline" \in timers
  /\ Tell(Failing, L)
  /\ Teardown(TRUE)
  /\ UNCHANGED <<disposed, watch, owed, noticed>>

\* Mutant: the whole watch stops while a replacement is awaited.
MutStartUnacknowledged ==
  /\ stream /\ ~asked
  /\ delivered = {}
  /\ asked' = TRUE /\ owed' = TRUE
  /\ timers' = timers \ {"retry", "deadline"}
  /\ UNCHANGED <<state, disposed, stream, lastKeyframe, delivered, reuseWatch,
                 fruitless, crowd, reported, noticed>>

\* onStartUnacknowledged(): ask the owner once, and stop re-issuing onto the
\* session that is not heard; the deadline stays.
StartUnacknowledged ==
  /\ stream /\ ~asked
  /\ delivered = {}
  /\ asked' = TRUE /\ owed' = TRUE
  /\ timers' = timers \ {"retry"}
  /\ UNCHANGED <<state, disposed, stream, lastKeyframe, delivered, reuseWatch,
                 fruitless, crowd, reported, noticed>>

\* rewarm(): the owner replaced the session, or failed to.  Inert unless this
\* warm-up asked and is still warming.
Rewarm ==
  /\ owed
  /\ owed' = FALSE
  /\ IF ~disposed /\ asked /\ state = "warming"
     THEN /\ fruitless' = 0 /\ stream' = TRUE
          /\ timers' = timers \cup {"retry"}
     ELSE UNCHANGED <<fruitless, stream, timers>>
  /\ UNCHANGED <<state, disposed, lastKeyframe, delivered, reuseWatch, asked,
                 crowd, reported, noticed>>

ReplacementFails ==
  /\ owed
  /\ owed' = FALSE
  /\ UNCHANGED <<stage, watch, crowd, reported, noticed>>

\* onUpstreamEnd(): an end before the first keyframe is a failure as well.
UpstreamEnds(L) ==
  /\ stream
  /\ Tell(IF "keyframe" \in delivered THEN Ending ELSE Both, L)
  /\ Teardown(TRUE)
  /\ UNCHANGED <<disposed, watch, owed, noticed>>

\* onUpstreamError(): a frame that cannot be decoded; fail() only.
UpstreamFails(L) ==
  /\ stream
  /\ Tell(Failing, L)
  /\ Teardown(TRUE)
  /\ UNCHANGED <<disposed, watch, owed, noticed>>

----------------------------------------------------------------------------
(* The battery budget, and the end.                                        *)

\* onBudgetExpire(): the grace is armed, then the consumers are notified; a
\* host may extend from inside the handler.
BudgetExpires ==
  /\ "budget" \in timers
  /\ \/ timers' = (timers \ {"budget"}) \cup {"grace"}
     \/ timers' = timers \ {"grace"} /\ consumers # {}
  /\ noticed' = (noticed \/ consumers # {})
  /\ UNCHANGED <<state, disposed, stream, lastKeyframe, watch, crowd, reported, owed>>

\* extend(): the notice keeps working as long as a stream is open, whichever.
Extend ==
  /\ noticed /\ ~disposed /\ stream
  /\ timers' = (timers \ {"grace"}) \cup {"budget"}
  /\ UNCHANGED <<state, disposed, stream, lastKeyframe, watch, crowd, owner>>

\* Mutant: the grace stops the pull without a word.
MutGraceFires(L) ==
  /\ "grace" \in timers
  /\ Tell(Silence, L)
  /\ Teardown(TRUE)
  /\ UNCHANGED <<disposed, watch, owed, noticed>>

\* The grace ran out: everybody is told, the pull stops.
GraceFires(L) ==
  /\ "grace" \in timers
  /\ Tell(Ending, L)
  /\ Teardown(TRUE)
  /\ UNCHANGED <<disposed, watch, owed, noticed>>

\* Mutant: a disposed source keeps its user of the session.
MutDispose ==
  /\ ~disposed
  /\ disposed' = TRUE
  /\ consumers' = {}
  /\ told' = [c \in Consumers |-> {}] /\ fed' = [c \in Consumers |-> FALSE]
  /\ users' = users
  /\ Teardown(FALSE)
  /\ UNCHANGED <<watch, owed, noticed>>

\* dispose(): consumers get "stop", leave, and release the session user.
Dispose ==
  /\ ~disposed
  /\ disposed' = TRUE
  /\ consumers' = {}
  /\ told' = [c \in Consumers |-> {}] /\ fed' = [c \in Consumers |-> FALSE]
  /\ users' = IF consumers # {} THEN users - 1 ELSE users
  /\ Teardown(FALSE)
  /\ UNCHANGED <<watch, owed, noticed>>

----------------------------------------------------------------------------
ConsumerStep == \E c \in Consumers : Attach(c) \/ Detach(c)

StreamStep ==
  \/ OnKeyframe \/ OnFrame("video") \/ OnFrame("audio")
  \/ StartUnacknowledged
  \/ \E L \in SUBSET consumers : UpstreamEnds(L) \/ UpstreamFails(L)

TimerStep ==
  \/ LingerFires \/ RetryTick \/ BudgetExpires
  \/ \E L \in SUBSET consumers : WarmTimeout(L) \/ GraceFires(L)

OwnerStep == Rewarm \/ ReplacementFails \/ Extend \/ Dispose

Next == ConsumerStep \/ StreamStep \/ TimerStep \/ OwnerStep

Spec == Init /\ [][Next]_vars

\* A pending timer fires unless it is cancelled first.
Fairness ==
  /\ WF_vars(\E L \in SUBSET consumers : WarmTimeout(L))
  /\ WF_vars(\E L \in SUBSET consumers : GraceFires(L))
  /\ WF_vars(BudgetExpires)
  /\ WF_vars(LingerFires)

FairSpec == Spec /\ Fairness

----------------------------------------------------------------------------
(* What makes the source correct.                                          *)

\* Invariant.  A pull never waits without a bound: while it has no keyframe to
\* show, or some attached consumer has received nothing since it joined, the
\* warm-up deadline is pending (warm, watchReusedStream, onStartUnacknowledged
\* and rewarm all keep it).
WarmupIsBounded ==
  stream /\ (~lastKeyframe \/ \E c \in consumers : ~fed[c])
    => "deadline" \in timers

\* Invariant.  A battery camera that delivers is always on its budget or on
\* the grace after it, whoever joins, leaves, extends or rewarms; a mains
\* camera never is.
BatteryIsBounded ==
  /\ Battery /\ stream /\ lastKeyframe => timers \cap {"budget", "grace"} # {}
  /\ ~Battery => timers \cap {"budget", "grace"} = {}

\* Invariant.  onActive and onIdle stay paired: the source counts as one user
\* of the station's session exactly while somebody is attached, through
\* failures, re-entrant detaches and dispose().
UserIsCounted == users = IF consumers = {} THEN 0 ELSE 1

\* Invariant.  No timer acts on a stream it was not armed for: without a
\* stream only the linger may be pending, and it never is under a consumer.
TimersHaveStream ==
  /\ ~stream => timers \subseteq {"linger"}
  /\ "linger" \in timers => consumers = {} /\ ~disposed

\* Invariant.  "live" means a picture: a consumer joining a live source can be
\* primed with the retained keyframe.
LiveHasPicture == state = "live" => stream /\ lastKeyframe

\* Action property.  Nobody who listens for both events is left on a dead
\* stream without a word: whoever stays attached when the stream goes has been
\* sent "error" or "stop".
EndIsTold ==
  [][stream /\ ~stream' =>
       \A c \in (consumers \cap consumers') \ StopOnly : told'[c] # {}]_vars

\* Liveness.  live() never hangs silently: a consumer that listens for errors
\* receives a frame, learns that the stream is over, or leaves.
NoSilentHang ==
  \A c \in Consumers \ StopOnly :
    c \in consumers ~> c \notin consumers \/ fed[c] \/ told[c] # {}

\* Action property, what shared-live-source.ts:116 promises of onStartFailed:
\* a stream is reported "torn down having never delivered a keyframe".  A
\* stream that showed one and whose last watch was settled by its frames is
\* not a failed start.
StartFailureIsTrue ==
  [][~reported /\ reported' => ~lastKeyframe \/ "deadline" \in timers]_vars
=============================================================================
