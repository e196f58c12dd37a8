-------------------------------- MODULE Live ---------------------------------
(***************************************************************************)
(* The parts that must come to an end, each on its own instance: a         *)
(* talkback, the live streams over a session, the observed writes of a     *)
(* device, and a request that is rejected.  A behaviour is one of one      *)
(* part, as in Links; the talkback keeps its own variables, the others     *)
(* take the slots.  The fairness of a part is asked for in its own         *)
(* behaviours only.                                                        *)
(***************************************************************************)
EXTENDS Talkback, FiniteSets

CONSTANTS
  Off,           \* nobody, nothing: what is absent in a part
  LiveChannels, KeyCallers, MaxStarts, StartSends, MaxAudio, AudioMaxSends,
  StateParams, StateValues, Observed, ObservedWrites, Rereads, MaxEpochs,
  SomeWrite      \* the observed writes are alike: one stands for all

ASSUME SendsAssumption ==
  /\ MaxStarts \in Nat /\ MaxAudio \in Nat /\ MaxEpochs \in Nat
  /\ StartSends \in Nat \ {0} /\ AudioMaxSends \in Nat \ {0}

\* A transition of the observed member is a write or a re-read; Off is none.
ASSUME WritesAssumption ==
  /\ Observed \in StateParams /\ SomeWrite \in ObservedWrites
  /\ IsFiniteSet(ObservedWrites) /\ ObservedWrites \cap Rereads = {}
  /\ Off \notin ObservedWrites \cup Rereads
  /\ Off \notin [epoch : Nat, count : Nat]

VARIABLES part, s1, s2, s3, s4, s5, s6, s7, s8, s9, s10, s11, s12, s13, s14, s15, s16, s17, s18, s19, s20,
  s21, s22

low   == <<s1, s2, s3, s4, s5, s6, s7, s8, s9, s10>>
high  == <<s11, s12, s13, s14, s15, s16, s17, s18, s19, s20, s21, s22>>

\* The streams of cameras on one session.
LS == INSTANCE LiveStream WITH
  Channels <- LiveChannels, Callers <- KeyCallers, NoCamera <- Off,
  config <- s1, phase <- s2, address <- s3, key <- s4, level2 <- s5, resolving <- s6,
  waiters <- s7, seq <- s8, started <- s9, unacked <- s10, startTimer <- s11, wire <- s12,
  heard <- s13, audio <- s14, audioSeq <- s15, audioTimer <- s16, audioStalled <- s17,
  listening <- s18, ka <- s19, stall <- s20, wanted <- s21, serving <- s22

\* The observed writes of one member, and the events that re-read it.
ST == INSTANCE DeviceState WITH
  Params <- StateParams, Values <- StateValues, Absent <- Off, Writes <- ObservedWrites, Events <- Rereads,
  list <- s1, base <- s2, reports <- s3, live <- s4, told <- s5, refresh <- s6, tx <- s7,
  tail <- s8, owner <- s9, epoch <- s10

\* One request and the logins it causes or meets, two tokens, its own store.
LG == INSTANCE LoginSession WITH
  Calls <- {"request"}, HasCredentials <- TRUE, SharedStore <- FALSE, MaxTokens <- 2,
  held <- s1, loggingIn <- s2, reauth <- s3, contended <- s4, req <- s5, stage <- s6, issued <- s7,
  alive <- s8, limited <- s9

-----------------------------------------------------------------------------
TalkbackOff ==
  /\ encoder = Off /\ phase = Off /\ queue = Off /\ chain = Off /\ running = Off /\ ended = Off
  /\ announced = Off /\ held = Off /\ due = Off /\ gap = Off /\ quiet = Off /\ lead = Off
LowOff  == s1 = Off /\ s2 = Off /\ s3 = Off /\ s4 = Off /\ s5 = Off /\ s6 = Off /\ s7 = Off /\ s8 = Off /\ s9 = Off /\ s10 = Off
HighOff ==
  /\ s11 = Off /\ s12 = Off /\ s13 = Off /\ s14 = Off /\ s15 = Off /\ s16 = Off
  /\ s17 = Off /\ s18 = Off /\ s19 = Off /\ s20 = Off /\ s21 = Off /\ s22 = Off

LiveInit ==
  \/ part = "talkback" /\ Init /\ LowOff /\ HighOff
  \/ part = "stream" /\ TalkbackOff /\ LS!Init
  \/ part = "state" /\ TalkbackOff /\ ST!Init /\ HighOff
  \/ part = "login" /\ TalkbackOff /\ LG!Init /\ s10 = Off /\ HighOff

Only(name) == part = name /\ part' = part

LiveNext ==
  \/ Only("talkback") /\ Next /\ UNCHANGED <<low, high>>
  \/ Only("stream") /\ LS!Next /\ UNCHANGED vars
  \/ Only("state") /\ ST!Next /\ UNCHANGED <<vars, high>>
  \/ Only("login") /\ LG!Next /\ UNCHANGED <<vars, s10, high>>

LiveFairness ==
  /\ WF_vars(part = "talkback" /\ Elapse)
  /\ WF_vars(part = "talkback" /\ Tick)
  /\ WF_vars(part = "talkback" /\ Job)
  /\ WF_(LS!vars)(part = "stream" /\ LS!Sweeps)
  /\ \A t \in ObservedWrites \cup Rereads : WF_(ST!vars)(part = "state" /\ ST!Progress(t))
  /\ WF_(LG!vars)(part = "login" /\ (LG!Answered("request") \/ LG!RequestStep("request")))
  /\ \A p \in LG!Logins : WF_(LG!vars)(part = "login" /\ (LG!RequestStep(p) \/ LG!LoginStep(p)))

LiveSpec == LiveInit /\ [][LiveNext]_<<part, vars, low, high>> /\ LiveFairness

-----------------------------------------------------------------------------
(* The properties, each of its own part, with the type of its state.       *)

\* The feed never runs ahead of playback (Talkback.tick, nextDueAt).
FeedNeverAhead == part = "talkback" => TypeOK /\ NeverAhead

\* A withheld writer is released, even where every send throws until the queue
\* is empty: at the latest the idle stop frees it (Talkback.writable).
HeldWriterResumes == (part = "talkback" /\ held) ~> ~(part = "talkback" /\ held)

\* A declared end is answered unless somebody stops the talkback first; closing
\* itself for idleness is no excuse (Talkback.end, announceFinishIfDone).
DeclaredEndIsAnswered ==
  (part = "talkback" /\ ended) ~> (part = "talkback" /\ (announced \/ phase = "stopped"))

\* A key, and whoever waits for one, belongs to a connection that is still up
\* (awaitLevel2Key, settleLevel2, handleFrame).
KeysFollowConnection == part = "stream" => LS!TypeOK /\ LS!KeyIsOfThisConnection /\ LS!NoWaiterForgotten

\* A channel that counts as started was heard, or is being repeated
\* (startLiveMedia, stopLiveMedia, armLiveStartRetransmit).
StartedIsHeard == part = "stream" => LS!StartedIsHeard /\ LS!RetainedIsSwept

\* A listening stream has the timer that brings its camera back
\* (settleKeepalive, armStallWatch).
ListeningIsWatched == part = "stream" => LS!ListeningIsWatched

\* No live start is repeated for ever (armLiveStartRetransmit).
StartsResolve ==
  \A s \in 0 .. MaxStarts - 1 :
    (part = "stream" /\ LS!Repeated(s)) ~> ~(part = "stream" /\ LS!Repeated(s))

\* Writes of one member do not overlap, and hold its events back exactly as
\* long as one is open (enqueueStateTransition, commandRefreshes).
WritesInTurn == part = "state" => ST!TypeOK /\ ST!OneWriteAtATime /\ ST!OwnerIsOpenWrite

\* An observed write ends, also across disconnect() (refreshEventState).
WritesEnd ==
  (part = "state" /\ s7[SomeWrite].pc = "queued") ~> (part = "state" /\ s7[SomeWrite].pc = "done")

\* A request ends, however recovery and login interleave, unless the re-login
\* waits for itself (recoverRejectedSession, reauthAttempt).
CallsEnd ==
  (part = "login" /\ s5["request"].pc # "idle")
    ~> (part = "login" /\ (s5["request"].pc = "idle" \/ LG!SelfJoined))
=============================================================================
