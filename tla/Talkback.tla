------------------------------ MODULE Talkback ------------------------------
(***************************************************************************)
(* One managed talkback session (src/src/transport/p2p/talkback.ts): audio *)
(* written by a host, encoded in order, queued, and paced onto the wire at *)
(* its own playback rate until the input ends or somebody stops it.        *)
(*                                                                         *)
(* Time passes in frame durations (AAC_FRAME_MS).  The pacing interval may *)
(* fire late; what the cursor nextDueAt says is kept as due = nextDueAt -  *)
(* now.  An audio frame is a unit of the queue; a frame the device refuses *)
(* is one the write did not produce.  The host writes through writable():  *)
(* it does not write while its callback is withheld.                       *)
(***************************************************************************)
EXTENDS Integers, Sequences

CONSTANTS
  HighWater,     \* frames queued before the writer is held
  IdleTimeout,   \* frame durations without a write before it stops itself
  MaxFrames,     \* bound: frames one write or one encode yields
  MaxJobs,       \* bound: encodes in the chain
  MaxLate        \* bound: how late, in frame durations, the interval fires

ASSUME TalkbackBounds ==
  /\ HighWater \in Nat \ {0} /\ IdleTimeout \in Nat /\ MaxFrames \in Nat
  /\ MaxJobs \in Nat /\ MaxLate \in Nat \ {0}

\* More debt than the queue can hold frames releases no more of them.
MaxQueue == HighWater + MaxFrames * (MaxJobs + 1)
MaxDebt  == MaxQueue + 1

VARIABLES
  encoder,     \* PCM is written, and encoded asynchronously
  phase,       \* new, open, stopped by somebody, expired by itself
  queue,       \* frames waiting for the wire
  chain,       \* Seq of jobs: the promise chain of the encoder path
  running,     \* the head of the chain awaits the encoder
  ended,       \* end() was called
  announced,   \* "finished" was emitted
  held,        \* a writable() callback is withheld
  due,         \* nextDueAt - now
  gap,         \* since the interval last fired
  quiet,       \* since the last write, as far as the idle timeout tells
  lead         \* history: frames sent less the time elapsed

clock == <<due, gap, quiet>>
input == <<chain, running, ended, announced>>
vars  == <<encoder, phase, queue, input, held, clock, lead>>

Jobs == {"encode", "flush"}

\* Invariant.  The state keeps its shape: in particular a tick never sends a
\* frame the queue does not hold.
TypeOK ==
  /\ encoder \in BOOLEAN
  /\ phase \in {"new", "open", "stopped", "expired"}
  /\ queue \in 0 .. MaxQueue
  /\ chain \in Seq(Jobs) /\ Len(chain) <= MaxJobs + 1
  /\ running \in BOOLEAN /\ (running => chain # <<>>)
  /\ ended \in BOOLEAN /\ announced \in BOOLEAN
  /\ held \in BOOLEAN
  /\ due \in -MaxDebt .. 1 /\ lead \in -(MaxDebt + 1) .. MaxDebt
  /\ gap \in 0 .. MaxLate /\ quiet \in 0 .. IdleTimeout

Init ==
  /\ encoder \in BOOLEAN
  /\ phase = "new" /\ queue = 0
  /\ chain = <<>> /\ running = FALSE /\ ended = FALSE /\ announced = FALSE
  /\ held = FALSE
  /\ due = 1 /\ gap = 0 /\ quiet = 0
  /\ lead = 0

Closed == phase \in {"stopped", "expired"}

\* The chain runs on before the next timer callback.
Microtask == chain # <<>> /\ ~running

Least(a, b)    == IF a < b THEN a ELSE b
Greatest(a, b) == IF a > b THEN a ELSE b

----------------------------------------------------------------------------
(* Opening and closing.                                                    *)

\* start(): the device's path opened; the first frame is due in one duration.
Start ==
  /\ phase = "new"
  /\ phase' = "open"
  /\ due' = 1 /\ gap' = 0 /\ quiet' = 0
  /\ UNCHANGED <<encoder, queue, input, held, lead>>

\* Mutant: the withheld callback is forgotten.
MutStopped(how) ==
  /\ phase' = how
  /\ queue' = 0
  /\ held' = held

\* What stop() does before anything can throw: the queue is dropped, the
\* writer goes on.  The stop frame and releaseMedia follow.
Stopped(how) ==
  /\ phase' = how
  /\ queue' = 0
  /\ held' = FALSE

\* stop(), by the host, the end of the media session or the station's.  A
\* talkback closed while its media session warms up is stopped unstarted.
Stop ==
  /\ ~Closed
  /\ Stopped("stopped")
  /\ UNCHANGED <<encoder, input, clock, lead>>

----------------------------------------------------------------------------
(* Input.                                                                  *)

\* write() through writable(): without an encoder the chunk yields n frames at
\* once, with one it joins the chain.  The callback is withheld at the mark.
Write(n) ==
  /\ phase = "open" /\ ~ended /\ ~held
  /\ quiet' = 0
  /\ IF encoder
     THEN /\ Len(chain) < MaxJobs
          /\ chain' = Append(chain, "encode")
          /\ queue' = queue
     ELSE queue' = queue + n /\ chain' = chain
  /\ held' = (queue' >= HighWater)
  /\ UNCHANGED <<encoder, phase, running, ended, announced, due, gap, lead>>

\* end(): nothing more may be written; the flush waits for every encode.
End ==
  /\ phase = "open" /\ ~ended /\ ~held
  /\ ended' = TRUE
  /\ chain' = Append(chain, "flush")
  /\ UNCHANGED <<encoder, phase, queue, running, announced, held, clock, lead>>

\* announceFinishIfDone(), for a queue of the given length.
Announce(length) == announced' = (announced \/ (ended /\ length = 0))

\* The head of the chain finds the talkback stopped, or has nothing to await.
JobSkipped ==
  /\ chain # <<>> /\ ~running
  /\ Closed \/ ~encoder
  /\ chain' = Tail(chain)
  /\ IF Head(chain) = "flush" THEN Announce(queue) ELSE announced' = announced
  /\ UNCHANGED <<encoder, phase, queue, running, ended, held, clock, lead>>

JobStarts ==
  /\ chain # <<>> /\ ~running /\ encoder
  /\ ~Closed
  /\ running' = TRUE
  /\ UNCHANGED <<encoder, phase, queue, chain, ended, announced, held, clock, lead>>

\* The encoder answers with n frames, or fails with none.  Whether the
\* talkback was stopped meanwhile is not asked: what the frames are queued to
\* then, nothing drains.
JobDone(n) ==
  /\ running
  /\ running' = FALSE
  /\ chain' = Tail(chain)
  /\ queue' = queue + n
  /\ IF Head(chain) = "flush" THEN Announce(queue') ELSE announced' = announced
  /\ UNCHANGED <<encoder, phase, ended, held, clock, lead>>

----------------------------------------------------------------------------
(* The pacing interval.                                                    *)

\* A frame's duration passes.
Elapse ==
  /\ phase = "open" /\ gap < MaxLate /\ ~Microtask
  /\ gap' = gap + 1
  /\ due' = Greatest(due - 1, -MaxDebt)
  /\ lead' = Greatest(lead - 1, -(MaxDebt + 1))
  /\ quiet' = Least(quiet + 1, IdleTimeout)
  /\ UNCHANGED <<encoder, phase, queue, input, held>>

\* Mutant: a frame is released one duration before it is due.
MutOwed == Least(queue, IF due <= 1 THEN 2 - due ELSE 0)

\* The frames the wall clock says are due, of those there are.
Owed == Least(queue, IF due <= 0 THEN 1 - due ELSE 0)

\* tick() with frames queued: release what is owed, let the writer go on once
\* there is room.
TickDrains ==
  /\ phase = "open" /\ gap > 0 /\ ~Microtask /\ queue > 0
  /\ queue' = queue - Owed
  /\ due' = due + Owed /\ lead' = lead + Owed /\ gap' = 0
  /\ held' = (held /\ queue' >= HighWater)
  /\ Announce(queue')
  /\ UNCHANGED <<encoder, phase, chain, running, ended, quiet>>

\* sendAudioFrame() throws at the k-th frame owed, which is lost; the tick
\* ends there, neither releasing the writer nor announcing anything.
TickThrows(k) ==
  /\ phase = "open" /\ gap > 0 /\ ~Microtask
  /\ k \in 1 .. Owed
  /\ queue' = queue - k
  /\ due' = due + k /\ lead' = lead + k - 1 /\ gap' = 0
  /\ UNCHANGED <<encoder, phase, input, held, quiet>>

\* Has something been written within the idle window?
IdleCheck == IdleTimeout = 0 \/ quiet < IdleTimeout

\* Mutant: an empty tick leaves the announcement to the others.
MutTickEmpty ==
  /\ phase = "open" /\ gap > 0 /\ ~Microtask /\ queue = 0
  /\ due' = 1 /\ gap' = 0
  /\ IF IdleCheck THEN UNCHANGED <<phase, queue, held>> ELSE Stopped("expired")
  /\ UNCHANGED <<encoder, chain, running, ended, announced, quiet, lead>>

\* tick() with nothing queued: re-base the cursor, stop if nobody writes any
\* more, announce the end.
TickEmpty ==
  /\ phase = "open" /\ gap > 0 /\ ~Microtask /\ queue = 0
  /\ due' = 1 /\ gap' = 0
  /\ IF IdleCheck THEN UNCHANGED <<phase, queue, held>> ELSE Stopped("expired")
  /\ Announce(0)
  /\ UNCHANGED <<encoder, chain, running, ended, quiet, lead>>

----------------------------------------------------------------------------
Tick == TickDrains \/ TickEmpty \/ \E k \in 1 .. MaxQueue : TickThrows(k)
Job  == JobSkipped \/ JobStarts \/ \E n \in 0 .. MaxFrames : JobDone(n)

Writing == \E n \in 0 .. MaxFrames : Write(n)

Next == Start \/ Stop \/ Writing \/ End \/ Job \/ Elapse \/ Tick

Spec == Init /\ [][Next]_vars

\* The clock runs, the interval fires, the chain runs on and the host's
\* encoder settles.  The host owes nothing else.
Fairness == WF_vars(Elapse) /\ WF_vars(Tick) /\ WF_vars(Job)

FairSpec == Spec /\ Fairness

----------------------------------------------------------------------------
(* What makes a talkback correct.                                          *)

\* Invariant.  The feed never runs ahead of playback, however late the
\* interval fires and however the queue runs dry: frames sent since start()
\* never exceed the frame durations elapsed (tick, the cursor nextDueAt).
NeverAhead == lead <= 0
=============================================================================
