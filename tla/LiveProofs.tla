----------------------------- MODULE LiveProofs ------------------------------
(***************************************************************************)
(* Theorems about Live: the invariants of the parts that must come to an   *)
(* end, for every number of frames, cameras, callers, writes and re-reads. *)
(* That they do come to an end is left to the model checker.  As in        *)
(* LinksProofs, each part has its inductive invariant.                     *)
(***************************************************************************)
EXTENDS Live, FiniteSetTheorems, SequenceTheorems, TLAPS

-----------------------------------------------------------------------------
(* Talkback.                                                               *)

\* The frames that may still come of the jobs in the chain.
Coming(c) == MaxFrames * Len(c)

\* A writer that is not withheld finds room for one more job.
RoomToWrite ==
  /\ ~ended => Len(chain) <= MaxJobs
  /\ ~held /\ ~ended => queue + Coming(chain) <= HighWater - 1 + MaxFrames * MaxJobs
  /\ queue + Coming(chain) <= HighWater - 1 + MaxFrames * MaxJobs + MaxFrames

TalkInv == TypeOK /\ RoomToWrite /\ lead <= due - 1

\* Lemma.  What a job adds to the frames to come.
LEMMA ComingOf ==
  ASSUME NEW c \in Seq(Jobs)
  PROVE  /\ Coming(c) \in Nat /\ Len(c) \in Nat
         /\ \A j \in Jobs : /\ Append(c, j) \in Seq(Jobs) /\ Append(c, j) # <<>>
                            /\ Len(Append(c, j)) = Len(c) + 1
                            /\ Coming(Append(c, j)) = Coming(c) + MaxFrames
         /\ c # <<>> => /\ Tail(c) \in Seq(Jobs) /\ Len(Tail(c)) = Len(c) - 1
                        /\ Coming(Tail(c)) = Coming(c) - MaxFrames
         /\ Len(c) <= MaxJobs => Coming(c) <= MaxFrames * MaxJobs
<1> DEFINE l == Len(c)
           m == MaxFrames
           n == MaxJobs
<1>1. l \in Nat /\ m \in Nat /\ n \in Nat
  BY TalkbackBounds
<1>2. \A j \in Jobs : Append(c, j) \in Seq(Jobs) /\ Append(c, j) # <<>> /\ Len(Append(c, j)) = l + 1
  <2> SUFFICES ASSUME NEW j \in Jobs
               PROVE  Append(c, j) \in Seq(Jobs) /\ Append(c, j) # <<>> /\ Len(Append(c, j)) = l + 1
    OBVIOUS
  <2>1. Append(c, j) \in Seq(Jobs) /\ Len(Append(c, j)) = l + 1
    OBVIOUS
  <2>2. Len(<<>>) = 0 /\ l + 1 # 0
    BY <1>1
  <2> QED BY <2>1, <2>2
<1>3. c # <<>> => Tail(c) \in Seq(Jobs) /\ Len(Tail(c)) = l - 1
  OBVIOUS
<1>4. /\ Coming(c) = m * l
      /\ \A j \in Jobs : Coming(Append(c, j)) = m * (l + 1)
      /\ c # <<>> => Coming(Tail(c)) = m * (l - 1)
  BY <1>2, <1>3 DEF Coming
<1> HIDE DEF l, m, n
<1>5. m * l \in Nat /\ m * (l + 1) = m * l + m /\ m * (l - 1) = m * l - m
  BY <1>1
<1>6. ASSUME l <= n PROVE m * l <= m * n
  <2>1. n - l \in Nat /\ m * (n - l) \in Nat
    BY <1>1, <1>6
  <2>2. m * n = m * l + m * (n - l)
    BY <1>1, <2>1
  <2> QED BY <1>5, <2>1, <2>2
<1>7. m * l \in Nat
  BY <1>5
<1>8. Coming(c) \in Nat /\ (Len(c) <= MaxJobs => Coming(c) <= MaxFrames * MaxJobs)
  BY <1>4, <1>6, <1>7 DEF l, m, n
<1>9. \A j \in Jobs : Coming(Append(c, j)) = Coming(c) + MaxFrames
  BY <1>4, <1>5 DEF m
<1>10. c # <<>> => Coming(Tail(c)) = Coming(c) - MaxFrames
  BY <1>4, <1>5 DEF m
<1> QED BY <1>1, <1>2, <1>3, <1>8, <1>9, <1>10 DEF l

\* Lemma.  Nothing a talkback does sends a frame before it is due, or lets more
\* frames come than the queue is told to hold (tick, write, stop).
LEMMA TalkStep ==
  ASSUME TalkInv, Next
  PROVE  TalkInv'
<1> DEFINE base == MaxFrames * MaxJobs
           q == queue
           n == Len(chain)
           w == Coming(chain)
<1>0. /\ MaxFrames \in Nat /\ MaxJobs \in Nat /\ HighWater \in Nat \ {0} /\ base \in Nat
      /\ MaxQueue = HighWater + base + MaxFrames
      /\ MaxQueue \in Nat /\ MaxDebt = MaxQueue + 1 /\ MaxDebt \in Nat
      /\ MaxLate \in Nat \ {0} /\ IdleTimeout \in Nat
  <2>1. <<>> \in Seq(Jobs) /\ Len(<<>>) = 0
    OBVIOUS
  <2>2. MaxFrames \in Nat /\ MaxJobs \in Nat
    BY TalkbackBounds
  <2>3. MaxFrames * MaxJobs \in Nat /\ MaxFrames * (MaxJobs + 1) = MaxFrames * MaxJobs + MaxFrames
    BY <2>2
  <2> QED BY <2>3, TalkbackBounds DEF MaxQueue, MaxDebt
<1>1. /\ chain \in Seq(Jobs) /\ n \in Nat /\ w \in Nat /\ q \in Nat
      /\ n <= MaxJobs + 1 /\ (~ended => n <= MaxJobs)
      /\ (n <= MaxJobs => w <= base)
      /\ (~held /\ ~ended => q + w <= HighWater - 1 + base)
      /\ q + w <= HighWater - 1 + base + MaxFrames
  BY <1>0, ComingOf DEF TalkInv, TypeOK, RoomToWrite
<1>2. /\ encoder \in BOOLEAN /\ phase \in {"new", "open", "stopped", "expired"}
      /\ running \in BOOLEAN /\ (running => chain # <<>>) /\ ended \in BOOLEAN /\ announced \in BOOLEAN
      /\ held \in BOOLEAN /\ due \in -MaxDebt .. 1 /\ gap \in 0 .. MaxLate /\ quiet \in 0 .. IdleTimeout
      /\ lead \in Int /\ lead >= -(MaxDebt + 1) /\ lead <= due - 1
  BY <1>0 DEF TalkInv, TypeOK
<1> DEFINE Flags == /\ encoder' \in BOOLEAN /\ phase' \in {"new", "open", "stopped", "expired"}
                    /\ running' \in BOOLEAN /\ (running' => chain' # <<>>) /\ ended' \in BOOLEAN
                    /\ announced' \in BOOLEAN /\ held' \in BOOLEAN
           Clocks == /\ due' \in -MaxDebt .. 1 /\ lead' \in Int /\ lead' >= -(MaxDebt + 1)
                     /\ lead' <= due' - 1 /\ gap' \in 0 .. MaxLate /\ quiet' \in 0 .. IdleTimeout
           Frames == /\ chain' \in Seq(Jobs) /\ queue' \in Nat
                     /\ Len(chain') <= MaxJobs + 1 /\ (~ended' => Len(chain') <= MaxJobs)
                     /\ (~held' /\ ~ended' => queue' + Coming(chain') <= HighWater - 1 + base)
                     /\ queue' + Coming(chain') <= HighWater - 1 + base + MaxFrames
<1>3. ASSUME Flags, Clocks, Frames PROVE TalkInv'
  <2>1. Coming(chain') \in Nat /\ chain' \in Seq(Jobs) /\ queue' \in Nat
    BY <1>3, ComingOf
  <2>2. queue' \in 0 .. MaxQueue
    <3> HIDE DEF base
    <3> QED BY <1>0, <1>3, <2>1
  <2>3. lead' \in -(MaxDebt + 1) .. MaxDebt
    <3> DEFINE x == lead'
               y == due'
               d == MaxDebt
    <3> HIDE DEF Flags, Frames
    <3>1. x \in Int /\ y \in -d .. 1 /\ x <= y - 1 /\ x >= -(d + 1) /\ d \in Nat
      BY <1>0, <1>3
    <3> HIDE DEF x, y, d
    <3>2. y \in Int /\ y <= 1
      BY <3>1
    <3>3. x \in -(d + 1) .. d
      BY <3>1, <3>2
    <3> QED BY <3>3 DEF x, d
  <2>4. RoomToWrite'
    BY <1>3 DEF RoomToWrite
  <2>5. TypeOK'
    BY <1>3, <2>2, <2>3 DEF TypeOK
  <2> QED BY <1>3, <2>4, <2>5 DEF TalkInv
<1> HIDE DEF base, n, w, q
\* A queue that gets no longer, in front of the same chain.
<1>a. w \in Nat /\ q \in Nat /\ base \in Nat /\ HighWater \in Nat /\ MaxFrames \in Nat
      /\ q + w <= HighWater - 1 + base + MaxFrames
  BY <1>0, <1>1
<1>4. ASSUME chain' = chain, ended' = ended, queue' \in Nat, queue' <= q,
             held' = held \/ (~held' => queue' < HighWater)
      PROVE  Frames
  <2> DEFINE r == queue'
  <2>1. Len(chain') = n /\ Coming(chain') = w /\ chain' \in Seq(Jobs)
    BY <1>1, <1>4 DEF n, w
  <2>2. r \in Nat /\ r <= q
    BY <1>4
  <2> HIDE DEF r
  <2>3. r + w <= q + w /\ r + w <= HighWater - 1 + base + MaxFrames
    BY <1>a, <2>2
  <2>4. q + w <= HighWater - 1 + base => r + w <= HighWater - 1 + base
    BY <1>a, <2>2
  <2>5. w <= base /\ r < HighWater => r + w <= HighWater - 1 + base
    BY <1>a, <2>2
  <2>6. ~held' /\ ~ended' => r + w <= HighWater - 1 + base
    BY <1>1, <1>4, <2>4, <2>5 DEF r
  <2> QED BY <1>1, <1>4, <2>1, <2>3, <2>6 DEF r
<1>5. CASE Start
  <2>1. Frames
    BY <1>1, <1>4, <1>5 DEF Start, input, q
  <2>2. Flags
    BY <1>2, <1>5 DEF Start, input
  <2>3. Clocks
    BY <1>0, <1>2, <1>5 DEF Start
  <2> QED BY <1>3, <2>1, <2>2, <2>3
<1>6. CASE Stop
  <2>1. Frames
    <3>1. chain' = chain /\ ended' = ended /\ queue' = 0 /\ 0 < HighWater
      BY <1>0, <1>6 DEF Stop, Stopped, input
    <3> HIDE DEF Frames
    <3> QED BY <1>1, <1>4, <3>1
  <2>2. Flags
    BY <1>2, <1>6 DEF Stop, Stopped, input
  <2>3. Clocks
    BY <1>2, <1>6 DEF Stop, clock
  <2> QED BY <1>3, <2>1, <2>2, <2>3
<1>7. ASSUME NEW f \in 0 .. MaxFrames, Write(f) PROVE TalkInv'
  <2>1. /\ ~held /\ ~ended /\ ~ended' /\ (~held' => queue' < HighWater) /\ held' \in BOOLEAN
    <3>1. ~held /\ ~ended /\ ended' = ended /\ held' = (queue' >= HighWater)
      BY <1>7 DEF Write
    <3>2. queue' \in Nat
      BY <1>0, <1>1, <1>7 DEF Write, q
    <3> DEFINE full == queue' >= HighWater
    <3>3. full \in BOOLEAN /\ (~full => queue' < HighWater)
      BY <1>a, <3>2
    <3>4. held' = full
      BY <3>1
    <3> HIDE DEF full
    <3>5. CASE full = TRUE
      BY <3>1, <3>4, <3>5
    <3>6. CASE full = FALSE
      BY <3>1, <3>3, <3>4, <3>6
    <3> QED BY <3>3, <3>5, <3>6
  <2>2. q + w <= HighWater - 1 + base
    BY <1>1, <2>1
  <2>3. Flags
    <3>1. running => chain' # <<>>
      BY <1>1, <1>2, <1>7, ComingOf DEF Write, Jobs
    <3> QED BY <1>2, <1>7, <2>1, <3>1 DEF Write
  <2>4. Clocks
    BY <1>0, <1>2, <1>7 DEF Write
  <2>5. CASE encoder
    <3>1. /\ "encode" \in Jobs /\ chain' = Append(chain, "encode") /\ queue' = q /\ n < MaxJobs
      BY <1>7, <2>5 DEF Write, Jobs, n, q
    <3>2. chain' \in Seq(Jobs) /\ Len(chain') = n + 1 /\ Coming(chain') = w + MaxFrames
      BY <1>1, <3>1, ComingOf DEF n, w
    <3>3. Len(chain') <= MaxJobs
      BY <1>0, <1>1, <3>1, <3>2
    <3>4. Coming(chain') <= base /\ Coming(chain') \in Nat
      BY <3>2, <3>3, ComingOf DEF base
    <3>5. queue' + Coming(chain') <= HighWater - 1 + base + MaxFrames
      BY <1>0, <1>1, <2>2, <3>1, <3>2
    <3>6. ~held' => queue' + Coming(chain') <= HighWater - 1 + base
      BY <1>0, <1>1, <2>1, <3>1, <3>4
    <3>7. Frames
      BY <1>0, <1>1, <3>1, <3>2, <3>3, <3>5, <3>6
    <3> QED BY <1>3, <2>3, <2>4, <3>7
  <2>6. CASE ~encoder
    <3>1. /\ chain' = chain /\ queue' = q + f /\ f \in Nat /\ f <= MaxFrames
      BY <1>0, <1>7, <2>6 DEF Write, q
    <3>2. chain' \in Seq(Jobs) /\ Len(chain') = n /\ Coming(chain') = w
      BY <1>1, <3>1 DEF n, w
    <3>3. w <= base /\ n <= MaxJobs
      BY <1>1, <2>1
    <3>4. queue' + w <= HighWater - 1 + base + MaxFrames
      BY <1>0, <1>1, <2>2, <3>1
    <3>5. ~held' => queue' + w <= HighWater - 1 + base
      BY <1>0, <1>1, <2>1, <3>1, <3>3
    <3>6. Frames
      BY <1>0, <1>1, <3>1, <3>2, <3>3, <3>4, <3>5
    <3> QED BY <1>3, <2>3, <2>4, <3>6
  <2> QED BY <2>5, <2>6
<1>8. CASE End
  <2>1. /\ "flush" \in Jobs /\ chain' = Append(chain, "flush") /\ queue' = q
        /\ ~ended /\ ~held /\ ended' = TRUE
    BY <1>8 DEF End, Jobs, q
  <2>2. chain' \in Seq(Jobs) /\ chain' # <<>> /\ Len(chain') = n + 1 /\ Coming(chain') = w + MaxFrames
    BY <1>1, <2>1, ComingOf DEF n, w
  <2>3. q + w <= HighWater - 1 + base /\ n <= MaxJobs
    BY <1>1, <2>1
  <2>4. /\ queue' + Coming(chain') <= HighWater - 1 + base + MaxFrames
        /\ Len(chain') <= MaxJobs + 1
    BY <1>0, <1>1, <2>1, <2>2, <2>3
  <2>5. Frames
    BY <1>1, <2>1, <2>2, <2>4
  <2>6. Flags
    BY <1>2, <1>8, <2>1, <2>2 DEF End
  <2>7. Clocks
    BY <1>2, <1>8 DEF End, clock
  <2> QED BY <1>3, <2>5, <2>6, <2>7
\* A job that is over: what it may yield comes off the frames to come.
<1>9. ASSUME chain # <<>>, NEW f \in 0 .. MaxFrames, queue' = q + f, chain' = Tail(chain),
             held' = held, ended' = ended
      PROVE  Frames
  <2>1. chain' \in Seq(Jobs) /\ Len(chain') = n - 1 /\ Coming(chain') = w - MaxFrames
    BY <1>1, <1>9, ComingOf DEF n, w
  <2>2. Coming(chain') \in Nat /\ f \in Nat /\ f <= MaxFrames /\ Len(chain') \in Nat
    BY <1>0, <2>1, ComingOf
  <2>3. queue' \in Nat /\ queue' + Coming(chain') <= q + w
    BY <1>0, <1>1, <1>9, <2>1, <2>2
  <2>4. Len(chain') <= n
    BY <1>1, <2>1
  <2>5. queue' + Coming(chain') <= HighWater - 1 + base + MaxFrames /\ Len(chain') <= MaxJobs + 1
    BY <1>0, <1>1, <2>2, <2>3, <2>4
  <2>6. ~held' /\ ~ended' => queue' + Coming(chain') <= HighWater - 1 + base
    BY <1>0, <1>1, <1>9, <2>2, <2>3
  <2>7. ~ended' => Len(chain') <= MaxJobs
    BY <1>0, <1>1, <1>9, <2>2, <2>4
  <2> QED BY <2>1, <2>3, <2>5, <2>6, <2>7
<1>10. CASE JobSkipped
  <2>1. 0 \in 0 .. MaxFrames /\ queue' = q + 0
    BY <1>0, <1>1, <1>10 DEF JobSkipped, q
  <2>2. Frames
    <3>1. chain # <<>> /\ chain' = Tail(chain) /\ held' = held /\ ended' = ended
      BY <1>10 DEF JobSkipped
    <3> HIDE DEF Frames
    <3> QED BY <1>9, <2>1, <3>1
  <2>3. Flags
    BY <1>2, <1>10 DEF JobSkipped, Announce
  <2>4. Clocks
    BY <1>2, <1>10 DEF JobSkipped, clock
  <2> QED BY <1>3, <2>2, <2>3, <2>4
<1>11. CASE JobStarts
  <2>1. Frames
    <3>1. queue' = q /\ chain' = chain /\ ended' = ended /\ held' = held
      BY <1>11 DEF JobStarts, q
    <3> HIDE DEF Frames
    <3> QED BY <1>1, <1>4, <3>1
  <2>2. Flags
    BY <1>2, <1>11 DEF JobStarts
  <2>3. Clocks
    BY <1>2, <1>11 DEF JobStarts, clock
  <2> QED BY <1>3, <2>1, <2>2, <2>3
<1>12. ASSUME NEW f \in 0 .. MaxFrames, JobDone(f) PROVE TalkInv'
  <2>1. Frames
    <3>1. chain # <<>> /\ queue' = q + f /\ chain' = Tail(chain) /\ held' = held /\ ended' = ended
      BY <1>2, <1>12 DEF JobDone, q
    <3> HIDE DEF Frames
    <3> QED BY <1>9, <3>1
  <2>2. Flags
    BY <1>2, <1>12 DEF JobDone, Announce
  <2>3. Clocks
    BY <1>2, <1>12 DEF JobDone, clock
  <2> QED BY <1>3, <2>1, <2>2, <2>3
<1>13. CASE Elapse
  <2>1. Frames
    <3>1. queue' = q /\ chain' = chain /\ ended' = ended /\ held' = held
      BY <1>13 DEF Elapse, input, q
    <3> HIDE DEF Frames
    <3> QED BY <1>1, <1>4, <3>1
  <2>2. Flags
    BY <1>2, <1>13 DEF Elapse, input
  <2>3. Clocks
    BY <1>0, <1>2, <1>13 DEF Elapse, Greatest, Least
  <2> QED BY <1>3, <2>1, <2>2, <2>3
<1>14. /\ Owed \in Nat /\ Owed <= q
       /\ due <= 0 => due + Owed <= 1
       /\ due > 0 => Owed = 0
  BY <1>0, <1>1, <1>2 DEF Owed, Least, q
<1>15. CASE TickDrains
  <2>1. Frames
    <3>1. queue' \in Nat /\ queue' <= q /\ chain' = chain /\ ended' = ended
      BY <1>1, <1>14, <1>15 DEF TickDrains, q
    <3>2. held' = held \/ (~held' => queue' < HighWater)
      BY <1>0, <1>2, <1>15, <3>1 DEF TickDrains
    <3> HIDE DEF Frames
    <3> QED BY <1>4, <3>1, <3>2
  <2>2. Flags
    BY <1>2, <1>15 DEF TickDrains, Announce
  <2>3. Clocks
    BY <1>0, <1>2, <1>14, <1>15 DEF TickDrains
  <2> QED BY <1>3, <2>1, <2>2, <2>3
<1>16. ASSUME NEW k \in 1 .. MaxQueue, TickThrows(k) PROVE TalkInv'
  <2>1. k \in Nat /\ k >= 1 /\ k <= Owed
    BY <1>0, <1>14, <1>16 DEF TickThrows
  <2>2. Frames
    <3>1. queue' \in Nat /\ queue' <= q /\ chain' = chain /\ ended' = ended /\ held' = held
      BY <1>1, <1>14, <1>16, <2>1 DEF TickThrows, input, q
    <3> HIDE DEF Frames
    <3> QED BY <1>4, <3>1
  <2>3. Flags
    BY <1>2, <1>16 DEF TickThrows, input
  <2>4. Clocks
    BY <1>0, <1>2, <1>14, <1>16, <2>1 DEF TickThrows
  <2> QED BY <1>3, <2>2, <2>3, <2>4
<1>17. CASE TickEmpty
  <2>1. Frames
    <3>1. queue' = 0 /\ q = 0 /\ chain' = chain /\ ended' = ended /\ 0 < HighWater
      BY <1>0, <1>17 DEF TickEmpty, Stopped, q
    <3> HIDE DEF Frames
    <3> QED BY <1>4, <3>1
  <2>2. Flags
    BY <1>2, <1>17 DEF TickEmpty, Stopped, Announce
  <2>3. Clocks
    BY <1>0, <1>2, <1>17 DEF TickEmpty
  <2> QED BY <1>3, <2>1, <2>2, <2>3
<1> QED
  BY <1>5, <1>6, <1>7, <1>8, <1>10, <1>11, <1>12, <1>13, <1>15, <1>16, <1>17
     DEF Next, Writing, Job, Tick

\* Lemma.  A new talkback owes nothing (the constructor).
LEMMA TalkBegins == Init => TalkInv
<1> SUFFICES ASSUME Init PROVE TalkInv
  OBVIOUS
<1> DEFINE base == MaxFrames * MaxJobs
<1>1. <<>> \in Seq(Jobs) /\ Len(<<>>) = 0 /\ MaxFrames \in Nat /\ MaxJobs \in Nat
  BY TalkbackBounds
<1>2. base \in Nat /\ MaxFrames * (MaxJobs + 1) = base + MaxFrames /\ MaxFrames * 0 = 0
  BY <1>1
<1>3. Coming(chain) = 0
  BY <1>1, <1>2 DEF Init, Coming
<1> HIDE DEF base
<1>4. MaxQueue \in Nat /\ MaxDebt \in Nat
  BY <1>1, <1>2, TalkbackBounds DEF MaxQueue, MaxDebt, base
<1>5. TypeOK
  <2>1. /\ 0 \in 0 .. MaxQueue /\ 1 \in -MaxDebt .. 1 /\ 0 \in -(MaxDebt + 1) .. MaxDebt
        /\ 0 \in 0 .. MaxLate /\ 0 \in 0 .. IdleTimeout /\ 0 <= MaxJobs + 1
    BY <1>1, <1>4, TalkbackBounds
  <2>2. chain \in Seq(Jobs) /\ Len(chain) = 0
    BY <1>1 DEF Init
  <2> QED BY <2>1, <2>2 DEF Init, TypeOK
<1>6. RoomToWrite
  BY <1>1, <1>2, <1>3, TalkbackBounds DEF Init, RoomToWrite, base
<1> QED BY <1>5, <1>6 DEF TalkInv, Init
-----------------------------------------------------------------------------
(* LiveStream, over P2PSession.                                            *)

\* The connection and its key: what was asked of the device belongs to the
\* connection that asked (s2 phase, s3 address, s4 key, s6 resolving, s7 waiters).
ConnectionOK ==
  /\ s1 \in [resolver : BOOLEAN, attached : BOOLEAN]
  /\ s2 \in {"new", "binding", "looking", "connected", "closed"}
  /\ s3 \in BOOLEAN /\ s4 \in BOOLEAN /\ s6 \in BOOLEAN /\ s7 \subseteq KeyCallers
  /\ s5 \in [pending : BOOLEAN, negotiating : BOOLEAN, reprompted : BOOLEAN]
  /\ LS!KeyIsOfThisConnection /\ LS!NoWaiterForgotten
  /\ s3 \/ s6 => s2 \in {"connected", "closed"}

\* The starts: one that is retained is known by the number it was sent with
\* (s8 seq, s9 started, s10 unacked, s11 startTimer, s12 wire, s13 heard).
StartsOK ==
  /\ s8 \in 0 .. MaxStarts /\ s9 \in [LiveChannels -> {"no", "l1", "l2"}] /\ s11 \in BOOLEAN
  /\ DOMAIN s10 \subseteq LS!Seqs /\ s10 \in [DOMAIN s10 -> [channel : LiveChannels, sends : 1 .. StartSends]]
  /\ s12 \subseteq [seq : LS!Seqs, channel : LiveChannels] /\ s13 \subseteq s12
  /\ s10 # << >> => s11
  /\ \A n \in DOMAIN s10 : n < s8
  /\ \A w \in s12 : w.seq < s8 /\ (w.seq \in DOMAIN s10 => s10[w.seq].channel = w.channel)
  /\ ~s3 => \A c \in LiveChannels : s9[c] = "no"
  /\ LS!StartedIsHeard

\* The audio frames (s14 audio, s15 audioSeq, s16 audioTimer, s17 audioStalled).
AudioOK ==
  /\ DOMAIN s14 \subseteq 0 .. MaxAudio - 1 /\ s14 \in [DOMAIN s14 -> 1 .. AudioMaxSends]
  /\ s15 \in 0 .. MaxAudio /\ s16 \in BOOLEAN /\ s17 \in BOOLEAN
  /\ s14 # << >> => s16

\* The streams (s18 listening, s19 ka, s20 stall, s21 wanted, s22 serving).
StreamsOK ==
  /\ s18 \subseteq LiveChannels /\ s19 \subseteq s18 /\ s20 \subseteq s18 /\ s21 \subseteq s18
  /\ s22 \in LiveChannels \cup {Off}
  /\ LS!ListeningIsWatched

StreamInv == ConnectionOK /\ StartsOK /\ AudioOK /\ StreamsOK

\* Lemma.  A connection's own steps leave starts that were heard, heard.
LEMMA ConnectionSteps ==
  ASSUME StreamInv,
         \/ LS!Connect \/ LS!Bound \/ LS!OnConnected \/ LS!Close
         \/ \E c \in KeyCallers : LS!AwaitLevel2Key(c) \/ LS!WaitTimesOut(c)
         \/ LS!RepromptLevel2Key \/ LS!GatewayInfo
         \/ \E found \in BOOLEAN : LS!KeyResolves(found)
  PROVE  ConnectionOK' /\ StartsOK' /\ AudioOK'
<1> USE DEF StreamInv, ConnectionOK, StartsOK, AudioOK, LS!KeyIsOfThisConnection, LS!NoWaiterForgotten, LS!Open,
            LS!StartedIsHeard, LS!Awaiting, LS!negotiation, LS!starts, LS!network, LS!sound
<1>1. CASE LS!Connect
  BY <1>1 DEF LS!Connect
<1>2. CASE LS!Bound
  BY <1>2 DEF LS!Bound
<1>3. CASE LS!OnConnected
  BY <1>3 DEF LS!OnConnected
<1>4. CASE LS!Close
  <2>1. /\ s2' = "closed" /\ s4' = FALSE /\ s7' = {} /\ s10' = << >> /\ s14' = << >>
        /\ UNCHANGED <<s1, s3, s6, s8, s9, s12, s13, s15>>
        /\ s5' = [s5 EXCEPT !.pending = FALSE] /\ s11' = FALSE /\ s16' = FALSE /\ s17' = FALSE
    BY <1>4 DEF LS!Close, LS!SettleLevel2
  <2>2. DOMAIN << >> = {} /\ \A S : << >> \in [{} -> S]
    OBVIOUS
  <2>3. ConnectionOK'
    BY <2>1
  <2>4. StartsOK'
    BY <2>1, <2>2
  <2>5. AudioOK'
    BY <2>1, <2>2
  <2> QED BY <2>3, <2>4, <2>5
<1>5. ASSUME NEW c \in KeyCallers, LS!AwaitLevel2Key(c) \/ LS!WaitTimesOut(c)
      PROVE  ConnectionOK' /\ StartsOK' /\ AudioOK'
  BY <1>5 DEF LS!AwaitLevel2Key, LS!WaitTimesOut
<1>6. CASE LS!RepromptLevel2Key
  BY <1>6 DEF LS!RepromptLevel2Key
<1>7. CASE LS!GatewayInfo
  BY <1>7 DEF LS!GatewayInfo, LS!Sends
<1>8. ASSUME NEW found \in BOOLEAN, LS!KeyResolves(found)
      PROVE  ConnectionOK' /\ StartsOK' /\ AudioOK'
  <2>1. s6 = TRUE /\ s6' = FALSE /\ UNCHANGED <<s1, s2, s3, s8, s9, s10, s11, s12, s13, s14, s15, s16, s17>>
    BY <1>8 DEF LS!KeyResolves
  <2>2. CASE s2 # "closed"
    <3>1. s4' = found /\ s5' = [s5 EXCEPT !.pending = FALSE] /\ s7' = {}
      BY <1>8, <2>2 DEF LS!KeyResolves, LS!ThisConnection, LS!SettleLevel2
    <3>2. s2 = "connected"
      BY <2>1, <2>2
    <3>3. ConnectionOK'
      BY <2>1, <3>1, <3>2
    <3> QED BY <2>1, <3>2, <3>3
  <2>3. CASE s2 = "closed"
    <3>1. UNCHANGED <<s4, s5, s7>>
      BY <1>8, <2>3 DEF LS!KeyResolves, LS!ThisConnection
    <3> QED BY <2>1, <2>3, <3>1
  <2> QED BY <2>2, <2>3
<1> QED
  BY <1>1, <1>2, <1>3, <1>4, <1>5, <1>6, <1>7, <1>8

\* Lemma.  A function of nothing is the empty one.
LEMMA Emptiness ==
  ASSUME NEW S, NEW f, f \in [DOMAIN f -> S]
  PROVE  f # << >> <=> DOMAIN f # {}
<1>1. << >> \in [{} -> S] /\ DOMAIN << >> = {}
  OBVIOUS
<1>2. ASSUME DOMAIN f = {} PROVE f = << >>
  BY <1>1, <1>2
<1> QED BY <1>1, <1>2

\* Lemma.  A frame is repeated, acknowledged or given up (SendAudioFrame,
\* SweepAudio, the video channel of onAck).
LEMMA AudioSteps ==
  ASSUME StreamInv,
         \/ LS!SendAudioFrame
         \/ \E batch \in SUBSET DOMAIN s14 : LS!SweepAudio(batch)
         \/ \E n \in 0 .. s15 - 1 : LS!OnAudioAck(n)
  PROVE  AudioOK'
<1> DEFINE Sends == 1 .. AudioMaxSends
<1>0. /\ DOMAIN s14 \subseteq 0 .. MaxAudio - 1 /\ s14 \in [DOMAIN s14 -> Sends] /\ s15 \in 0 .. MaxAudio
      /\ s16 \in BOOLEAN /\ s17 \in BOOLEAN /\ (s14 # << >> => s16)
      /\ MaxAudio \in Nat /\ AudioMaxSends \in Nat \ {0}
  BY SendsAssumption DEF StreamInv, AudioOK
<1>1. CASE LS!SendAudioFrame
  <2>1. s15 < MaxAudio /\ s15' = s15 + 1 /\ s16' = TRUE /\ s17' = s17
    BY <1>1 DEF LS!SendAudioFrame
  <2>2. s14' = [n \in DOMAIN s14 \cup {s15} |-> IF n = s15 THEN 1 ELSE s14[n]]
    BY <1>1 DEF LS!SendAudioFrame
  <2>3. s15 \in 0 .. MaxAudio - 1 /\ 1 \in Sends
    BY <1>0, <2>1
  <2> QED BY <1>0, <2>1, <2>2, <2>3 DEF AudioOK
<1>2. ASSUME NEW batch \in SUBSET DOMAIN s14, LS!SweepAudio(batch) PROVE AudioOK'
  <2> DEFINE dead == {n \in batch : s14[n] >= AudioMaxSends}
  <2>1. /\ s14' = [n \in DOMAIN s14 \ dead |-> IF n \in batch THEN s14[n] + 1 ELSE s14[n]]
        /\ s16' = (s14' # << >>) /\ s17' = (s17 \/ dead # {}) /\ s15' = s15
    BY <1>2 DEF LS!SweepAudio
  <2>2. \A n \in DOMAIN s14 : n \in batch /\ n \notin dead => s14[n] + 1 \in Sends
    BY <1>0
  <2>3. DOMAIN s14' \subseteq DOMAIN s14 /\ s14' \in [DOMAIN s14' -> Sends]
    BY <1>0, <2>1, <2>2
  <2>4. s16' \in BOOLEAN /\ s17' \in BOOLEAN /\ (s14' # << >> => s16')
    BY <2>1
  <2> QED BY <1>0, <2>1, <2>3, <2>4 DEF AudioOK
<1>3. ASSUME NEW n \in 0 .. s15 - 1, LS!OnAudioAck(n) PROVE AudioOK'
  <2>1. s14' = [m \in DOMAIN s14 \ {n} |-> s14[m]] /\ s15' = s15 /\ s16' = s16 /\ s17' = FALSE
    BY <1>3 DEF LS!OnAudioAck, LS!Restrict
  <2>2. DOMAIN s14' = DOMAIN s14 \ {n} /\ s14' \in [DOMAIN s14' -> Sends]
    BY <1>0, <2>1
  <2>3. s14' # << >> => s14 # << >>
    <3> HIDE DEF Sends
    <3> QED BY <1>0, <2>2, Emptiness
  <2> QED BY <1>0, <2>1, <2>2, <2>3 DEF AudioOK
<1> QED BY <1>1, <1>2, <1>3

\* What an acknowledgement, a stop and a sweep that abandons do to the retained
\* starts: they keep those outside S.
Kept(S) == s10' = [n \in DOMAIN s10 \ S |-> s10[n]]

\* Lemma.  The starts that are kept stay swept.
LEMMA KeptStarts ==
  ASSUME StartsOK, NEW S, Kept(S), s11' = (s11 /\ s10' # << >>)
  PROVE  /\ DOMAIN s10' = DOMAIN s10 \ S
         /\ DOMAIN s10' \subseteq LS!Seqs /\ s10' \in [DOMAIN s10' -> [channel : LiveChannels, sends : 1 .. StartSends]]
         /\ s11' \in BOOLEAN /\ (s10' # << >> => s11')
         /\ \A n \in DOMAIN s10' : n \in DOMAIN s10 /\ s10'[n] = s10[n]
<1> DEFINE R == [channel : LiveChannels, sends : 1 .. StartSends]
<1>1. DOMAIN s10 \subseteq LS!Seqs /\ s10 \in [DOMAIN s10 -> R] /\ s11 \in BOOLEAN /\ (s10 # << >> => s11)
  BY DEF StartsOK
<1> HIDE DEF R
<1>2. DOMAIN s10' = DOMAIN s10 \ S /\ s10' \in [DOMAIN s10' -> R]
  BY <1>1 DEF Kept
<1>3. s10' # << >> => s10 # << >>
  BY <1>1, <1>2, Emptiness
<1>4. s11' \in BOOLEAN /\ (s10' # << >> => s11')
  BY <1>1, <1>3
<1> QED BY <1>1, <1>2, <1>4 DEF Kept, R

\* Lemma.  A channel that counts as started is being repeated or was heard,
\* whichever start is sent, replaced, acknowledged, stopped or given up.
LEMMA StartSteps ==
  ASSUME StreamInv, s2' = s2, s3' = s3,
         \/ \E c \in LiveChannels, force \in BOOLEAN : LS!StartLiveMedia(c, force)
         \/ \E c \in LiveChannels : LS!StopLiveMedia(c)
         \/ \E w \in s12 : LS!DeviceHears(w) \/ LS!OnAck(w)
         \/ \E batch \in SUBSET DOMAIN s10 : LS!SweepStarts(batch)
  PROVE  StartsOK'
<1> DEFINE R == [channel : LiveChannels, sends : 1 .. StartSends]
<1>0. /\ StartsOK /\ s3 \in BOOLEAN /\ s1 \in [resolver : BOOLEAN, attached : BOOLEAN] /\ s4 \in BOOLEAN
      /\ s2 \in {"new", "binding", "looking", "connected", "closed"}
      /\ MaxStarts \in Nat /\ StartSends \in Nat \ {0}
  BY SendsAssumption DEF StreamInv, ConnectionOK
<1>1. ASSUME NEW c \in LiveChannels, NEW force \in BOOLEAN, LS!StartLiveMedia(c, force) PROVE StartsOK'
  <2>1. CASE UNCHANGED <<s8, s9, s10, s11, s12>>
    BY <1>0, <1>1, <2>1 DEF LS!StartLiveMedia, StartsOK, LS!StartedIsHeard, LS!Awaiting
  <2>2. CASE ~UNCHANGED <<s8, s9, s10, s11, s12>>
    <3>1. /\ s3 = TRUE /\ LS!SendStartLiveOwnSession(c) /\ s13' = s13
          /\ s9' = [s9 EXCEPT ![c] = LS!Want]
      BY <1>0, <1>1, <2>2 DEF LS!StartLiveMedia, LS!starts
    <3>2. /\ s8 \in 0 .. MaxStarts /\ s8 < MaxStarts /\ s8' = s8 + 1 /\ s11' = TRUE
          /\ s10' = [n \in (DOMAIN s10 \ LS!StartsOf(c)) \cup {s8} |->
                       IF n = s8 THEN [channel |-> c, sends |-> 1] ELSE s10[n]]
          /\ s12' \in {s12, s12 \cup {[seq |-> s8, channel |-> c]}}
      BY <1>0, <3>1 DEF LS!SendStartLiveOwnSession, StartsOK
    <3>3. s8 \in LS!Seqs /\ s8' \in 0 .. MaxStarts /\ [channel |-> c, sends |-> 1] \in R
      BY <1>0, <3>2 DEF LS!Seqs
    <3>4. DOMAIN s10' \subseteq LS!Seqs /\ s10' \in [DOMAIN s10' -> R]
      BY <1>0, <3>2, <3>3 DEF StartsOK
    <3>5. s9' \in [LiveChannels -> {"no", "l1", "l2"}]
      BY <1>0, <3>1 DEF StartsOK, LS!Want
    <3>6. s12' \subseteq [seq : LS!Seqs, channel : LiveChannels] /\ s13' \subseteq s12'
      BY <1>0, <3>1, <3>2, <3>3 DEF StartsOK
    <3>7. \A n \in DOMAIN s10' : n < s8'
      BY <1>0, <3>2 DEF StartsOK, LS!Seqs
    <3>8. ASSUME NEW w \in s12' PROVE w.seq < s8' /\ (w.seq \in DOMAIN s10' => s10'[w.seq].channel = w.channel)
      <4>1. CASE w \in s12
        <5>1. w.seq < s8 /\ w.seq \in LS!Seqs /\ (w.seq \in DOMAIN s10 => s10[w.seq].channel = w.channel)
          BY <1>0, <4>1 DEF StartsOK
        <5>2. w.seq # s8 /\ w.seq < s8'
          BY <1>0, <3>2, <5>1 DEF LS!Seqs
        <5> QED BY <3>2, <5>1, <5>2
      <4>2. CASE w = [seq |-> s8, channel |-> c]
        BY <3>2, <4>2
      <4> QED BY <3>2, <4>1, <4>2
    <3>9. LS!StartedIsHeard'
      <4>1. ASSUME NEW d \in LiveChannels, d # c, LS!Awaiting(d) PROVE LS!Awaiting(d)'
        <5>1. PICK n \in DOMAIN s10 : s10[n].channel = d
          BY <4>1 DEF LS!Awaiting
        <5>2. n \notin LS!StartsOf(c) /\ n # s8
          BY <1>0, <3>2, <4>1, <5>1 DEF StartsOK, LS!StartsOf, LS!Seqs
        <5>3. n \in DOMAIN s10' /\ s10'[n] = s10[n]
          BY <3>2, <5>2
        <5> QED BY <5>1, <5>3 DEF LS!Awaiting
      <4>2. LS!Awaiting(c)'
        BY <3>2 DEF LS!Awaiting
      <4>3. \A d \in LiveChannels : d # c => s9'[d] = s9[d]
        BY <1>0, <3>1 DEF StartsOK
      <4> QED BY <1>0, <3>1, <4>1, <4>2, <4>3 DEF StartsOK, LS!StartedIsHeard
    <3> QED BY <1>0, <3>1, <3>2, <3>3, <3>4, <3>5, <3>6, <3>7, <3>8, <3>9 DEF StartsOK
  <2> QED BY <2>1, <2>2
<1>2. ASSUME NEW c \in LiveChannels, LS!StopLiveMedia(c) PROVE StartsOK'
  <2>1. /\ Kept(LS!StartsOf(c)) /\ s11' = (s11 /\ s10' # << >>) /\ UNCHANGED <<s8, s12, s13>>
        /\ s9' = [s9 EXCEPT ![c] = "no"]
    BY <1>2 DEF LS!StopLiveMedia, LS!Keep, LS!TimerNeeded, LS!Restrict, Kept, LS!network
  <2>2. /\ DOMAIN s10' = DOMAIN s10 \ LS!StartsOf(c)
        /\ DOMAIN s10' \subseteq LS!Seqs /\ s10' \in [DOMAIN s10' -> R]
        /\ s11' \in BOOLEAN /\ (s10' # << >> => s11')
        /\ \A n \in DOMAIN s10' : n \in DOMAIN s10 /\ s10'[n] = s10[n]
    BY <1>0, <2>1, KeptStarts
  <2>3. LS!StartedIsHeard'
    <3>1. ASSUME NEW d \in LiveChannels, d # c, LS!Awaiting(d) PROVE LS!Awaiting(d)'
      <4>1. PICK n \in DOMAIN s10 : s10[n].channel = d
        BY <3>1 DEF LS!Awaiting
      <4>2. n \in DOMAIN s10'
        BY <2>2, <3>1, <4>1 DEF LS!StartsOf
      <4> QED BY <2>2, <4>1, <4>2 DEF LS!Awaiting
    <3>2. s9'[c] = "no" /\ \A d \in LiveChannels : d # c => s9'[d] = s9[d]
      BY <1>0, <2>1 DEF StartsOK
    <3> QED BY <1>0, <2>1, <3>1, <3>2 DEF StartsOK, LS!StartedIsHeard
  <2> QED BY <1>0, <2>1, <2>2, <2>3 DEF StartsOK
<1>3. ASSUME NEW w \in s12, LS!DeviceHears(w) PROVE StartsOK'
  <2>1. s13' = s13 \cup {w} /\ UNCHANGED <<s8, s9, s10, s11, s12>>
    BY <1>3 DEF LS!DeviceHears, LS!starts
  <2> QED BY <1>0, <2>1 DEF StartsOK, LS!StartedIsHeard, LS!Awaiting
<1>4. ASSUME NEW w \in s12, LS!OnAck(w) PROVE StartsOK'
  <2>1. /\ w \in s13 /\ w.seq \in DOMAIN s10
        /\ Kept({w.seq}) /\ s11' = (s11 /\ s10' # << >>) /\ UNCHANGED <<s8, s9, s12, s13>>
    BY <1>4 DEF LS!OnAck, LS!Keep, LS!TimerNeeded, LS!Restrict, Kept, LS!network
  <2>2. /\ DOMAIN s10' = DOMAIN s10 \ {w.seq}
        /\ DOMAIN s10' \subseteq LS!Seqs /\ s10' \in [DOMAIN s10' -> R]
        /\ s11' \in BOOLEAN /\ (s10' # << >> => s11')
        /\ \A n \in DOMAIN s10' : n \in DOMAIN s10 /\ s10'[n] = s10[n]
    BY <1>0, <2>1, KeptStarts
  <2>3. s10[w.seq].channel = w.channel
    BY <1>0, <2>1 DEF StartsOK
  <2>4. LS!StartedIsHeard'
    <3>1. ASSUME NEW d \in LiveChannels, LS!Awaiting(d) PROVE LS!Awaiting(d)' \/ w.channel = d
      <4>1. PICK n \in DOMAIN s10 : s10[n].channel = d
        BY <3>1 DEF LS!Awaiting
      <4>2. CASE n = w.seq
        BY <2>3, <4>1, <4>2
      <4>3. CASE n # w.seq
        BY <2>2, <4>1, <4>3 DEF LS!Awaiting
      <4> QED BY <4>2, <4>3
    <3> QED BY <1>0, <2>1, <3>1 DEF StartsOK, LS!StartedIsHeard
  <2> QED BY <1>0, <2>1, <2>2, <2>4 DEF StartsOK
<1>5. ASSUME NEW batch \in SUBSET DOMAIN s10, LS!SweepStarts(batch) PROVE StartsOK'
  <2> DEFINE dead  == {n \in batch : LS!Spent(n)}
             again == batch \ dead
  <2>1. /\ s10' = [n \in DOMAIN s10 \ dead |->
                     IF n \in again THEN [s10[n] EXCEPT !.sends = IF @ < StartSends THEN @ + 1 ELSE @] ELSE s10[n]]
        /\ s9' = LS!Forget(dead) /\ s11' = (s10' # << >>) /\ UNCHANGED <<s8, s13>>
        /\ s12' \in {s12, s12 \cup {[seq |-> n, channel |-> s10[n].channel] : n \in again}}
    BY <1>5 DEF LS!SweepStarts, LS!TimerNeeded
  <2>2. \A n \in DOMAIN s10 : s10[n] \in R
    BY <1>0 DEF StartsOK
  <2>3. ASSUME NEW r \in R
        PROVE  LET u == [r EXCEPT !.sends = IF @ < StartSends THEN @ + 1 ELSE @]
               IN u \in R /\ u.channel = r.channel
    <3>1. (IF r.sends < StartSends THEN r.sends + 1 ELSE r.sends) \in 1 .. StartSends
      BY <1>0
    <3> QED BY <3>1
  <2> HIDE DEF dead, again, R
  <2>4. /\ DOMAIN s10' = DOMAIN s10 \ dead /\ s10' \in [DOMAIN s10' -> R]
        /\ \A n \in DOMAIN s10' : s10'[n].channel = s10[n].channel
    BY <2>1, <2>2, <2>3
  <2>5. s9' \in [LiveChannels -> {"no", "l1", "l2"}]
        /\ \A c \in LiveChannels : \/ s9'[c] = "no"
                                   \/ s9'[c] = s9[c] /\ dead \cap LS!StartsOf(c) = {}
    BY <1>0, <2>1 DEF StartsOK, LS!Forget
  <2>6. again \subseteq DOMAIN s10
    BY DEF again
  <2>7. \A w \in s12' : w \in s12 \/ \E n \in DOMAIN s10 : w = [seq |-> n, channel |-> s10[n].channel]
    BY <2>1, <2>6
  <2>8. s12' \subseteq [seq : LS!Seqs, channel : LiveChannels] /\ s13' \subseteq s12'
    BY <1>0, <2>1, <2>2, <2>7 DEF StartsOK, R
  <2>9. \A w \in s12' : w.seq < s8 /\ (w.seq \in DOMAIN s10' => s10'[w.seq].channel = w.channel)
    BY <1>0, <2>4, <2>7 DEF StartsOK
  <2>10. LS!StartedIsHeard'
    <3>1. ASSUME NEW c \in LiveChannels, LS!Awaiting(c), dead \cap LS!StartsOf(c) = {} PROVE LS!Awaiting(c)'
      BY <2>4, <3>1 DEF LS!Awaiting, LS!StartsOf
    <3> QED BY <1>0, <2>1, <2>5, <3>1 DEF StartsOK, LS!StartedIsHeard
  <2>11. s11' \in BOOLEAN /\ (s10' # << >> => s11')
    BY <2>1
  <2>12. ~s3' => \A c \in LiveChannels : s9'[c] = "no"
    BY <1>0, <2>5 DEF StartsOK
  <2>13. DOMAIN s10' \subseteq LS!Seqs /\ \A n \in DOMAIN s10' : n < s8'
    BY <1>0, <2>1, <2>4 DEF StartsOK
  <2>14. s8' \in 0 .. MaxStarts
    BY <1>0, <2>1 DEF StartsOK
  <2> QED BY <2>1, <2>4, <2>5, <2>8, <2>9, <2>10, <2>11, <2>12, <2>13, <2>14 DEF StartsOK, R
<1> QED BY <1>1, <1>2, <1>3, <1>4, <1>5

\* Lemma.  A start by way of a stream leaves the connection and the audio alone
\* (startLiveMedia).
LEMMA SendStarts ==
  ASSUME StreamInv, NEW c \in LiveChannels, NEW force \in BOOLEAN, LS!SendStart(c, force)
  PROVE  /\ ConnectionOK' /\ StartsOK' /\ AudioOK'
         /\ s1' = s1 /\ s22' \in LiveChannels \cup {Off}
<1>1. LS!StartLiveMedia(c, force) /\ s22' \in {s22, c}
  BY DEF LS!SendStart
<1>2. UNCHANGED <<s1, s2, s3, s4, s5, s6, s7, s14, s15, s16, s17>>
  BY <1>1 DEF LS!StartLiveMedia, LS!negotiation, LS!sound
<1>3. StartsOK'
  BY <1>1, <1>2, StartSteps
<1>4. ConnectionOK'
  BY <1>2 DEF StreamInv, ConnectionOK, LS!KeyIsOfThisConnection, LS!NoWaiterForgotten, LS!Open
<1>5. AudioOK'
  BY <1>2 DEF StreamInv, AudioOK
<1> QED BY <1>1, <1>2, <1>3, <1>4, <1>5 DEF StreamInv, StreamsOK

\* Lemma.  A session's own step keeps what is said of the session.
LEMMA SessionSteps ==
  ASSUME StreamInv, LS!SessionStep
  PROVE  ConnectionOK' /\ StartsOK' /\ AudioOK' /\ s1' = s1
<1> DEFINE Conn == UNCHANGED <<s1, s2, s3, s4, s5, s6, s7>>
           Strt == UNCHANGED <<s8, s9, s10, s11, s12, s13>>
           Aud  == UNCHANGED <<s14, s15, s16, s17>>
<1>1. Conn => ConnectionOK'
  BY DEF StreamInv, ConnectionOK, LS!KeyIsOfThisConnection, LS!NoWaiterForgotten, LS!Open
<1>2. Conn /\ Strt => StartsOK'
  BY DEF StreamInv, StartsOK, LS!StartedIsHeard, LS!Awaiting
<1>3. Aud => AudioOK'
  BY DEF StreamInv, AudioOK
<1>4. CASE \/ LS!Connect \/ LS!Bound \/ LS!OnConnected \/ LS!Close
           \/ \E c \in KeyCallers : LS!AwaitLevel2Key(c) \/ LS!WaitTimesOut(c)
           \/ LS!RepromptLevel2Key \/ LS!GatewayInfo
           \/ \E found \in BOOLEAN : LS!KeyResolves(found)
  <2>1. s1' = s1
    BY <1>4 DEF LS!Connect, LS!Bound, LS!OnConnected, LS!Close, LS!AwaitLevel2Key, LS!WaitTimesOut,
                LS!RepromptLevel2Key, LS!GatewayInfo, LS!KeyResolves
  <2> QED BY <1>4, <2>1, ConnectionSteps
<1>5. CASE \/ \E w \in s12 : LS!DeviceHears(w) \/ LS!OnAck(w)
           \/ \E batch \in SUBSET DOMAIN s10 : LS!SweepStarts(batch)
  <2>1. Conn /\ Aud
    BY <1>5 DEF LS!DeviceHears, LS!OnAck, LS!SweepStarts, LS!negotiation, LS!sound
  <2>2. StartsOK'
    BY <1>5, <2>1, StartSteps
  <2> QED BY <1>1, <1>3, <2>1, <2>2
<1>6. CASE \/ LS!SendAudioFrame
           \/ \E batch \in SUBSET DOMAIN s14 : LS!SweepAudio(batch)
           \/ \E n \in 0 .. s15 - 1 : LS!OnAudioAck(n)
  <2>1. Conn /\ Strt
    BY <1>6 DEF LS!SendAudioFrame, LS!SweepAudio, LS!OnAudioAck, LS!negotiation, LS!starts, LS!network
  <2>2. AudioOK'
    BY <1>6, AudioSteps
  <2> QED BY <1>1, <1>2, <2>1, <2>2
<1> QED BY <1>4, <1>5, <1>6 DEF LS!SessionStep

\* Lemma.  Every step of a session and its streams keeps the invariant: a stream
\* loses a timer only for the other one (settleKeepalive, the stall watch).
LEMMA StreamStep ==
  ASSUME StreamInv, LS!Next
  PROVE  StreamInv'
<1> USE DEF LS!ListeningIsWatched, LS!streams
<1>0. StreamsOK /\ ConnectionOK /\ StartsOK /\ AudioOK
  BY DEF StreamInv
<1>1. CASE LS!SessionStep /\ UNCHANGED <<LS!streams, s22>>
  <2>1. ConnectionOK' /\ StartsOK' /\ AudioOK' /\ s1' = s1
    BY <1>1, SessionSteps
  <2>2. StreamsOK'
    BY <1>0, <1>1, <2>1 DEF StreamsOK
  <2> QED BY <2>1, <2>2 DEF StreamInv
<1>a. UNCHANGED LS!session => ConnectionOK' /\ StartsOK' /\ AudioOK' /\ s1' = s1
  BY <1>0 DEF ConnectionOK, StartsOK, AudioOK, LS!session, LS!negotiation, LS!starts, LS!network, LS!sound,
              LS!KeyIsOfThisConnection, LS!NoWaiterForgotten, LS!Open, LS!StartedIsHeard, LS!Awaiting
<1>2. ASSUME NEW c \in LiveChannels, LS!Start(c) \/ LS!KeepAlive(c) \/ \E force \in BOOLEAN : LS!Nudge(c, force)
      PROVE  StreamInv'
  <2>1. \E force \in BOOLEAN : LS!SendStart(c, force)
    BY <1>2 DEF LS!Start, LS!KeepAlive, LS!Nudge
  <2>2. /\ ConnectionOK' /\ StartsOK' /\ AudioOK'
        /\ s1' = s1 /\ s22' \in LiveChannels \cup {Off}
    BY <2>1, SendStarts
  <2>3. StreamsOK'
    BY <1>0, <1>2, <2>2 DEF StreamsOK, LS!Start, LS!KeepAlive, LS!Nudge
  <2> QED BY <2>2, <2>3 DEF StreamInv
<1>3. ASSUME NEW c \in LiveChannels, LS!Stop(c) PROVE StreamInv'
  <2>1. LS!StopLiveMedia(c)
    BY <1>3 DEF LS!Stop
  <2>2. UNCHANGED <<s1, s2, s3, s4, s5, s6, s7, s14, s15, s16, s17>>
    BY <2>1 DEF LS!StopLiveMedia, LS!negotiation, LS!sound
  <2>3. StartsOK'
    BY <2>1, <2>2, StartSteps
  <2>4. ConnectionOK'
    BY <1>0, <2>2 DEF ConnectionOK, LS!KeyIsOfThisConnection, LS!NoWaiterForgotten, LS!Open
  <2>5. AudioOK'
    BY <1>0, <2>2 DEF AudioOK
  <2>6. StreamsOK'
    BY <1>0, <1>3, <2>2 DEF StreamsOK, LS!Stop
  <2> QED BY <2>3, <2>4, <2>5, <2>6 DEF StreamInv
<1>4. ASSUME NEW c \in LiveChannels, LS!OwnFrame(c) \/ LS!OwnerChanges(c) PROVE StreamInv'
  <2>1. UNCHANGED <<LS!session, s18, s22>>
    BY <1>4 DEF LS!OwnFrame, LS!OwnerChanges
  <2>2. StreamsOK'
    <3>1. CASE LS!OwnFrame(c)
      BY <1>0, <1>a, <2>1, <3>1 DEF StreamsOK, LS!OwnFrame
    <3>2. CASE LS!OwnerChanges(c)
      BY <1>0, <1>a, <2>1, <3>2 DEF StreamsOK, LS!OwnerChanges
    <3> QED BY <1>4, <3>1, <3>2
  <2> QED BY <1>a, <2>1, <2>2 DEF StreamInv
<1>5. ASSUME NEW c \in LiveChannels, LS!StallFires(c) PROVE StreamInv'
  <2>1. CASE c \notin s21
    <3>1. UNCHANGED LS!session /\ UNCHANGED <<s18, s19, s20, s21, s22>>
      BY <1>5, <2>1 DEF LS!StallFires, LS!Unwanted
    <3>2. StreamsOK'
      BY <1>0, <1>a, <3>1 DEF StreamsOK
    <3> QED BY <1>a, <3>1, <3>2 DEF StreamInv
  <2>2. CASE c \in s21
    <3>1. LS!SendStart(c, FALSE) /\ s20' = s20 \ {c} /\ s19' = s19 \cup {c} /\ UNCHANGED <<s18, s21>>
      BY <1>5, <2>2 DEF LS!StallFires
    <3>2. /\ ConnectionOK' /\ StartsOK' /\ AudioOK'
          /\ s1' = s1 /\ s22' \in LiveChannels \cup {Off}
      BY <3>1, SendStarts
    <3>3. StreamsOK'
      BY <1>0, <2>2, <3>1, <3>2 DEF StreamsOK
    <3> QED BY <3>2, <3>3 DEF StreamInv
  <2> QED BY <2>1, <2>2
<1> QED BY <1>1, <1>2, <1>3, <1>4, <1>5 DEF LS!Next

\* Lemma.  A session that is not connected yet holds none of it.
LEMMA StreamBegins == LS!Init => StreamInv
<1> SUFFICES ASSUME LS!Init PROVE StreamInv
  OBVIOUS
<1> USE DEF LS!Init, LS!SessionInit
<1>1. /\ \A S : << >> \in [DOMAIN << >> -> S]
      /\ DOMAIN << >> = {}
  OBVIOUS
<1>2. ConnectionOK
  BY DEF ConnectionOK, LS!KeyIsOfThisConnection, LS!NoWaiterForgotten
<1>3. StartsOK
  <2> DEFINE R == [channel : LiveChannels, sends : 1 .. StartSends]
  <2>1. s10 = << >> /\ s9 = [c \in LiveChannels |-> "no"] /\ s12 = {} /\ s13 = {} /\ s8 = 0 /\ s11 = FALSE
        /\ s2 = "new"
    OBVIOUS
  <2>2. s10 \in [DOMAIN s10 -> R] /\ DOMAIN s10 = {}
    <3> HIDE DEF R
    <3> QED BY <1>1, <2>1
  <2>3. 0 \in 0 .. MaxStarts
    BY SendsAssumption
  <2>4. LS!StartedIsHeard
    BY <2>1 DEF LS!StartedIsHeard
  <2> QED BY <2>1, <2>2, <2>3, <2>4 DEF StartsOK
<1>4. AudioOK
  <2> DEFINE Sends == 1 .. AudioMaxSends
  <2>1. s14 = << >> /\ s15 = 0 /\ s16 = FALSE /\ s17 = FALSE
    OBVIOUS
  <2>2. s14 \in [DOMAIN s14 -> Sends] /\ DOMAIN s14 = {}
    <3> HIDE DEF Sends
    <3> QED BY <1>1, <2>1
  <2>3. 0 \in 0 .. MaxAudio
    BY SendsAssumption
  <2> QED BY <2>1, <2>2, <2>3 DEF AudioOK
<1>5. StreamsOK
  BY DEF StreamsOK, LS!ListeningIsWatched
<1> QED BY <1>2, <1>3, <1>4, <1>5 DEF StreamInv

\* Lemma.  What the invariant says is the type and the properties of the part.
LEMMA StreamMeans ==
  ASSUME StreamInv
  PROVE  /\ LS!TypeOK /\ LS!KeyIsOfThisConnection /\ LS!NoWaiterForgotten
         /\ LS!StartedIsHeard /\ LS!RetainedIsSwept /\ LS!ListeningIsWatched
<1>1. LS!SessionTypeOK
  BY DEF StreamInv, ConnectionOK, StartsOK, AudioOK, LS!SessionTypeOK
<1>2. LS!TypeOK
  BY <1>1 DEF StreamInv, StreamsOK, LS!TypeOK
<1> QED BY <1>2 DEF StreamInv, ConnectionOK, StartsOK, AudioOK, StreamsOK, LS!RetainedIsSwept

-----------------------------------------------------------------------------
(* DeviceState.                                                            *)

Known   == [StateParams -> StateValues]
Working == {"routing", "refreshing", "recycling"}
Actions == [pc : {"idle", "queued", "done"} \cup Working, epoch : Nat, after : ST!Txs \cup {Off},
            want : StateValues \cup {Off}]

\* What is known of the device (s1 list, s2 base, s3 reports, s4 live, s5 told,
\* s6 refresh): a host that holds the Device has been told of it.
ValuesOK ==
  /\ s1 \in Known /\ s2 \in Known /\ s3 \in [StateParams -> StateValues \cup {Off}]
  /\ s4 \in Known \cup {Off} /\ s5 \in Known \cup {Off} /\ s6 \in Known \cup {Off}
  /\ s4 # Off => s5 \in Known

\* The transactions (s7 tx) belong to this connection (s10 epoch) or an earlier.
TxsOK ==
  /\ s10 \in 0 .. MaxEpochs /\ s7 \in [ST!Txs -> Actions]
  /\ \A t \in ST!Txs : s7[t].epoch <= s10

\* The owner of the suppression (s9) is this connection's.
OwnersOK ==
  /\ s9 # Off => s9 \in [epoch : Nat, count : Nat \ {0}] /\ s9.epoch = s10
  /\ ST!OwnerIsOpenWrite

\* The transactions in the order of stateTransitions: each but the first waits
\* for the one before it, the newest is the tail (s8), every open write is one.
InTurn(q) ==
  /\ q \in Seq(ST!Txs)
  /\ \A i, j \in 1 .. Len(q) : q[i] = q[j] => i = j
  /\ \A i \in 1 .. Len(q) : ~ST!Ended(q[i])
  /\ \A i \in 2 .. Len(q) : s7[q[i]].pc = "queued" /\ s7[q[i]].after = q[i - 1]
  /\ \A w \in ST!Open : \E i \in 1 .. Len(q) : q[i] = w
  /\ q = <<>> => s8 = Off
  /\ q # <<>> => s8 = q[Len(q)]

StateInv == ValuesOK /\ TxsOK /\ OwnersOK /\ \E q \in Seq(ST!Txs) : InTurn(q)

\* Whoever is not queued, or queued behind nobody who is unfinished.
MayRun(t) == s7[t].pc = "queued" => s7[t].after = Off \/ ST!Ended(s7[t].after)

\* Lemma.  Only the first of the order may run.
LEMMA FirstRuns ==
  ASSUME NEW q \in Seq(ST!Txs), InTurn(q), NEW i \in 1 .. Len(q), MayRun(q[i])
  PROVE  i = 1
<1> SUFFICES ASSUME i # 1 PROVE FALSE
  OBVIOUS
<1>1. i \in 2 .. Len(q) /\ i - 1 \in 1 .. Len(q)
  OBVIOUS
<1>2. s7[q[i]].pc = "queued" /\ s7[q[i]].after = q[i - 1] /\ ~ST!Ended(q[i - 1])
  BY <1>1 DEF InTurn
<1>3. q[i - 1] \in ST!Txs
  BY <1>1
<1> QED BY <1>2, <1>3, WritesAssumption DEF MayRun, ST!Txs

\* Lemma.  DeviceState counts as the library's theorems do.
LEMMA SameCount == \A S : ST!Cardinality(S) = Cardinality(S)
BY Zenon DEF ST!Cardinality, Cardinality

\* Lemma.  The open writes are finitely many.
LEMMA OpenIsFinite ==
  /\ IsFiniteSet(ST!Open) /\ Cardinality(ST!Open) \in Nat
  /\ Cardinality(ST!Open) <= Cardinality(ObservedWrites) /\ Cardinality(ObservedWrites) \in Nat
<1>1. ST!Open \subseteq ObservedWrites
  BY DEF ST!Open
<1> QED BY <1>1, WritesAssumption, FS_Subset, FS_CardinalityType

\* Lemma.  What the paths by which a value comes in do: they leave the
\* transactions alone.
LEMMA ValueSteps ==
  ASSUME ValuesOK,
         \/ ST!ListLands \/ ST!GetDevice \/ ST!ScheduleRefresh \/ ST!RefreshLands \/ ST!PollOnce
         \/ \E p \in StateParams, v \in StateValues : ST!ApplyRealtimeState(p, v)
  PROVE  ValuesOK' /\ UNCHANGED <<s7, s8, s9, s10>>
<1> USE DEF ST!Records
<1>0. /\ s1 \in Known /\ s2 \in Known /\ s3 \in [StateParams -> StateValues \cup {Off}]
      /\ s4 \in Known \cup {Off} /\ s5 \in Known \cup {Off} /\ s6 \in Known \cup {Off}
      /\ s4 # Off => s5 \in Known
  BY DEF ValuesOK
<1>1. ASSUME NEW rec \in Known PROVE ST!Joined(rec) \in Known
  BY <1>0 DEF ST!Joined, Known
<1>2. ASSUME NEW ids \in SUBSET StateParams, NEW rec, \A p \in ids : rec[p] \in StateValues,
             ST!ApplyAndAnnounce(ids, rec)
      PROVE  s4' \in Known \cup {Off} /\ s5' \in Known \cup {Off} /\ (s4' # Off => s5' \in Known)
  <2>1. CASE s4 = Off
    BY <1>0, <1>2, <2>1 DEF ST!ApplyAndAnnounce
  <2>2. CASE s4 # Off
    <3>1. /\ s4' = [p \in StateParams |-> IF p \in ids THEN rec[p] ELSE s4[p]]
          /\ s5' = [p \in StateParams |-> IF s4'[p] # s4[p] THEN s4'[p] ELSE s5[p]]
      BY <1>2, <2>2 DEF ST!ApplyAndAnnounce
    <3>2. s4' \in Known
      BY <1>0, <1>2, <2>2, <3>1 DEF Known
    <3>3. s5' \in Known
      BY <1>0, <2>2, <3>1, <3>2 DEF Known
    <3> QED BY <3>2, <3>3
  <2> QED BY <2>1, <2>2
<1>3. CASE ST!ListLands
  BY <1>0, <1>3 DEF ST!ListLands, ValuesOK, Known
<1>4. CASE ST!GetDevice
  <2>1. PICK rec \in Known : s4' = ST!Joined(rec) /\ s5' = s4'
    BY <1>4 DEF ST!GetDevice, Known
  <2> QED BY <1>0, <1>1, <1>4, <2>1 DEF ST!GetDevice, ValuesOK
<1>5. CASE ST!ScheduleRefresh
  BY <1>0, <1>5 DEF ST!ScheduleRefresh, ValuesOK, Known
<1>6. CASE ST!RefreshLands
  <2>1. ST!Joined(s6) \in Known /\ ST!ApplyAndAnnounce(StateParams, ST!Joined(s6))
    BY <1>0, <1>1, <1>6 DEF ST!RefreshLands
  <2>2. \A p \in StateParams : ST!Joined(s6)[p] \in StateValues
    BY <2>1 DEF Known
  <2>3. s4' \in Known \cup {Off} /\ s5' \in Known \cup {Off} /\ (s4' # Off => s5' \in Known)
    BY <1>2, <2>1, <2>2
  <2> QED BY <1>0, <1>6, <2>3 DEF ST!RefreshLands, ValuesOK
<1>7. CASE ST!PollOnce
  <2>1. PICK rec \in Known :
          LET moved == {p \in StateParams : s2[p] # rec[p]} IN
          /\ s1' = rec /\ s2' = rec
          /\ s3' = [p \in StateParams |-> IF p \in moved THEN Off ELSE s3[p]]
          /\ ST!ApplyAndAnnounce(moved, rec)
          /\ UNCHANGED <<s6, s7, s8, s9, s10>>
    BY <1>7 DEF ST!PollOnce, Known
  <2> DEFINE moved == {p \in StateParams : s2[p] # rec[p]}
  <2>2. moved \in SUBSET StateParams /\ \A p \in moved : rec[p] \in StateValues
    BY DEF Known
  <2>3. s4' \in Known \cup {Off} /\ s5' \in Known \cup {Off} /\ (s4' # Off => s5' \in Known)
    BY <1>2, <2>1, <2>2
  <2>4. s3' \in [StateParams -> StateValues \cup {Off}]
    BY <1>0, <2>1
  <2> QED BY <1>0, <2>1, <2>3, <2>4 DEF ValuesOK
<1>8. ASSUME NEW p \in StateParams, NEW v \in StateValues, ST!ApplyRealtimeState(p, v)
      PROVE  ValuesOK' /\ UNCHANGED <<s7, s8, s9, s10>>
  <2>1. /\ s3' = [s3 EXCEPT ![p] = v] /\ ST!ApplyAndAnnounce({p}, [q \in {p} |-> v])
        /\ UNCHANGED <<s1, s2, s6, s7, s8, s9, s10>>
    BY <1>8 DEF ST!ApplyRealtimeState
  <2>2. s4' \in Known \cup {Off} /\ s5' \in Known \cup {Off} /\ (s4' # Off => s5' \in Known)
    BY <1>2, <2>1
  <2> QED BY <1>0, <2>1, <2>2 DEF ValuesOK
<1> QED BY <1>3, <1>4, <1>5, <1>6, <1>7, <1>8

\* Lemma.  A transaction that gets in line gets in behind the tail
\* (enqueueStateTransition).
LEMMA Queues ==
  ASSUME StateInv, NEW t \in ST!Txs, NEW r, s7[t].pc = "idle", s7' = [s7 EXCEPT ![t] = r],
         r \in Actions, r.pc = "queued", r.epoch = s10, r.after = s8, s8' = t, s10' = s10
  PROVE  /\ TxsOK' /\ (\E q \in Seq(ST!Txs) : InTurn(q))'
         /\ ST!Open' = ST!Open \cup ({t} \cap ObservedWrites) /\ t \notin ST!Open
<1>0. TxsOK /\ \A u \in ST!Txs : s7'[u] = IF u = t THEN r ELSE s7[u]
  BY DEF StateInv, TxsOK
<1>1. TxsOK'
  BY <1>0 DEF TxsOK
<1>2. /\ \A u \in ST!Txs \ {t} : ST!Ended(u)' = ST!Ended(u)
      /\ ~ST!Ended(t)' /\ ST!Ended(t)
  BY <1>0 DEF ST!Ended
<1>3. ST!Open' = ST!Open \cup ({t} \cap ObservedWrites) /\ t \notin ST!Open
  BY <1>0, <1>2 DEF ST!Open, ST!Txs
<1>4. PICK q \in Seq(ST!Txs) : InTurn(q)
  BY DEF StateInv
<1> DEFINE n == Len(q)
           p == Append(q, t)
<1>5. /\ n \in Nat /\ p \in Seq(ST!Txs) /\ Len(p) = n + 1 /\ p[n + 1] = t
      /\ \A i \in 1 .. n : p[i] = q[i] /\ q[i] \in ST!Txs
      /\ q = <<>> <=> n = 0
  OBVIOUS
<1>6. \A i \in 1 .. n : q[i] # t
  BY <1>2, <1>4 DEF InTurn
<1> HIDE DEF p, n
<1>7. \A i \in 1 .. n + 1 : i \in 1 .. n \/ i = n + 1
  BY <1>5
<1>8. InTurn(p)'
  <2>1. ASSUME NEW i \in 1 .. n + 1, NEW j \in 1 .. n + 1, p[i] = p[j] PROVE i = j
    <3>1. \A k, l \in 1 .. n : q[k] = q[l] => k = l
      BY <1>4 DEF InTurn, n
    <3> QED BY <1>5, <1>6, <1>7, <2>1, <3>1
  <2>2. ASSUME NEW i \in 1 .. n + 1 PROVE ~ST!Ended(p[i])'
    <3>1. \A k \in 1 .. n : ~ST!Ended(q[k])
      BY <1>4 DEF InTurn, n
    <3>2. CASE i \in 1 .. n
      BY <1>2, <1>5, <1>6, <3>1, <3>2
    <3>3. CASE i = n + 1
      BY <1>2, <1>5, <3>3
    <3> QED BY <1>7, <3>2, <3>3
  <2>3. ASSUME NEW i \in 2 .. n + 1 PROVE s7'[p[i]].pc = "queued" /\ s7'[p[i]].after = p[i - 1]
    <3>1. CASE i \in 2 .. n
      <4>1. i \in 1 .. n /\ i - 1 \in 1 .. n
        BY <1>5, <3>1
      <4>2. s7[q[i]].pc = "queued" /\ s7[q[i]].after = q[i - 1]
        BY <1>4, <3>1 DEF InTurn, n
      <4> QED BY <1>0, <1>5, <1>6, <4>1, <4>2
    <3>2. CASE i = n + 1
      <4>1. n \in 1 .. n /\ n # 0 /\ i - 1 = n
        BY <1>5, <2>3, <3>2
      <4>2. s8 = q[n]
        BY <1>4, <1>5, <4>1 DEF InTurn, n
      <4> QED BY <1>0, <1>5, <3>2, <4>1, <4>2
    <3>3. i \in 2 .. n \/ i = n + 1
      BY <1>5
    <3> QED BY <3>1, <3>2, <3>3
  <2>4. ASSUME NEW w \in ST!Open' PROVE \E i \in 1 .. n + 1 : p[i] = w
    <3>1. CASE w \in ST!Open
      <4>1. PICK i \in 1 .. n : q[i] = w
        BY <1>4, <3>1 DEF InTurn, n
      <4>2. i \in 1 .. n + 1 /\ p[i] = w
        BY <1>5, <4>1
      <4> QED BY <4>2
    <3>2. CASE w = t
      <4>1. n + 1 \in 1 .. n + 1
        BY <1>5
      <4> QED BY <1>5, <3>2, <4>1
    <3> QED BY <1>3, <2>4, <3>1, <3>2
  <2>5. p # <<>> /\ s8' = p[Len(p)]
    BY <1>5
  <2> QED BY <1>5, <2>1, <2>2, <2>3, <2>4, <2>5 DEF InTurn
<1> QED BY <1>1, <1>3, <1>5, <1>8

\* Lemma.  A transaction that runs and goes on keeps its place (Begin, Routed,
\* Settles).
LEMMA GoesOn ==
  ASSUME StateInv, NEW t \in ST!Txs, NEW r, ~ST!Ended(t), MayRun(t), s7' = [s7 EXCEPT ![t] = r],
         r \in Actions, r.pc \in Working, r.epoch <= s10, t \in ObservedWrites => r.epoch = s7[t].epoch,
         s8' = s8, s10' = s10
  PROVE  TxsOK' /\ (\E q \in Seq(ST!Txs) : InTurn(q))' /\ ST!Open' = ST!Open
<1>0. TxsOK /\ \A u \in ST!Txs : s7'[u] = IF u = t THEN r ELSE s7[u]
  BY DEF StateInv, TxsOK
<1>1. TxsOK'
  BY <1>0 DEF TxsOK
<1>2. \A u \in ST!Txs : ST!Ended(u)' = ST!Ended(u)
  BY <1>0 DEF ST!Ended, Working
<1>3. ST!Open' = ST!Open
  BY <1>0, <1>2 DEF ST!Open, ST!Txs
<1>4. PICK q \in Seq(ST!Txs) : InTurn(q)
  BY DEF StateInv
<1>5. \A i \in 1 .. Len(q) : q[i] \in ST!Txs
  OBVIOUS
<1>6. ASSUME NEW i \in 2 .. Len(q) PROVE s7'[q[i]].pc = "queued" /\ s7'[q[i]].after = q[i - 1]
  <2>1. i \in 1 .. Len(q) /\ i # 1
    OBVIOUS
  <2>2. q[i] # t
    BY <1>4, <2>1, FirstRuns
  <2> QED BY <1>0, <1>4, <1>5, <2>1, <2>2 DEF InTurn
<1>7. InTurn(q)'
  BY <1>2, <1>3, <1>4, <1>5, <1>6 DEF InTurn
<1> QED BY <1>1, <1>3, <1>7

\* Lemma.  A transaction that ends leaves the order, and is counted no longer
\* where it was counted: by the owner of its own connection (release).
LEMMA Ends ==
  ASSUME StateInv, NEW t \in ST!Txs, ~ST!Ended(t), MayRun(t), ST!End(t), s10' = s10
  PROVE  TxsOK' /\ OwnersOK' /\ (\E q \in Seq(ST!Txs) : InTurn(q))'
<1> DEFINE r == [ST!Idle EXCEPT !.pc = "done"]
<1>0. /\ TxsOK /\ OwnersOK
      /\ r \in Actions /\ r.pc = "done" /\ r.epoch = 0
      /\ \A u \in ST!Txs : s7'[u] = IF u = t THEN r ELSE s7[u]
      /\ s7' \in [ST!Txs -> Actions]
      /\ s8' = (IF s8 = t THEN Off ELSE s8)
      /\ s9' = (IF t \in ObservedWrites THEN ST!Released(t) ELSE s9)
  BY DEF StateInv, TxsOK, ST!End, ST!Idle, Actions
<1> HIDE DEF r
<1>1. TxsOK'
  BY <1>0 DEF TxsOK
<1>2. /\ \A u \in ST!Txs \ {t} : ST!Ended(u)' = ST!Ended(u)
      /\ ST!Ended(t)'
  BY <1>0 DEF ST!Ended
<1>3. ST!Open' = ST!Open \ {t} /\ (t \in ST!Open <=> t \in ObservedWrites /\ s7[t].epoch = s10)
  BY <1>0, <1>2 DEF ST!Open, ST!Txs
<1>4. (\E q \in Seq(ST!Txs) : InTurn(q))'
  <2>1. PICK q \in Seq(ST!Txs) : InTurn(q)
    BY DEF StateInv
  <2>2. \A i \in 1 .. Len(q) : q[i] \in ST!Txs
    OBVIOUS
  <2>3. \A i \in 1 .. Len(q) : q[i] = t => i = 1
    BY <2>1, FirstRuns
  <2>4. CASE \E i \in 1 .. Len(q) : q[i] = t
    <3> DEFINE n == Len(q)
               p == Tail(q)
    <3>1. q[1] = t /\ n \in Nat \ {0} /\ q # <<>>
      BY <2>3, <2>4
    <3>2. /\ p \in Seq(ST!Txs) /\ Len(p) = n - 1
          /\ \A i \in 1 .. n - 1 : p[i] = q[i + 1] /\ i + 1 \in 1 .. n /\ i + 1 # 1
          /\ p = <<>> <=> n = 1
      <4>1. /\ p \in Seq(ST!Txs) /\ Len(p) = n - 1
            /\ \A i \in 1 .. n - 1 : p[i] = q[i + 1]
        BY <3>1, HeadTailProperties
      <4>2. \A i \in 1 .. n - 1 : i + 1 \in 1 .. n /\ i + 1 # 1
        BY <3>1
      <4>3. Len(p) = 0 <=> p = <<>>
        BY <4>1, EmptySeq
      <4> QED BY <3>1, <4>1, <4>2, <4>3
    <3>3. /\ \A i, j \in 1 .. n : q[i] = q[j] => i = j
          /\ \A i \in 1 .. n : ~ST!Ended(q[i])
          /\ \A i \in 2 .. n : s7[q[i]].pc = "queued" /\ s7[q[i]].after = q[i - 1]
          /\ \A w \in ST!Open : \E i \in 1 .. n : q[i] = w
          /\ s8 = q[n]
      BY <2>1, <3>1 DEF InTurn
    <3>4. \A i \in 1 .. n : q[i] \in ST!Txs /\ (q[i] = t => i = 1)
      BY <2>2, <2>3
    <3> HIDE DEF n, p
    <3>5. ASSUME NEW i \in 1 .. n - 1, NEW j \in 1 .. n - 1, p[i] = p[j] PROVE i = j
      <4>1. i + 1 \in 1 .. n /\ j + 1 \in 1 .. n /\ q[i + 1] = q[j + 1]
        BY <3>2, <3>5
      <4>2. i + 1 = j + 1
        BY <3>3, <4>1
      <4> QED BY <3>1, <4>2
    <3>6. ASSUME NEW i \in 1 .. n - 1 PROVE ~ST!Ended(p[i])'
      <4>1. p[i] = q[i + 1] /\ i + 1 \in 1 .. n /\ q[i + 1] # t /\ q[i + 1] \in ST!Txs /\ ~ST!Ended(q[i + 1])
        BY <3>2, <3>3, <3>4
      <4> QED BY <1>2, <4>1
    <3>7. ASSUME NEW i \in 2 .. n - 1 PROVE s7'[p[i]].pc = "queued" /\ s7'[p[i]].after = p[i - 1]
      <4>1. i \in 1 .. n - 1 /\ i - 1 \in 1 .. n - 1 /\ i + 1 \in 2 .. n /\ (i - 1) + 1 = i /\ (i + 1) - 1 = i
        BY <3>1
      <4>2. p[i] = q[i + 1] /\ p[i - 1] = q[i] /\ q[i + 1] # t /\ q[i + 1] \in ST!Txs
        BY <3>2, <3>4, <4>1
      <4>3. s7[q[i + 1]].pc = "queued" /\ s7[q[i + 1]].after = q[i]
        BY <3>3, <4>1
      <4> QED BY <1>0, <4>2, <4>3
    <3>8. ASSUME NEW w \in ST!Open' PROVE \E i \in 1 .. n - 1 : p[i] = w
      <4>1. w \in ST!Open /\ w # t
        BY <1>3, <3>8
      <4>2. PICK i \in 1 .. n : q[i] = w
        BY <3>3, <4>1
      <4>3. i # 1
        BY <3>1, <4>1, <4>2
      <4>4. i - 1 \in 1 .. n - 1 /\ (i - 1) + 1 = i
        BY <3>1, <4>3
      <4>5. p[i - 1] = w
        BY <3>2, <4>2, <4>4
      <4> QED BY <4>4, <4>5
    <3>9. (p = <<>> => s8' = Off) /\ (p # <<>> => s8' = p[n - 1])
      <4>1. CASE n = 1
        BY <1>0, <3>1, <3>2, <3>3, <4>1
      <4>2. CASE n # 1
        <5>1. n \in 1 .. n /\ n - 1 \in 1 .. n - 1 /\ (n - 1) + 1 = n
          BY <3>1, <4>2
        <5>2. q[n] # t /\ p[n - 1] = q[n] /\ p # <<>>
          BY <3>2, <3>4, <4>2, <5>1
        <5> QED BY <1>0, <3>3, <5>2
      <4> QED BY <4>1, <4>2
    <3>10. InTurn(p)'
      BY <3>2, <3>5, <3>6, <3>7, <3>8, <3>9 DEF InTurn
    <3> QED BY <3>2, <3>10
  <2>5. CASE ~\E i \in 1 .. Len(q) : q[i] = t
    <3>1. \A i \in 1 .. Len(q) : q[i] \in ST!Txs /\ q[i] # t
      BY <2>2, <2>5
    <3>2. \A i \in 1 .. Len(q) : ~ST!Ended(q[i])'
      BY <1>2, <2>1, <3>1 DEF InTurn
    <3>3. \A i \in 2 .. Len(q) : s7'[q[i]].pc = "queued" /\ s7'[q[i]].after = q[i - 1]
      <4> SUFFICES ASSUME NEW i \in 2 .. Len(q)
                   PROVE  s7'[q[i]].pc = "queued" /\ s7'[q[i]].after = q[i - 1]
        OBVIOUS
      <4>1. i \in 1 .. Len(q)
        OBVIOUS
      <4> QED BY <1>0, <2>1, <3>1, <4>1 DEF InTurn
    <3>4. s8' = s8
      <4>1. q # <<>> => Len(q) \in 1 .. Len(q)
        OBVIOUS
      <4>2. s8 # t
        BY <2>1, <3>1, <4>1, WritesAssumption DEF InTurn, ST!Txs
      <4> QED BY <1>0, <4>2
    <3>5. InTurn(q)'
      BY <1>3, <2>1, <3>2, <3>3, <3>4 DEF InTurn
    <3> QED BY <3>5
  <2> QED BY <2>4, <2>5
<1>5. OwnersOK'
  <2> DEFINE c == Cardinality(ST!Open)
  <2>0. c \in Nat /\ IsFiniteSet(ST!Open)
    BY OpenIsFinite
  <2>1. CASE t \in ST!Open
    <3> DEFINE o == ST!Open \ {t}
    <3>1. Cardinality(ST!Open') = c - 1 /\ c - 1 \in Nat
      <4>1. IsFiniteSet(o) /\ Cardinality(o) = c - 1
        BY <2>0, <2>1, FS_RemoveElement
      <4>2. Cardinality(o) \in Nat
        BY <4>1, FS_CardinalityType
      <4>3. ST!Open' = o
        BY <1>3
      <4> HIDE DEF o
      <4> QED BY <4>1, <4>2, <4>3
    <3>2. s9 # Off /\ s9.epoch = s10 /\ c = s9.count
      <4> HIDE DEF c
      <4>1. c = IF s9 # Off /\ s9.epoch = s10 THEN s9.count ELSE 0
        BY <1>0, SameCount DEF OwnersOK, ST!OwnerIsOpenWrite, c
      <4> QED BY <2>0, <3>1, <4>1
    <3>3. s9 \in [epoch : Nat, count : Nat \ {0}]
      BY <1>0, <3>2 DEF OwnersOK
    <3>4. s9' = IF s9.count = 1 THEN Off ELSE [s9 EXCEPT !.count = @ - 1]
      BY <1>0, <1>3, <2>1, <3>2 DEF ST!Released
    <3>5. CASE s9.count = 1
      BY <3>1, <3>2, <3>4, <3>5, SameCount DEF OwnersOK, ST!OwnerIsOpenWrite
    <3>6. CASE s9.count # 1
      <4>1. s9' = [s9 EXCEPT !.count = s9.count - 1] /\ s9.count - 1 \in Nat \ {0}
        BY <3>3, <3>4, <3>6
      <4>2. s9' \in [epoch : Nat, count : Nat \ {0}] /\ s9'.epoch = s10' /\ s9'.count = c - 1
        BY <3>2, <3>3, <4>1
      <4>3. s9' # Off
        <5>1. s9' \in [epoch : Nat, count : Nat]
          BY <4>2
        <5> QED BY <5>1, WritesAssumption
      <4> QED BY <3>1, <4>2, <4>3, SameCount DEF OwnersOK, ST!OwnerIsOpenWrite
    <3> QED BY <3>5, <3>6
  <2>2. CASE t \notin ST!Open
    <3>1. ST!Open' = ST!Open
      BY <1>3, <2>2
    <3>2. s9' = s9
      BY <1>0, <1>3, <2>2 DEF ST!Released, OwnersOK
    <3> QED BY <1>0, <3>1, <3>2 DEF OwnersOK, ST!OwnerIsOpenWrite
  <2> QED BY <2>1, <2>2
<1> QED BY <1>1, <1>4, <1>5

\* Lemma.  As long as nobody gets in line, goes on or ends, all of it stays.
LEMMA Rests ==
  ASSUME StateInv, UNCHANGED <<s7, s8, s9, s10>>
  PROVE  TxsOK' /\ OwnersOK' /\ (\E q \in Seq(ST!Txs) : InTurn(q))'
<1>1. ST!Open' = ST!Open /\ \A t : ST!Ended(t)' = ST!Ended(t)
  BY DEF ST!Open, ST!Ended
<1>2. TxsOK'
  BY DEF StateInv, TxsOK
<1>3. OwnersOK'
  BY <1>1 DEF StateInv, OwnersOK, ST!OwnerIsOpenWrite
<1>4. PICK q \in Seq(ST!Txs) : InTurn(q)
  BY DEF StateInv
<1>5. InTurn(q)'
  BY <1>1, <1>4 DEF InTurn
<1> QED BY <1>2, <1>3, <1>5

\* Lemma.  A new write is counted in the owner of its connection
\* (commandRefreshes).
LEMMA Counted ==
  ASSUME StateInv, NEW w \in ObservedWrites, NEW v \in StateValues, ST!Dispatch(w, v)
  PROVE  StateInv'
<1> DEFINE r == [pc |-> "queued", epoch |-> s10, after |-> s8, want |-> v]
           c == Cardinality(ST!Open)
<1>0. /\ TxsOK /\ OwnersOK /\ ValuesOK /\ w \in ST!Txs /\ s10 \in Nat
      /\ s8 \in ST!Txs \cup {Off}
  <2>1. PICK q \in Seq(ST!Txs) : InTurn(q)
    BY DEF StateInv
  <2>2. s8 \in ST!Txs \cup {Off}
    BY <2>1 DEF InTurn
  <2>3. s10 \in Nat
    BY SendsAssumption DEF StateInv, TxsOK
  <2> QED BY <2>2, <2>3 DEF StateInv, ST!Txs
<1>1. /\ s7[w].pc = "idle" /\ s7' = [s7 EXCEPT ![w] = r] /\ s8' = w /\ s10' = s10
      /\ UNCHANGED <<s1, s2, s3, s4, s5, s6>>
      /\ s9' = IF s9 # Off /\ s9.epoch = s10 THEN [s9 EXCEPT !.count = @ + 1] ELSE [epoch |-> s10, count |-> 1]
  BY DEF ST!Dispatch, ST!Predecessor, ST!values
<1>2. r \in Actions /\ r.pc = "queued" /\ r.epoch = s10 /\ r.after = s8
  BY <1>0 DEF Actions
<1> HIDE DEF r
<1>3. /\ TxsOK' /\ (\E q \in Seq(ST!Txs) : InTurn(q))'
      /\ ST!Open' = ST!Open \cup {w} /\ w \notin ST!Open
  <2>1. /\ TxsOK' /\ (\E q \in Seq(ST!Txs) : InTurn(q))'
        /\ ST!Open' = ST!Open \cup ({w} \cap ObservedWrites) /\ w \notin ST!Open
    BY <1>0, <1>1, <1>2, Queues
  <2>2. {w} \cap ObservedWrites = {w}
    OBVIOUS
  <2> QED BY <2>1, <2>2
<1>4. Cardinality(ST!Open') = c + 1 /\ c \in Nat
  <2> DEFINE o == ST!Open \cup {w}
  <2>1. Cardinality(o) = c + 1 /\ c \in Nat
    BY <1>3, OpenIsFinite, FS_AddElement
  <2>2. ST!Open' = o
    BY <1>3
  <2> HIDE DEF o
  <2> QED BY <2>1, <2>2
<1>5. c = IF s9 # Off THEN s9.count ELSE 0
  BY <1>0, SameCount DEF OwnersOK, ST!OwnerIsOpenWrite
<1> HIDE DEF c
<1>6. s9' \in [epoch : Nat, count : Nat \ {0}] /\ s9'.epoch = s10 /\ s9'.count = c + 1
  <2>1. CASE s9 # Off
    <3>1. s9 \in [epoch : Nat, count : Nat \ {0}] /\ s9.epoch = s10
      BY <1>0, <2>1 DEF OwnersOK
    <3> QED BY <1>1, <1>5, <2>1, <3>1
  <2>2. CASE s9 = Off
    BY <1>0, <1>1, <1>5, <2>2
  <2> QED BY <2>1, <2>2
<1>7. s9' # Off
  <2>1. s9' \in [epoch : Nat, count : Nat]
    BY <1>6
  <2> QED BY <2>1, WritesAssumption
<1>8. OwnersOK'
  BY <1>1, <1>4, <1>6, <1>7, SameCount DEF OwnersOK, ST!OwnerIsOpenWrite
<1>9. ValuesOK'
  BY <1>0, <1>1 DEF ValuesOK
<1> QED BY <1>3, <1>8, <1>9 DEF StateInv

\* Lemma.  Every step of the facade keeps the writes of a member in turn.
LEMMA StateStep ==
  ASSUME StateInv, ST!Next
  PROVE  StateInv'
<1>0. ValuesOK /\ TxsOK /\ OwnersOK
  BY DEF StateInv
<1>a. UNCHANGED ST!values => ValuesOK'
  BY <1>0 DEF ST!values, ValuesOK
<1>b. ASSUME NEW t \in ST!Txs, NEW r, ~ST!Ended(t), MayRun(t), s7' = [s7 EXCEPT ![t] = r],
             r \in Actions, r.pc \in Working, r.epoch <= s10, t \in ObservedWrites => r.epoch = s7[t].epoch,
             UNCHANGED <<s8, s9, s10>>, ValuesOK'
      PROVE  StateInv'
  <2>1. TxsOK' /\ (\E q \in Seq(ST!Txs) : InTurn(q))' /\ ST!Open' = ST!Open
    BY <1>b, GoesOn
  <2>2. OwnersOK'
    BY <1>0, <1>b, <2>1 DEF OwnersOK, ST!OwnerIsOpenWrite
  <2> QED BY <1>b, <2>1, <2>2 DEF StateInv
<1>c. ASSUME NEW t \in ST!Txs, ~ST!Ended(t), MayRun(t), ST!End(t), s10' = s10, ValuesOK'
      PROVE  StateInv'
  BY <1>c, Ends DEF StateInv
<1>d. /\ s10 \in Nat
      /\ \A t \in ST!Txs : s7[t] \in Actions /\ s7[t].epoch <= s10 /\ s7[t].epoch \in Nat
      /\ \A t : t \in ST!Txs <=> t \in ObservedWrites \/ t \in Rereads
      /\ \A t \in Rereads : t \notin ObservedWrites
  BY <1>0, SendsAssumption, WritesAssumption DEF TxsOK, Actions, ST!Txs
<1>1. CASE \/ ST!ListLands \/ ST!GetDevice \/ ST!ScheduleRefresh \/ ST!RefreshLands \/ ST!PollOnce
           \/ \E p \in StateParams, v \in StateValues : ST!ApplyRealtimeState(p, v)
  <2>1. ValuesOK' /\ UNCHANGED <<s7, s8, s9, s10>>
    BY <1>0, <1>1, ValueSteps
  <2> QED BY <2>1, Rests DEF StateInv
<1>2. CASE ST!Disconnect
  <2>1. s10' = s10 + 1 /\ s10 < MaxEpochs /\ s8' = Off /\ s9' = Off /\ s7' = s7 /\ UNCHANGED ST!values
    BY <1>2 DEF ST!Disconnect
  <2>2. TxsOK'
    BY <1>0, <1>d, <2>1, SendsAssumption DEF TxsOK
  <2>3. ST!Open' = {}
    BY <1>d, <2>1 DEF ST!Open
  <2>4. Cardinality(ST!Open') = 0
    BY <2>3, FS_EmptySet
  <2>5. OwnersOK'
    BY <2>1, <2>4, SameCount DEF OwnersOK, ST!OwnerIsOpenWrite
  <2>6. <<>> \in Seq(ST!Txs) /\ Len(<<>>) = 0 /\ 1 .. 0 = {} /\ 2 .. 0 = {}
    OBVIOUS
  <2>7. InTurn(<<>>)'
    BY <2>1, <2>3, <2>6 DEF InTurn
  <2> QED BY <1>a, <2>1, <2>2, <2>5, <2>6, <2>7 DEF StateInv
<1>3. ASSUME NEW w \in ObservedWrites, NEW v \in StateValues, ST!Dispatch(w, v) PROVE StateInv'
  BY <1>3, Counted
<1>4. ASSUME NEW e \in Rereads, ST!EmitSemantic(e) PROVE StateInv'
  <2> DEFINE r == [pc |-> "queued", epoch |-> s10, after |-> s8, want |-> Off]
  <2>1. /\ s7[e].pc = "idle" /\ s7' = [s7 EXCEPT ![e] = r] /\ s8' = e /\ UNCHANGED <<ST!values, s9, s10>>
    BY <1>4 DEF ST!EmitSemantic, ST!Predecessor
  <2>2. s8 \in ST!Txs \cup {Off} /\ e \in ST!Txs
    <3>1. PICK q \in Seq(ST!Txs) : InTurn(q)
      BY DEF StateInv
    <3> QED BY <1>d, <3>1 DEF InTurn
  <2>3. r \in Actions /\ r.pc = "queued" /\ r.epoch = s10 /\ r.after = s8
    BY <1>d, <2>2 DEF Actions
  <2> HIDE DEF r
  <2>4. /\ TxsOK' /\ (\E q \in Seq(ST!Txs) : InTurn(q))'
        /\ ST!Open' = ST!Open \cup ({e} \cap ObservedWrites)
    BY <2>1, <2>2, <2>3, Queues
  <2>5. ST!Open' = ST!Open
    BY <1>d, <2>4
  <2>6. OwnersOK'
    BY <1>0, <2>1, <2>5 DEF OwnersOK, ST!OwnerIsOpenWrite
  <2> QED BY <1>a, <2>1, <2>4, <2>6 DEF StateInv
<1>5. ASSUME NEW t \in ST!Txs, ST!Begin(t) PROVE StateInv'
  <2>1. /\ s7[t].pc = "queued" /\ ~ST!Ended(t) /\ MayRun(t) /\ UNCHANGED <<ST!values, s10>>
    BY <1>5 DEF ST!Begin, ST!Ended, MayRun
  <2>2. CASE t \in Rereads
    <3> DEFINE x == IF s4 = Off THEN Off ELSE s4[Observed]
               r == [s7[t] EXCEPT !.pc = "refreshing", !.epoch = s10, !.after = Off, !.want = x]
    <3>1. s7' = [s7 EXCEPT ![t] = r] /\ UNCHANGED <<s8, s9>>
      BY <1>5, <2>2 DEF ST!Begin
    <3>2. x \in StateValues \cup {Off}
      BY <1>0, WritesAssumption DEF ValuesOK, Known
    <3> HIDE DEF x
    <3>3. r \in Actions /\ r.pc = "refreshing" /\ r.epoch = s10
      BY <1>d, <3>2 DEF Actions, Working
    <3> HIDE DEF r
    <3>4. r.pc \in Working /\ r.epoch <= s10 /\ t \notin ObservedWrites /\ ValuesOK'
      BY <1>a, <1>d, <2>1, <2>2, <3>3 DEF Working
    <3> QED BY <1>b, <2>1, <3>1, <3>3, <3>4
  <2>3. CASE t \notin Rereads /\ s7[t].epoch = s10
    <3> DEFINE r == [s7[t] EXCEPT !.pc = "routing", !.after = Off]
    <3>1. s7' = [s7 EXCEPT ![t].pc = "routing", ![t].after = Off] /\ UNCHANGED <<s8, s9>>
      BY <1>5, <2>3 DEF ST!Begin
    <3>2. s7' = [s7 EXCEPT ![t] = r]
      BY <1>0, <1>d, <3>1 DEF TxsOK, Actions
    <3>3. r \in Actions /\ r.pc = "routing" /\ r.epoch = s10
      BY <1>d, <2>3 DEF Actions, Working
    <3> HIDE DEF r
    <3> QED BY <1>a, <1>b, <1>d, <2>1, <2>3, <3>1, <3>2, <3>3 DEF Working
  <2>4. CASE t \notin Rereads /\ s7[t].epoch # s10
    <3>1. ST!End(t)
      BY <1>5, <2>4 DEF ST!Begin
    <3> QED BY <1>a, <1>c, <2>1, <3>1
  <2> QED BY <2>2, <2>3, <2>4
<1>6. ASSUME NEW t \in ST!Txs, ST!Routed(t) PROVE StateInv'
  <2> DEFINE r == [s7[t] EXCEPT !.pc = "refreshing"]
  <2>1. /\ s7[t].pc = "routing" /\ s7' = [s7 EXCEPT ![t].pc = "refreshing"]
        /\ UNCHANGED <<ST!values, s8, s9, s10>>
    BY <1>6 DEF ST!Routed
  <2>2. s7' = [s7 EXCEPT ![t] = r]
    BY <2>1
  <2>3. r \in Actions /\ r.pc = "refreshing" /\ r.epoch = s7[t].epoch
    BY <1>d DEF Actions, Working
  <2>4. ~ST!Ended(t) /\ MayRun(t)
    BY <2>1 DEF ST!Ended, MayRun
  <2> HIDE DEF r
  <2> QED BY <1>a, <1>b, <1>d, <2>1, <2>2, <2>3, <2>4 DEF Working
<1>7. ASSUME NEW t \in ST!Txs, ST!RouteFails(t) \/ ST!Recycled(t) \/ ST!GivesUp(t) PROVE StateInv'
  <2>1. s7[t].pc \in Working /\ ST!End(t) /\ UNCHANGED <<ST!values, s10>>
    BY <1>7 DEF ST!RouteFails, ST!Recycled, ST!GivesUp, Working
  <2>2. ~ST!Ended(t) /\ MayRun(t)
    BY <2>1 DEF ST!Ended, MayRun, Working
  <2> QED BY <1>a, <1>c, <2>1, <2>2
<1>8. ASSUME NEW t \in ST!Txs, ST!Settles(t) PROVE StateInv'
  <2>1. /\ s7[t].pc = "refreshing" /\ UNCHANGED <<s1, s2, s3, s6, s10>>
        /\ IF s4 = Off THEN UNCHANGED <<s4, s5>> ELSE s4' = s1 /\ s5' = [s5 EXCEPT ![Observed] = s1[Observed]]
    BY <1>8 DEF ST!Settles
  <2>2. ~ST!Ended(t) /\ MayRun(t)
    BY <2>1 DEF ST!Ended, MayRun
  <2>3. ValuesOK'
    <3>1. s1[Observed] \in StateValues
      BY <1>0, WritesAssumption DEF ValuesOK, Known
    <3>2. s4 # Off => s5' \in Known
      BY <1>0, <2>1, <3>1 DEF ValuesOK, Known
    <3> QED BY <1>0, <2>1, <3>2 DEF ValuesOK
  <2>4. CASE ST!End(t)
    BY <1>c, <2>1, <2>2, <2>3, <2>4
  <2>5. CASE ~ST!End(t)
    <3> DEFINE r == [s7[t] EXCEPT !.pc = "recycling"]
    <3>1. s7' = [s7 EXCEPT ![t].pc = "recycling"] /\ UNCHANGED <<s8, s9>>
      BY <1>8, <2>5 DEF ST!Settles
    <3>2. s7' = [s7 EXCEPT ![t] = r]
      BY <3>1
    <3>3. r \in Actions /\ r.pc = "recycling" /\ r.epoch = s7[t].epoch
      BY <1>d DEF Actions, Working
    <3> HIDE DEF r
    <3> QED BY <1>b, <1>d, <2>1, <2>2, <2>3, <3>1, <3>2, <3>3 DEF Working
  <2> QED BY <2>4, <2>5
<1> QED BY <1>1, <1>2, <1>3, <1>4, <1>5, <1>6, <1>7, <1>8 DEF ST!Next, ST!Progress

\* Lemma.  Nobody writes yet.
LEMMA StateBegins == ST!Init => StateInv
<1> SUFFICES ASSUME ST!Init PROVE StateInv
  OBVIOUS
<1> USE DEF ST!Init, ST!Records, ST!NoReport, ST!Idle
<1>1. ValuesOK
  BY DEF ValuesOK, Known
<1>2. TxsOK
  BY SendsAssumption DEF TxsOK, Actions
<1>3. ST!Open = {}
  BY DEF ST!Open, ST!Ended, ST!Txs
<1>4. OwnersOK
  BY <1>3, FS_EmptySet, SameCount DEF OwnersOK, ST!OwnerIsOpenWrite
<1>5. <<>> \in Seq(ST!Txs) /\ Len(<<>>) = 0 /\ 1 .. 0 = {} /\ 2 .. 0 = {}
  OBVIOUS
<1>6. InTurn(<<>>)
  BY <1>3, <1>5 DEF InTurn
<1> QED BY <1>1, <1>2, <1>4, <1>5, <1>6 DEF StateInv

\* Lemma.  What the invariant says is the type and the properties of the part.
LEMMA StateMeans ==
  ASSUME StateInv
  PROVE  ST!TypeOK /\ ST!OneWriteAtATime /\ ST!OwnerIsOpenWrite
<1>1. PICK q \in Seq(ST!Txs) : InTurn(q)
  BY DEF StateInv
<1>2. ST!OneWriteAtATime
  <2>1. ASSUME NEW w \in ST!Open, s7[w].pc # "queued" PROVE q[1] = w
    <3>1. PICK i \in 1 .. Len(q) : q[i] = w
      BY <1>1 DEF InTurn
    <3>2. i = 1
      BY <1>1, <2>1, <3>1 DEF InTurn
    <3> QED BY <3>1, <3>2
  <2> QED BY <2>1 DEF ST!OneWriteAtATime
<1>3. ST!OwnerIsOpenWrite
  BY DEF StateInv, OwnersOK
<1>4. s8 \in ST!Txs \cup {Off}
  <2>1. q # <<>> => Len(q) \in 1 .. Len(q)
    OBVIOUS
  <2> QED BY <1>1, <2>1 DEF InTurn
<1>5. s9 = Off \/ s9 \in [epoch : 0 .. MaxEpochs, count : 1 .. ST!Cardinality(ObservedWrites)]
  <2> SUFFICES ASSUME s9 # Off
               PROVE  s9 \in [epoch : 0 .. MaxEpochs, count : 1 .. ST!Cardinality(ObservedWrites)]
    OBVIOUS
  <2>1. s9 \in [epoch : Nat, count : Nat \ {0}] /\ s9.epoch = s10 /\ s10 \in 0 .. MaxEpochs
    BY DEF StateInv, OwnersOK, TxsOK
  <2>2. s9.count = Cardinality(ST!Open)
    BY <1>3, <2>1, SameCount DEF ST!OwnerIsOpenWrite
  <2> DEFINE c == s9.count
             e == s9.epoch
  <2>3. c <= Cardinality(ObservedWrites) /\ Cardinality(ObservedWrites) \in Nat
    BY <2>2, OpenIsFinite
  <2>4. s9 = [epoch |-> e, count |-> c] /\ c \in Nat \ {0} /\ e \in 0 .. MaxEpochs
    BY <2>1
  <2> HIDE DEF c, e
  <2>5. c \in 1 .. ST!Cardinality(ObservedWrites)
    BY <2>3, <2>4, SameCount
  <2> QED BY <2>4, <2>5
<1>6. ST!TypeOK
  BY <1>4, <1>5 DEF ST!TypeOK, StateInv, ValuesOK, ST!Records, Known
<1> QED BY <1>2, <1>3, <1>6

-----------------------------------------------------------------------------
(* The theorems: a behaviour is one of one part.                           *)

LiveInv ==
  /\ part = "talkback" => TalkInv
  /\ part = "stream" => StreamInv
  /\ part = "state" => StateInv

\* Lemma.  A step of one part leaves the others aside.
LEMMA PartStep == LiveInv /\ [LiveNext]_<<part, vars, low, high>> => LiveInv'
<1> SUFFICES ASSUME LiveInv, [LiveNext]_<<part, vars, low, high>> PROVE LiveInv'
  OBVIOUS
<1>1. CASE Only("talkback") /\ Next /\ UNCHANGED <<low, high>>
  BY <1>1, TalkStep DEF LiveInv, Only
<1>2. CASE Only("stream") /\ LS!Next /\ UNCHANGED vars
  BY <1>2, StreamStep DEF LiveInv, Only
<1>3. CASE Only("state") /\ ST!Next /\ UNCHANGED <<vars, high>>
  BY <1>3, StateStep DEF LiveInv, Only
<1>4. CASE Only("login") /\ LG!Next /\ UNCHANGED <<vars, s10, high>>
  BY <1>4 DEF LiveInv, Only
<1>5. CASE UNCHANGED <<part, vars, low, high>>
  <2>1. TalkInv => TalkInv'
    <3>1. UNCHANGED <<encoder, phase, queue, chain, running, ended, announced, held, due, gap, quiet, lead>>
      BY <1>5 DEF vars, input, clock
    <3>2. TypeOK => TypeOK'
      BY <3>1 DEF TypeOK
    <3>3. RoomToWrite => RoomToWrite'
      BY <3>1 DEF RoomToWrite, Coming
    <3>4. lead <= due - 1 => lead' <= due' - 1
      BY <3>1
    <3> QED BY <3>2, <3>3, <3>4 DEF TalkInv
  <2>2. StreamInv => StreamInv'
    <3>1. UNCHANGED <<s1, s2, s3, s4, s5, s6, s7, s8, s9, s10, s11, s12, s13, s14, s15, s16, s17, s18, s19, s20, s21, s22>>
      BY <1>5 DEF low, high
    <3> QED BY <3>1 DEF StreamInv, ConnectionOK, StartsOK, AudioOK, StreamsOK, LS!KeyIsOfThisConnection,
                       LS!NoWaiterForgotten, LS!Open, LS!StartedIsHeard, LS!Awaiting, LS!ListeningIsWatched
  <2>3. StateInv => StateInv'
    <3>1. UNCHANGED <<s1, s2, s3, s4, s5, s6, s7, s8, s9, s10>>
      BY <1>5 DEF low
    <3>2. ValuesOK => ValuesOK'
      BY <3>1 DEF ValuesOK
    <3> QED BY <3>1, <3>2, Rests DEF StateInv
  <2> QED BY <1>5, <2>1, <2>2, <2>3 DEF LiveInv
<1> QED BY <1>1, <1>2, <1>3, <1>4, <1>5 DEF LiveNext

\* Lemma.  Every part has its inductive invariant.
LEMMA PartInvariant == LiveSpec => []LiveInv
<1>1. LiveInit => LiveInv
  BY TalkBegins, StreamBegins, StateBegins DEF LiveInit, LiveInv
<1> QED BY <1>1, PartStep, PTL DEF LiveSpec

\* The feed never runs ahead of playback: never more frames are sent than the
\* time since the first of them allows, for any high-water mark and however many
\* jobs are under way (Talkback.tick, nextDueAt).
THEOREM FeedKeepsPace == LiveSpec => []FeedNeverAhead
<1>1. TalkInv => TypeOK /\ NeverAhead
  <2> SUFFICES ASSUME TalkInv PROVE TypeOK /\ NeverAhead
    OBVIOUS
  <2>1. due \in Int /\ due <= 1 /\ lead \in Int /\ lead <= due - 1
    BY DEF TalkInv, TypeOK
  <2> QED BY <2>1 DEF TalkInv, NeverAhead
<1>2. LiveInv => FeedNeverAhead
  BY <1>1 DEF LiveInv, FeedNeverAhead
<1> QED BY <1>2, PartInvariant, PTL

\* A level-2 key, and whoever waits for one, belongs to a connection that is
\* still up, however the resolution interleaves with the close
\* (negotiateLevel2Key, settleLevel2).
THEOREM KeysDieWithConnection == LiveSpec => []KeysFollowConnection
<1>1. LiveInv => KeysFollowConnection
  BY StreamMeans DEF LiveInv, KeysFollowConnection
<1> QED BY <1>1, PartInvariant, PTL

\* A channel that counts as started was heard or is being repeated, and what is
\* repeated has a running timer, for any cameras and starts (startLiveMedia,
\* stopLiveMedia, armLiveStartRetransmit).
THEOREM StartsReach == LiveSpec => []StartedIsHeard
<1>1. LiveInv => StartedIsHeard
  BY StreamMeans DEF LiveInv, StartedIsHeard
<1> QED BY <1>1, PartInvariant, PTL

\* A listening stream always has the timer that brings its camera back, for any
\* cameras of a station (settleKeepalive, armStallWatch).
THEOREM StreamsAreWatched == LiveSpec => []ListeningIsWatched
<1>1. LiveInv => ListeningIsWatched
  BY StreamMeans DEF LiveInv, ListeningIsWatched
<1> QED BY <1>1, PartInvariant, PTL

\* Of the open writes of a member at most one is past the queue, and its events
\* are held back exactly as long as one is open, for any writes, re-reads and
\* disconnects (enqueueStateTransition, commandRefreshes, release).
THEOREM WritesTakeTurns == LiveSpec => []WritesInTurn
<1>1. LiveInv => WritesInTurn
  BY StateMeans DEF LiveInv, WritesInTurn
<1> QED BY <1>1, PartInvariant, PTL
=============================================================================
