----------------------------- MODULE LinksProofs -----------------------------
(***************************************************************************)
(* Theorems about Links: the parts of the connection and device layers, for*)
(* every number of calls, sessions, datagrams, sockets, logins, parameters *)
(* and messages.  Each part has its inductive invariant and a lemma that   *)
(* every step of the part keeps it; a behaviour of Links is one of one     *)
(* part, so the parts' invariants together are one of Links.               *)
(***************************************************************************)
EXTENDS Links, TLAPS

-----------------------------------------------------------------------------
(* PushClient.                                                             *)

\* What close() and the reconnect timer rest on is inductive as it stands.
PushLink == PU!ClosedStaysClosed /\ PU!AlwaysComingBack
PushInv  == PU!TypeOK /\ PushLink

\* Lemma.  Every step of the push client keeps a closed client closed and an
\* opened one on its way back (onClose, scheduleReconnect, close).
LEMMA PushStep ==
  ASSUME PushInv, PU!Next
  PROVE  PushInv'
<1> USE BoundsAssumption DEF PushInv, PU!TypeOK, PU!ClosedStaysClosed, PU!AlwaysComingBack
<1>1. CASE PU!Connect
  <2>1. PU!Flags'
    BY <1>1 DEF PU!Flags, PU!Connect, PU!Open
  <2>2. PU!Counts'
    BY <1>1 DEF PU!Counts, PU!Delays, PU!Connect, PU!Open
  <2>3. PushLink'
    BY <1>1 DEF PushLink, PU!Connect, PU!Open
  <2>4. QED
    BY <2>1, <2>2, <2>3
<1>2. CASE PU!SecureConnect
  <2>1. PU!Flags'
    BY <1>2 DEF PU!Flags, PU!SecureConnect
  <2>2. PU!Counts'
    BY <1>2 DEF PU!Counts, PU!Delays, PU!SecureConnect
  <2>3. PushLink'
    BY <1>2 DEF PushLink, PU!SecureConnect
  <2>4. QED
    BY <2>1, <2>2, <2>3
<1>3. CASE PU!LoginResponse
  <2>1. PU!Flags'
    BY <1>3 DEF PU!Flags, PU!LoginResponse
  <2>2. PU!Counts'
    BY <1>3 DEF PU!Counts, PU!Delays, PU!LoginResponse
  <2>3. PushLink'
    BY <1>3 DEF PushLink, PU!LoginResponse
  <2>4. QED
    BY <2>1, <2>2, <2>3
<1>4. CASE PU!OnLoginError
  <2>1. PU!Flags'
    BY <1>4 DEF PU!Flags, PU!OnLoginError
  <2>2. PU!Counts'
    BY <1>4 DEF PU!Counts, PU!Delays, PU!OnLoginError
  <2>3. PushLink'
    BY <1>4 DEF PushLink, PU!OnLoginError
  <2>4. QED
    BY <2>1, <2>2, <2>3
<1>5. CASE PU!HandleDataMessage
  <2>1. PU!Flags'
    BY <1>5 DEF PU!Flags, PU!HandleDataMessage
  <2>2. PU!Counts'
    BY <1>5 DEF PU!Counts, PU!Delays, PU!HandleDataMessage
  <2>3. PushLink'
    BY <1>5 DEF PushLink, PU!HandleDataMessage
  <2>4. QED
    BY <2>1, <2>2, <2>3
<1>6. CASE PU!SocketDies
  <2>1. PU!Flags'
    BY <1>6 DEF PU!Flags, PU!SocketDies
  <2>2. PU!Counts'
    BY <1>6 DEF PU!Counts, PU!Delays, PU!SocketDies
  <2>3. PushLink'
    BY <1>6 DEF PushLink, PU!SocketDies
  <2>4. QED
    BY <2>1, <2>2, <2>3
<1>7. CASE PU!OnClose
  <2>1. PU!Flags'
    BY <1>7 DEF PU!Flags, PU!OnClose, PU!Reconnects, PU!Backoff
  <2>2. PU!Counts'
    BY <1>7 DEF PU!Counts, PU!Delays, PU!OnClose, PU!Reconnects, PU!Backoff
  <2>3. PushLink'
    BY <1>7 DEF PushLink, PU!OnClose, PU!Reconnects, PU!Backoff
  <2>4. QED
    BY <2>1, <2>2, <2>3
<1>8. CASE PU!ReconnectFires
  <2>1. PU!Flags'
    BY <1>8 DEF PU!Flags, PU!ReconnectFires, PU!Open
  <2>2. PU!Counts'
    BY <1>8 DEF PU!Counts, PU!Delays, PU!ReconnectFires, PU!Open
  <2>3. PushLink'
    BY <1>8 DEF PushLink, PU!ReconnectFires, PU!Open
  <2>4. QED
    BY <2>1, <2>2, <2>3
<1>9. CASE PU!Close
  <2>1. PU!Flags'
    BY <1>9 DEF PU!Flags, PU!Close
  <2>2. PU!Counts'
    BY <1>9 DEF PU!Counts, PU!Delays, PU!Close
  <2>3. PushLink'
    BY <1>9 DEF PushLink, PU!Close
  <2>4. QED
    BY <2>1, <2>2, <2>3
<1>10. QED
  BY <1>1, <1>2, <1>3, <1>4, <1>5, <1>6, <1>7, <1>8, <1>9 DEF PU!Next

-----------------------------------------------------------------------------
(* DatagramSequencing.                                                     *)

\* Lemma.  Multiples of S less than 2 S apart are equal or neighbours.
LEMMA Multiples ==
  ASSUME NEW S \in Nat \ {0}, NEW p \in Int, NEW q \in Int, NEW d \in Int, S * p - S * q = d, d > 0 - 2 * S, d < 2 * S
  PROVE  \/ p - q = 0 /\ d = 0
         \/ p - q = 1 /\ d = S
         \/ p - q = -1 /\ d = 0 - S
<1>1. S * p - S * q = S * (p - q)
  OBVIOUS
<1>2. PICK k \in Int : k = p - q
  OBVIOUS
<1>3. S * k = d
  BY <1>1, <1>2
<1>4. CASE k >= 2
  <2>1. S * k >= S * 2
    BY <1>4
  <2>2. QED
    BY <1>3, <2>1
<1>5. CASE k <= -2
  <2>1. S * k <= S * (-2)
    BY <1>5
  <2>2. QED
    BY <1>3, <2>1
<1>6. CASE k \in {-1, 0, 1}
  BY <1>2, <1>3, <1>6
<1>7. QED
  BY <1>4, <1>5, <1>6

\* Lemma.  The distance of two numbers modulo S tells how far apart what they
\* number is, as long as that is less than S (the advance in onData).
LEMMA ModDiff ==
  ASSUME NEW S \in Nat \ {0}, NEW a \in Nat, NEW b \in Nat, a - b < S, 0 - S < a - b
  PROVE ((a % S) - (b % S) + S) % S = IF a >= b THEN a - b ELSE a - b + S
<1>1. PICK p \in Nat, r \in 0 .. S - 1 : a = S * p + r /\ a % S = r
  <2>1. a = S * (a \div S) + (a % S) /\ a % S \in 0 .. S - 1 /\ a \div S \in Nat
    OBVIOUS
  <2>2. QED
    BY <2>1
<1>2. PICK q \in Nat, t \in 0 .. S - 1 : b = S * q + t /\ b % S = t
  <2>1. b = S * (b \div S) + (b % S) /\ b % S \in 0 .. S - 1 /\ b \div S \in Nat
    OBVIOUS
  <2>2. QED
    BY <2>1
<1>3. PICK d \in Int : d = (a - b) - (r - t)
  OBVIOUS
<1>4. S * p - S * q = d
  <2>1. PICK x \in Int, y \in Int : x = S * p /\ y = S * q
    OBVIOUS
  <2>2. QED
    BY <1>1, <1>2, <1>3, <2>1
<1>5. \/ p - q = 0 /\ d = 0
      \/ p - q = 1 /\ d = S
      \/ p - q = -1 /\ d = 0 - S
  BY <1>3, <1>4, Multiples
<1>6. d \in {0, S, 0 - S}
  BY <1>5
<1>7. \A x \in Nat : /\ x < S => x % S = x
                     /\ S <= x /\ x < 2 * S => x % S = x - S
  OBVIOUS
<1>8. PICK x \in Nat : x = r - t + S /\ x < 2 * S
  OBVIOUS
<1>9. x % S = IF a >= b THEN a - b ELSE a - b + S
  <2>1. CASE x < S
    BY <1>3, <1>6, <1>7, <1>8, <2>1
  <2>2. CASE x >= S
    BY <1>3, <1>6, <1>7, <1>8, <2>2
  <2>3. QED
    BY <2>1, <2>2
<1>10. QED
  BY <1>1, <1>2, <1>8, <1>9

\* What is being put together, and what was handed on last, is a run of a frame.
Run(q) == /\ DS!Part(q[1]) = 0
          /\ \A i \in 1 .. Len(q) : q[i] = q[1] + i - 1

\* The receiver's number is that of the newest arrival, unless the device has
\* numbered anew since; the arrivals are not a whole numbering behind.
NumbersAgree ==
  /\ s3 >= s2 => s4 = DS!Number(s3) /\ s1 - s3 <= Space - Depth
  /\ s3 < s2 => s1 - s2 <= Space - Depth

FramesHeld ==
  /\ s5 \in Seq(Nat) /\ s6 \in Seq(Nat)
  /\ s4 = DS!NoSeq => s5 = << >>
  /\ s5 # << >> => Run(s5) /\ s5[1] + Len(s5) - 1 = s3
  /\ s6 # << >> => Run(s6) /\ s6[1] + Parts - 1 <= s3

FramesInv == DS!TypeOK /\ NumbersAgree /\ FramesHeld /\ DS!FramesOnce

\* Lemma.  The number of a datagram is one of the numbering.
LEMMA NumberTypes ==
  ASSUME NEW n \in Nat, s2 \in Nat, n >= s2
  PROVE  DS!Number(n) \in 0 .. Space - 1
BY DatagramAssumption DEF DS!Number

\* Lemma.  The receiver drops as stale exactly what is not newer than all that
\* arrived, and puts a datagram to a frame only if it is the next one (the stale
\* and gap tests of onData).
LEMMA StaleIsOld ==
  ASSUME PlainRestart, FramesInv, NEW n \in Nat, DS!Arrives(n)
  PROVE  /\ DS!Stale(n) <=> n <= s3
         /\ ~DS!Stale(n) /\ DS!Carried(n) # << >> => DS!Carried(n) = s5 /\ n = s3 + 1
<1>0. /\ s1 \in Nat /\ s2 \in 0 .. s1 /\ s3 \in -1 .. s1 - 1 /\ s4 \in -1 .. Space - 1
      /\ n >= s2 /\ n < s1 /\ n > s3 - Repeats /\ DS!Plain(n)
  BY DatagramAssumption DEF FramesInv, DS!TypeOK, DS!Arrives
<1>1. CASE s3 >= s2
  <2>1. PICK a \in Nat, b \in Nat : a = n - s2 /\ b = s3 - s2
    BY <1>0, <1>1
  <2>2. s1 - s3 <= Space - Depth /\ s4 = b % Space /\ DS!Number(n) = a % Space
    BY <1>1, <2>1 DEF FramesInv, NumbersAgree, DS!Number
  <2>3. a - b = n - s3 /\ a - b < Space - Depth /\ 0 - Repeats < a - b
    BY <1>0, <1>1, <2>1, <2>2, DatagramAssumption
  <2>4. s4 # DS!NoSeq
    BY <2>1, <2>2, DatagramAssumption DEF DS!NoSeq
  <2>5. DS!Advance(n) = IF n >= s3 THEN n - s3 ELSE n - s3 + Space
    <3>1. ((a % Space) - (b % Space) + Space) % Space = IF a >= b THEN a - b ELSE a - b + Space
      <4>1. Space \in Nat \ {0} /\ a - b < Space /\ 0 - Space < a - b
        BY <2>3, DatagramAssumption
      <4>2. QED
        BY <4>1, ModDiff
    <3>2. QED
      <4>1. DS!Advance(n) = ((a % Space) - (b % Space) + Space) % Space
        BY <2>2, <2>4 DEF DS!Advance
      <4>2. a >= b <=> n >= s3
        BY <1>0, <2>1
      <4>3. QED
        BY <2>3, <3>1, <4>1, <4>2
  <2>6. PICK v \in Int : v = DS!Advance(n)
    BY <1>0, <2>5, DatagramAssumption
  <2>7. DS!Stale(n) <=> v = 0 \/ (v > Lookback /\ ~(v > Lookback /\ Space - v > Depth))
    BY <2>6 DEF DS!Stale, DS!Restarted
  <2>8. DS!Stale(n) <=> n <= s3
    <3>1. CASE n > s3
      BY <1>0, <2>3, <2>5, <2>6, <2>7, <3>1, DatagramAssumption
    <3>2. CASE n <= s3
      BY <1>0, <2>3, <2>5, <2>6, <2>7, <3>2, DatagramAssumption
    <3>3. QED
      BY <1>0, <3>1, <3>2
  <2>9. DS!Carried(n) # << >> => DS!Carried(n) = s5 /\ ~(v > 1)
    BY <2>6 DEF DS!Carried, DS!Broken
  <2>10. QED
    BY <1>0, <2>5, <2>6, <2>8, <2>9
<1>2. CASE s3 < s2
  <2>1. n > s3
    BY <1>0, <1>2
  <2>2. CASE s4 = DS!NoSeq
    <3>1. ~DS!Stale(n)
      BY <2>2, DatagramAssumption DEF DS!Stale, DS!Advance, DS!Restarted
    <3>2. QED
      BY <1>0, <2>1, <2>2, <3>1 DEF FramesInv, FramesHeld, DS!Carried
  <2>3. CASE s4 # DS!NoSeq
    <3>1. PICK m \in 0 .. Space - 1 : m = DS!Number(n)
      BY <1>0, NumberTypes
    <3>2. s4 - m > Depth /\ DS!Advance(n) # 1 /\ s4 \in 0 .. Space - 1
      BY <1>0, <1>2, <2>3, <3>1 DEF DS!Plain, DS!NoSeq
    <3>3. DS!Advance(n) = (m - s4 + Space) % Space
      BY <2>3, <3>1 DEF DS!Advance
    <3>4. PICK x \in Nat : x = m - s4 + Space /\ 0 < x /\ x < Space
      BY <3>2, DatagramAssumption
    <3>5. x % Space = x
      BY <3>4, DatagramAssumption
    <3>6. DS!Advance(n) = x
      BY <3>3, <3>4, <3>5
    <3>a. x > 1 /\ Space - x > Depth
      BY <3>2, <3>4, <3>6, DatagramAssumption
    <3>7. DS!Carried(n) = << >>
      BY <3>6, <3>a DEF DS!Carried, DS!Broken
    <3>8. ~DS!Stale(n)
      BY <3>4, <3>6, <3>a DEF DS!Stale, DS!Restarted
    <3>9. QED
      BY <1>0, <2>1, <3>7, <3>8
  <2>4. QED
    BY <2>2, <2>3
<1>3. QED
  BY <1>0, <1>1, <1>2

\* Lemma.  What has been put together once a datagram was taken is a run that
\* ends in it, or nothing.
LEMMA BodyIsRun ==
  ASSUME PlainRestart, FramesInv, NEW n \in Nat, DS!Arrives(n), ~DS!Stale(n), NEW q, q = DS!Body(n)
  PROVE  /\ q \in Seq(Nat) /\ Len(q) <= Parts
         /\ q # << >> => Run(q) /\ q[1] + Len(q) - 1 = n /\ (s6 # << >> => q[1] > s6[1])
<1>0. n > s3 /\ (DS!Carried(n) # << >> => DS!Carried(n) = s5 /\ n = s3 + 1)
  <2>1. s3 \in Int
    BY DEF FramesInv, DS!TypeOK
  <2>2. QED
    BY <2>1, StaleIsOld
<1>1. /\ s5 \in Seq(Nat) /\ Len(s5) < Parts /\ s3 \in Int
      /\ s5 # << >> => Run(s5) /\ s5[1] + Len(s5) - 1 = s3
      /\ s6 # << >> => s6[1] \in Nat /\ s6[1] + Parts - 1 <= s3
      /\ s5 # << >> /\ s6 # << >> => s5[1] > s6[1]
  <2>1. s6 # << >> => s6[1] \in Nat
    BY DEF FramesInv, FramesHeld
  <2>2. QED
    BY <2>1 DEF FramesInv, FramesHeld, DS!TypeOK, DS!FramesOnce
<1>2. Parts \in Nat /\ Parts > 0
  BY DatagramAssumption
<1>3. CASE DS!Carried(n) # << >>
  <2>1. q = Append(s5, n) /\ s5 # << >> /\ n = s3 + 1
    BY <1>0, <1>3 DEF DS!Body
  <2>2. PICK m \in Nat : m = Len(s5)
    BY <1>1
  <2>3. q \in Seq(Nat) /\ Len(q) = m + 1 /\ q[m + 1] = n /\ \A i \in 1 .. m : q[i] = s5[i]
    BY <1>1, <2>1, <2>2
  <2>4. m > 0
    BY <1>1, <2>1, <2>2
  <2>5. q[1] = s5[1] /\ s5[1] \in Nat
    BY <1>1, <2>2, <2>3, <2>4
  <2>6. Run(q)
    BY <1>1, <2>1, <2>2, <2>3, <2>5 DEF Run
  <2>7. QED
    BY <1>1, <1>2, <2>1, <2>2, <2>3, <2>5, <2>6
<1>4. CASE DS!Carried(n) = << >> /\ DS!Part(n) = 0
  <2>1. q = <<n>>
    BY <1>4 DEF DS!Body
  <2>2. Run(q)
    BY <1>4, <2>1 DEF Run
  <2>3. QED
    BY <1>0, <1>1, <1>2, <2>1, <2>2
<1>5. CASE DS!Carried(n) = << >> /\ DS!Part(n) # 0
  BY <1>2, <1>5 DEF DS!Body
<1>6. QED
  BY <1>3, <1>4, <1>5

\* Lemma.  A datagram that arrives, late, repeated or of a new numbering, leaves
\* whole frames handed on and a run of one pending (onData).
LEMMA FramesArrive ==
  ASSUME PlainRestart, FramesInv, NEW n \in Nat, DS!Arrives(n)
  PROVE  FramesInv'
<1>0. /\ s1 \in 0 .. MaxDatagrams /\ s2 \in 0 .. s1 /\ s3 \in -1 .. s1 - 1 /\ s4 \in -1 .. Space - 1
      /\ n >= s2 /\ n < s1 /\ s1' = s1 /\ s2' = s2 /\ s3' = (IF n > s3 THEN n ELSE s3)
  BY DatagramAssumption DEF FramesInv, DS!TypeOK, DS!Arrives, DS!OnData
<1>1. CASE DS!Stale(n)
  <2>1. UNCHANGED <<s4, s5, s6>>
    BY <1>1 DEF DS!Arrives, DS!OnData
  <2>2. ~(n > s3)
    <3>1. n \in Int /\ s3 \in Int /\ n <= s3
      BY <1>0, <1>1, StaleIsOld
    <3>2. QED
      BY <3>1
  <2>3. s3' = s3
    BY <1>0, <2>2
  <2>4. QED
    BY <1>0, <2>1, <2>3 DEF FramesInv, DS!TypeOK, NumbersAgree, FramesHeld, DS!FramesOnce, DS!Number, DS!Part, Run
<1>2. CASE ~DS!Stale(n)
  <2>1. PICK q : q = DS!Body(n)
    OBVIOUS
  <2>2. /\ q \in Seq(Nat) /\ Len(q) <= Parts
        /\ q # << >> => Run(q) /\ q[1] + Len(q) - 1 = n /\ (s6 # << >> => q[1] > s6[1])
    BY <1>2, <2>1, BodyIsRun
  <2>3. n > s3 /\ s3' = n /\ s4' = DS!Number(n)
    BY <1>0, <1>2, StaleIsOld DEF DS!Arrives, DS!OnData
  <2>4. DS!Number(n) \in 0 .. Space - 1
    BY <1>0, NumberTypes
  <2>5. NumbersAgree'
    <3>1. s1 - n <= Space - Depth
      BY <1>0, <2>3, DatagramAssumption DEF FramesInv, NumbersAgree
    <3>2. DS!Number(s3)' = DS!Number(n)
      BY <1>0, <2>3 DEF DS!Number
    <3>3. QED
      BY <1>0, <2>3, <3>1, <3>2 DEF NumbersAgree
  <2>6. /\ s6 \in Seq(Nat) /\ Len(s6) \in {0, Parts}
        /\ s6 # << >> => Run(s6) /\ s6[1] \in Nat /\ s6[1] + Parts - 1 <= s3
    <3>1. s6 # << >> => s6[1] \in Nat
      BY DEF FramesInv, FramesHeld
    <3>2. QED
      BY <3>1 DEF FramesInv, FramesHeld, DS!TypeOK
  <2>7. Parts \in Nat /\ Parts > 0
    BY DatagramAssumption
  <2>8. CASE Len(q) = Parts
    <3>1. s5' = << >> /\ s6' = q
      BY <1>2, <2>1, <2>8 DEF DS!Arrives, DS!OnData
    <3>2. q # << >>
      BY <2>7, <2>8
    <3>3. FramesHeld'
      <4>1. q[1] + Parts - 1 <= s3'
        BY <1>0, <2>2, <2>3, <2>8, <3>2
      <4>2. Run(q) /\ q \in Seq(Nat)
        BY <2>2, <3>2
      <4>3. Run(s6)' = Run(q)
        BY <3>1 DEF Run, DS!Part
      <4>4. QED
        BY <3>1, <4>1, <4>2, <4>3 DEF FramesHeld
    <3>4. DS!TypeOK'
      BY <1>0, <2>3, <2>4, <2>7, <2>8, <3>1 DEF DS!TypeOK
    <3>5. QED
      BY <2>5, <3>1, <3>3, <3>4 DEF FramesInv, DS!FramesOnce
  <2>9. CASE Len(q) # Parts
    <3>1. s5' = q /\ s6' = s6
      BY <1>2, <2>1, <2>9 DEF DS!Arrives, DS!OnData
    <3>2. Len(q) < Parts
      BY <2>2, <2>7, <2>9
    <3>3. s4' # DS!NoSeq
      BY <2>3, <2>4 DEF DS!NoSeq
    <3>4. s6 # << >> => s6[1] + Parts - 1 <= n
      BY <1>0, <2>3, <2>6, <2>7
    <3>5. FramesHeld'
      BY <2>2, <2>3, <2>6, <3>1, <3>3, <3>4 DEF FramesHeld, Run, DS!Part, DS!NoSeq
    <3>6. DS!TypeOK'
      BY <1>0, <2>3, <2>4, <2>6, <3>1, <3>2 DEF DS!TypeOK
    <3>7. DS!FramesOnce'
      BY <2>2, <3>1 DEF DS!FramesOnce
    <3>8. QED
      BY <2>5, <3>5, <3>6, <3>7 DEF FramesInv
  <2>10. QED
    BY <2>8, <2>9
<1>3. QED
  BY <1>1, <1>2

\* Lemma.  Every step of the device, the network and the receiver keeps frames whole.
LEMMA FramesStep ==
  ASSUME PlainRestart, FramesInv, DS!Next
  PROVE  FramesInv'
<1>0. /\ s1 \in 0 .. MaxDatagrams /\ s2 \in 0 .. s1 /\ s3 \in -1 .. s1 - 1 /\ Space \in Nat /\ Depth \in Nat
      /\ MaxDatagrams \in Nat /\ Depth < Space
  BY DatagramAssumption DEF FramesInv, DS!TypeOK
<1>1. CASE DS!DeviceSends
  <2>a. s1' = s1 + 1 /\ s1' <= MaxDatagrams /\ s1' - s3 <= Space - Depth /\ UNCHANGED <<s2, s3, s4, s5, s6>>
    BY <1>0, <1>1 DEF DS!DeviceSends
  <2>b. DS!Number(s3)' = DS!Number(s3)
    BY <2>a DEF DS!Number
  <2>1. NumbersAgree' /\ DS!TypeOK'
    BY <1>0, <2>a, <2>b DEF FramesInv, NumbersAgree, DS!TypeOK
  <2>2. QED
    BY <1>1, <2>1 DEF FramesInv, FramesHeld, DS!FramesOnce, DS!DeviceSends, Run, DS!Part
<1>2. CASE DS!DeviceRestarts
  <2>1. s1' > s1 /\ s1' \in Nat /\ s1' <= MaxDatagrams /\ s2' = s1' /\ UNCHANGED <<s3, s4, s5, s6>>
    <3>1. s1 % Parts \in 0 .. Parts - 1 /\ s1 \in Nat
      BY DatagramAssumption DEF FramesInv, DS!TypeOK
    <3>2. QED
      BY <1>2, <3>1, DatagramAssumption DEF DS!DeviceRestarts, DS!Part
  <2>2. NumbersAgree' /\ DS!TypeOK'
    <3>1. PICK m \in Nat : m = s1'
      BY <1>0, <2>1
    <3>2. m <= MaxDatagrams /\ s3 < m /\ s3 \in Int /\ -1 <= s3 /\ 0 <= Space - Depth
      BY <1>0, <2>1, <3>1
    <3>3. NumbersAgree'
      BY <2>1, <3>1, <3>2 DEF NumbersAgree
    <3>4. m \in 0 .. MaxDatagrams /\ m \in 0 .. m /\ s3 \in -1 .. m - 1
      BY <1>0, <3>2
    <3>a. DS!TypeOK'
      BY <2>1, <3>1, <3>4 DEF FramesInv, DS!TypeOK
    <3>5. QED
      BY <3>3, <3>a
  <2>3. QED
    BY <2>1, <2>2 DEF FramesInv, FramesHeld, DS!FramesOnce, Run, DS!Part
<1>3. ASSUME NEW n \in 0 .. MaxDatagrams - 1, DS!Arrives(n) PROVE FramesInv'
  BY <1>3, FramesArrive
<1>4. QED
  BY <1>1, <1>2, <1>3 DEF DS!Next

-----------------------------------------------------------------------------
(* TuyaLogin.                                                              *)

\* A login that is held or being tried was begun by the binding that stands.
TuyaLinks == TL!HeldIsCurrent /\ TL!OneLoginPerBind /\ TL!TwoPasswords /\ TL!FailureIsForgotten
TuyaInv   == TL!TypeOK /\ TuyaLinks

\* Lemma.  What one login does next disturbs no other, and it is forgotten when
\* it fails (the catch of ensureLoggedIn).
LEMMA TuyaMoves ==
  ASSUME TuyaInv, NEW l \in TL!Logins, NEW n, s2' = [s2 EXCEPT ![l] = n],
         n.bind = s2[l].bind, n.tries <= 2, s2[l].state # "new",
         n.state \in {"token", "password", "good"} => TL!Active(l),
         s4' = (IF n.state = "bad" /\ s4 = l THEN 0 ELSE s4),
         UNCHANGED <<s1, s3>>
  PROVE  TuyaLinks'
<1>1. \A k \in TL!Logins : s2'[k] = (IF k = l THEN n ELSE s2[k])
  BY DEF TuyaInv, TL!TypeOK
<1>2. \A k \in TL!Logins : TL!Active(k)' => TL!Active(k) /\ ~(k = l /\ n.state = "bad")
  BY <1>1 DEF TL!Active
<1>3. TL!HeldIsCurrent'
  BY <1>1, <1>2 DEF TuyaInv, TuyaLinks, TL!HeldIsCurrent, TL!TypeOK
<1>4. TL!OneLoginPerBind'
  BY <1>1, <1>2 DEF TuyaInv, TuyaLinks, TL!OneLoginPerBind
<1>5. TL!TwoPasswords' /\ TL!FailureIsForgotten'
  BY <1>1 DEF TuyaInv, TuyaLinks, TL!TwoPasswords, TL!FailureIsForgotten, TL!TypeOK, TL!Logins
<1>6. QED
  BY <1>3, <1>4, <1>5 DEF TuyaLinks

\* Lemma.  Every step of the Tuya login keeps its invariant (bind, ensureLoggedIn).
LEMMA TuyaStep ==
  ASSUME TuyaInv, TL!Next
  PROVE  TuyaInv'
<1>1. CASE TL!Bind
  BY <1>1, BoundsAssumption DEF TL!Bind, TuyaInv, TuyaLinks, TL!TypeOK, TL!HeldIsCurrent, TL!OneLoginPerBind, TL!TwoPasswords,
      TL!FailureIsForgotten, TL!Active, TL!Logins
<1>2. ASSUME NEW c \in Callers, TL!EnsureLoggedIn(c)
      PROVE  TuyaInv'
  <2>0. UNCHANGED <<s1, s5>>
    BY <1>2 DEF TL!EnsureLoggedIn
  <2>1. CASE s4 # 0 /\ UNCHANGED <<s2, s3, s4>>
             /\ s6' = [s6 EXCEPT ![c] = [pc |-> "waiting", on |-> s4]]
    <3>1. TL!TypeOK'
      BY <2>0, <2>1 DEF TuyaInv, TL!TypeOK
    <3>2. TuyaLinks'
      BY <2>0, <2>1 DEF TuyaInv, TuyaLinks, TL!HeldIsCurrent, TL!OneLoginPerBind, TL!TwoPasswords,
        TL!FailureIsForgotten, TL!Active
    <3>3. QED
      BY <3>1, <3>2 DEF TuyaInv
  <2>2. CASE /\ s4 = 0 /\ s3 < MaxLogins /\ s3' = s3 + 1 /\ s4' = s3 + 1
             /\ s2' = [s2 EXCEPT ![s3 + 1] = [state |-> "token", bind |-> s1, tries |-> 1]]
             /\ s6' = [s6 EXCEPT ![c] = [pc |-> "waiting", on |-> s3 + 1]]
    <3>0. TL!TypeOK'
      <4>1. s6 \in [Callers -> [pc : {"idle", "waiting", "used", "failed"}, on : 0 .. s3']]
        BY <2>2 DEF TuyaInv, TL!TypeOK
      <4>2. s3' \in 0 .. MaxLogins /\ s3' # 0 /\ s4' = s3' /\ s5' \in 0 .. s3'
        BY <2>0, <2>2, BoundsAssumption DEF TuyaInv, TL!TypeOK
      <4>3. s6' \in [Callers -> [pc : {"idle", "waiting", "used", "failed"}, on : 0 .. s3']]
        BY <4>1, <4>2, <2>2
      <4>4. s2' \in [TL!Logins -> [state : {"new", "token", "password", "good", "bad"},
                           bind : 0 .. MaxBinds, tries : 0 .. 3]]
        <5>1. [state |-> "token", bind |-> s1, tries |-> 1] \in
                [state : {"new", "token", "password", "good", "bad"}, bind : 0 .. MaxBinds, tries : 0 .. 3]
          BY DEF TuyaInv, TL!TypeOK
        <5>2. QED
          BY <2>2, <5>1 DEF TuyaInv, TL!TypeOK
      <4>5. s1' \in 0 .. MaxBinds
        BY <2>0 DEF TuyaInv, TL!TypeOK
      <4>6. QED
        BY <4>2, <4>3, <4>4, <4>5 DEF TL!TypeOK
    <3>1. s3 + 1 \in TL!Logins /\ s1' = s1 /\ s3 \in Nat
      BY <2>0, <2>2, BoundsAssumption DEF TL!EnsureLoggedIn, TuyaInv, TL!TypeOK, TL!Logins
    <3>2. \A k \in TL!Logins : s2'[k] = (IF k = s3 + 1 THEN [state |-> "token", bind |-> s1, tries |-> 1] ELSE s2[k])
      BY <2>2 DEF TuyaInv, TL!TypeOK
    <3>3. TL!HeldIsCurrent'
      BY <2>0, <2>2, <3>1, <3>2 DEF TuyaInv, TuyaLinks, TL!HeldIsCurrent, TL!TypeOK, TL!Active, TL!Logins
    <3>4. TL!OneLoginPerBind'
      BY <2>0, <2>2, <3>1, <3>2 DEF TuyaInv, TuyaLinks, TL!HeldIsCurrent, TL!OneLoginPerBind, TL!Active, TL!Logins
    <3>5. TL!TwoPasswords' /\ TL!FailureIsForgotten'
      BY <2>0, <2>2, <3>1, <3>2 DEF TuyaInv, TuyaLinks, TL!TwoPasswords, TL!FailureIsForgotten
    <3>6. QED
      BY <3>0, <3>3, <3>4, <3>5 DEF TuyaInv, TuyaLinks
  <2>3. QED
    BY <1>2, <2>1, <2>2 DEF TL!EnsureLoggedIn, TL!Joins
<1>3. ASSUME NEW l \in TL!Logins, TL!TokenArrives(l)
      PROVE  TuyaInv'
  <2>1. TL!TypeOK'
    BY <1>3 DEF TL!TokenArrives, TuyaInv, TL!TypeOK
  <2>2. PICK n : n = [s2[l] EXCEPT !.state = "password"]
    OBVIOUS
  <2>3. QED
    BY <1>3, <2>1, <2>2, TuyaMoves
    DEF TL!TokenArrives, TuyaInv, TuyaLinks, TL!TypeOK, TL!TwoPasswords, TL!Active
<1>4. ASSUME NEW l \in TL!Logins, TL!WrongPassword(l)
      PROVE  TuyaInv'
  <2>1. TL!TypeOK'
    BY <1>4 DEF TL!WrongPassword, TL!TriesAgain, TuyaInv, TL!TypeOK
  <2>2. PICK n : n = [s2[l] EXCEPT !.state = "token", !.tries = 2]
    OBVIOUS
  <2>3. s2' = [s2 EXCEPT ![l] = n]
    BY <1>4, <2>2 DEF TL!WrongPassword, TL!TriesAgain, TuyaInv, TL!TypeOK
  <2>4. n.bind = s2[l].bind /\ n.tries = 2 /\ n.state = "token"
    BY <2>2 DEF TuyaInv, TL!TypeOK
  <2>5. UNCHANGED <<s1, s3, s4>> /\ s2[l].state = "password"
    BY <1>4 DEF TL!WrongPassword
  <2>6. TL!Active(l) /\ s4' = (IF n.state = "bad" /\ s4 = l THEN 0 ELSE s4) /\ n.tries <= 2
    BY <2>4, <2>5 DEF TL!Active
  <2>7. QED
    BY <2>1, <2>3, <2>4, <2>5, <2>6, TuyaMoves DEF TuyaInv
<1>5. ASSUME NEW l \in TL!Logins, TL!LoginSucceeds(l)
      PROVE  TuyaInv'
  <2>1. l <= s3
    BY <1>5 DEF TL!LoginSucceeds, TuyaInv, TuyaLinks, TL!HeldIsCurrent, TL!TypeOK, TL!Logins
  <2>2. TL!TypeOK'
    <3>1. s6' \in [Callers -> [pc : {"idle", "waiting", "used", "failed"}, on : 0 .. s3]]
      BY <1>5, <2>1 DEF TL!LoginSucceeds, TL!Woken, TuyaInv, TL!TypeOK, TL!Logins
    <3>2. s2' \in [TL!Logins -> [state : {"new", "token", "password", "good", "bad"},
                           bind : 0 .. MaxBinds, tries : 0 .. 3]]
      BY <1>5 DEF TL!LoginSucceeds, TL!Woken, TuyaInv, TL!TypeOK
    <3>3. s4' \in 0 .. s3 /\ s5' \in 0 .. s3 /\ UNCHANGED <<s1, s3>>
      BY <1>5, <2>1 DEF TL!LoginSucceeds, TL!Woken, TuyaInv, TL!TypeOK, TL!Logins
    <3>4. QED
      BY <3>1, <3>2, <3>3 DEF TuyaInv, TL!TypeOK
  <2>3. PICK n : n = [s2[l] EXCEPT !.state = "good"]
    OBVIOUS
  <2>4. QED
    BY <1>5, <2>2, <2>3, TuyaMoves
    DEF TL!LoginSucceeds, TuyaInv, TuyaLinks, TL!TypeOK, TL!TwoPasswords, TL!Active
<1>6. ASSUME NEW l \in TL!Logins, TL!LoginFails(l)
      PROVE  TuyaInv'
  <2>1. l <= s3
    BY <1>6 DEF TL!LoginFails, TuyaInv, TuyaLinks, TL!HeldIsCurrent, TL!TypeOK, TL!Logins
  <2>2. TL!TypeOK'
    <3>1. s6' \in [Callers -> [pc : {"idle", "waiting", "used", "failed"}, on : 0 .. s3]]
      BY <1>6, <2>1 DEF TL!LoginFails, TL!Woken, TL!Forgets, TuyaInv, TL!TypeOK, TL!Logins
    <3>2. s2' \in [TL!Logins -> [state : {"new", "token", "password", "good", "bad"},
                           bind : 0 .. MaxBinds, tries : 0 .. 3]]
      BY <1>6 DEF TL!LoginFails, TL!Woken, TL!Forgets, TuyaInv, TL!TypeOK
    <3>3. s4' \in 0 .. s3 /\ s5' \in 0 .. s3 /\ UNCHANGED <<s1, s3>>
      BY <1>6, <2>1 DEF TL!LoginFails, TL!Woken, TL!Forgets, TuyaInv, TL!TypeOK, TL!Logins
    <3>4. QED
      BY <3>1, <3>2, <3>3 DEF TuyaInv, TL!TypeOK
  <2>3. PICK n : n = [s2[l] EXCEPT !.state = "bad"]
    OBVIOUS
  <2>4. QED
    BY <1>6, <2>2, <2>3, TuyaMoves
    DEF TL!LoginFails, TL!Forgets, TuyaInv, TuyaLinks, TL!TypeOK, TL!TwoPasswords, TL!Active
<1>7. ASSUME NEW c \in Callers, TL!JoinsSettled(c) \/ TL!Returns(c)
      PROVE  TuyaInv'
  <2>1. TL!TypeOK'
    BY <1>7 DEF TL!JoinsSettled, TL!Returns, TL!NoCall, TuyaInv, TL!TypeOK
  <2>2. UNCHANGED <<s1, s2, s3, s4, s5>>
    BY <1>7 DEF TL!JoinsSettled, TL!Returns
  <2>3. QED
    BY <2>1, <2>2 DEF TuyaInv, TuyaLinks, TL!HeldIsCurrent, TL!OneLoginPerBind, TL!TwoPasswords,
      TL!FailureIsForgotten, TL!Active
<1>8. QED
  BY <1>1, <1>2, <1>3, <1>4, <1>5, <1>6, <1>7 DEF TL!Next

-----------------------------------------------------------------------------
(* DeviceRegistry.                                                         *)

\* MirrorFollows speaks of a list without gaps; GapIsNoted is what the poll
\* leaves behind where one was.
RegistryLinks == DG!CapsAreCurrent /\ DG!MirrorFollows /\ DG!GapIsNoted
RegistryInv == DG!TypeOK /\ RegistryLinks

\* Lemma.  What a list that lands leaves behind (getDevices, mergeDevices).
LEMMA MergedType ==
  ASSUME RegistryInv, NEW f \in Fetchers, DG!GetDevices(f)
  PROVE  /\ DG!Merged(f) \in DG!Records \cup {Off}
         /\ s3' = DG!Merged(f) /\ s7' = Off
         /\ s4' \in [Fetchers -> [pc : {"none", "asked", "answered"}, rec : DG!Records \cup {Off}, whole : BOOLEAN]]
         /\ s4[f].whole \in BOOLEAN
<1> USE DEF DG!Records
<1>1. s4[f] \in [pc : {"none", "asked", "answered"}, rec : DG!Records \cup {Off}, whole : BOOLEAN]
  BY DEF RegistryInv, DG!TypeOK
<1>2. QED
  BY <1>1 DEF RegistryInv, DG!TypeOK, DG!GetDevices, DG!Merged, DG!CapsAfter, DG!NoFetch

\* Lemma.  A poll tells the host what moved, whatever landed meanwhile (pollChanges).
LEMMA RegistryPoll ==
  ASSUME RegistryInv, DG!PollChanges
  PROVE  RegistryInv'
<1> USE DEF DG!Records
<1> DEFINE m == DG!Merged(Poll)
           w == s4[Poll].whole
<1>1. /\ m \in DG!Records \cup {Off} /\ w \in BOOLEAN
      /\ s3' = m /\ s7' = Off
      /\ s4' \in [Fetchers -> [pc : {"none", "asked", "answered"}, rec : DG!Records \cup {Off}, whole : BOOLEAN]]
      /\ s5' = [rec |-> m, whole |-> w] /\ s8' = DG!Followed
      /\ s9' = (s9 \/ (~w /\ m = Off)) /\ UNCHANGED <<s1, s2>>
  BY PollAssumption, MergedType DEF DG!PollChanges
<1>2. s5 # Off => s5.rec \in DG!Records \cup {Off} /\ s5.whole \in BOOLEAN
  BY DEF RegistryInv, DG!TypeOK
<1>3. s8 \in DG!Records \cup {Off} /\ Off \notin DG!Records
  BY OffAssumption DEF RegistryInv, DG!TypeOK
<1>4. DG!Followed \in DG!Records \cup {Off}
  <2>1. m = Off => DG!Moved = {}
    BY DEF DG!Moved
  <2>2. s8 # Off => [p \in Params |-> IF p \in DG!Moved THEN m[p] ELSE s8[p]] \in DG!Records
    BY <1>1, <1>3, <2>1
  <2>3. QED
    BY <1>1, <2>2 DEF DG!Followed
<1>5. s6' \in [Params -> ParamValues \cup {Off}]
  BY DEF DG!PollChanges, RegistryInv, DG!TypeOK
<1>6. s5' \in [rec : DG!Records \cup {Off}, whole : BOOLEAN]
  BY <1>1
<1>7. s9' \in BOOLEAN
  BY <1>1
<1>8. DG!TypeOK'
  BY <1>1, <1>4, <1>5, <1>6, <1>7 DEF RegistryInv, DG!TypeOK
<1>9. DG!GapIsNoted'
  BY <1>1 DEF DG!GapIsNoted
<1>10. ASSUME ~s9' PROVE DG!Followed = m
  <2>1. ~s9 /\ (w \/ m # Off)
    BY <1>1, <1>10
  <2>2. CASE s5 = Off \/ DG!Added
    BY <2>2 DEF DG!Followed
  <2>3. CASE s5 # Off /\ ~DG!Added /\ (DG!Removed \/ s8 = Off)
    <3>1. s8 = s5.rec /\ (s5.rec = Off => s5.whole)
      BY <2>1, <2>3, <1>2 DEF RegistryInv, RegistryLinks, DG!MirrorFollows, DG!GapIsNoted
    <3>2. m = Off
      BY <2>3, <3>1 DEF DG!Added, DG!Removed, DG!Base
    <3>3. QED
      BY <2>3, <3>2 DEF DG!Followed
  <2>4. CASE s5 # Off /\ ~DG!Added /\ ~DG!Removed /\ s8 # Off
    <3>1. s8 = s5.rec
      BY <2>1, <2>4 DEF RegistryInv, RegistryLinks, DG!MirrorFollows
    <3>2. m # Off
      BY <2>1, <2>4, <3>1 DEF DG!Removed, DG!Base
    <3>3. DG!Followed = [p \in Params |-> IF p \in DG!Moved THEN m[p] ELSE s8[p]]
      BY <2>4 DEF DG!Followed
    <3>4. \A p \in Params : p \notin DG!Moved => s8[p] = m[p]
      BY <2>4, <3>1, <3>2 DEF DG!Moved, DG!Base
    <3>5. DG!Followed = [p \in Params |-> m[p]]
      BY <3>3, <3>4
    <3>6. QED
      BY <3>2, <3>5, <1>1
  <2>5. QED
    BY <2>2, <2>3, <2>4
<1>11. DG!MirrorFollows'
  BY <1>1, <1>10 DEF DG!MirrorFollows
<1>12. DG!CapsAreCurrent'
  BY <1>1 DEF DG!CapsAreCurrent
<1>13. QED
  BY <1>8, <1>9, <1>11, <1>12 DEF RegistryInv, RegistryLinks

\* Lemma.  Every step of the registry keeps its invariant.
LEMMA RegistryStep ==
  ASSUME RegistryInv, DG!Next
  PROVE  RegistryInv'
<1> USE DEF DG!Records
<1>1. CASE DG!CloudMoves
  BY <1>1, BoundsAssumption DEF RegistryInv, RegistryLinks, DG!TypeOK, DG!CapsAreCurrent, DG!MirrorFollows, DG!GapIsNoted, DG!CloudMoves
<1>2. CASE DG!Leaves \/ DG!Joins
  BY <1>2, BoundsAssumption DEF RegistryInv, RegistryLinks, DG!TypeOK, DG!CapsAreCurrent, DG!MirrorFollows, DG!GapIsNoted, DG!Leaves, DG!Joins
<1>3. CASE DG!Capabilities
  BY <1>3 DEF RegistryInv, RegistryLinks, DG!TypeOK, DG!CapsAreCurrent, DG!MirrorFollows, DG!GapIsNoted, DG!Capabilities
<1>4. ASSUME NEW f \in Fetchers, DG!Ask(f) \/ DG!Answered(f) \/ DG!SessionExpired(f)
      PROVE  RegistryInv'
  <2>1. UNCHANGED <<s1, s2, s3, s5, s6, s7, s8, s9>>
    BY <1>4 DEF DG!Ask, DG!Answered, DG!SessionExpired
  <2> DEFINE F == [pc : {"none", "asked", "answered"}, rec : DG!Records \cup {Off}, whole : BOOLEAN]
  <2>2. s4' \in [Fetchers -> F]
    <3>1. s4 \in [Fetchers -> F] /\ s1 \in DG!Records \cup {Off}
      BY DEF RegistryInv, DG!TypeOK
    <3>2. CASE DG!Ask(f)
      BY <3>1, <3>2 DEF DG!Ask
    <3>3. CASE DG!Answered(f)
      <4>1. PICK r \in F : s4' = [s4 EXCEPT ![f] = r]
        BY <3>1, <3>3 DEF DG!Answered
      <4>2. QED
        BY <3>1, <4>1
    <3>4. CASE DG!SessionExpired(f)
      BY <3>1, <3>4 DEF DG!SessionExpired, DG!NoFetch
    <3>5. QED
      BY <1>4, <3>2, <3>3, <3>4
  <2>3. QED
    BY <2>1, <2>2 DEF RegistryInv, RegistryLinks, DG!TypeOK, DG!CapsAreCurrent, DG!MirrorFollows, DG!GapIsNoted
<1>5. ASSUME NEW f \in Fetchers, DG!ListLands(f)
      PROVE  RegistryInv'
  BY <1>5, MergedType DEF RegistryInv, RegistryLinks, DG!TypeOK, DG!CapsAreCurrent, DG!MirrorFollows, DG!GapIsNoted, DG!ListLands
<1>6. ASSUME NEW p \in Params, NEW v \in ParamValues, DG!ApplyRealtimeParams(p, v)
      PROVE  RegistryInv'
  BY <1>6, BoundsAssumption DEF RegistryInv, RegistryLinks, DG!TypeOK, DG!CapsAreCurrent, DG!MirrorFollows, DG!GapIsNoted, DG!ApplyRealtimeParams
<1>7. QED
  BY <1>1, <1>2, <1>3, <1>4, <1>5, <1>6, RegistryPoll DEF DG!Next

-----------------------------------------------------------------------------
(* ControlCommands.                                                        *)

\* Each call is sound on its own; the session is typed.
ControlInv == CC!TypeOK /\ \A c \in Callers : CC!Sound(c)

\* Lemma.  A step of one call leaves the others as they are (dispatchCommand).
LEMMA ControlOthers ==
  ASSUME ControlInv, NEW c \in Callers,
         s3' = [s3 EXCEPT ![c] = s3'[c]], s4' = [s4 EXCEPT ![c] = s4'[c]],
         s5' = [s5 EXCEPT ![c] = s5'[c]], s6' = [s6 EXCEPT ![c] = s6'[c]],
         s3'[c] \in CC!CallState, s4'[c] \in 0 .. MaxSessions, s5'[c] \in BOOLEAN, s6'[c] \in BOOLEAN,
         CC!Sound(c)', UNCHANGED <<s1, s2>>
  PROVE  ControlInv'
<1>1. CC!TypeOK'
  BY DEF ControlInv, CC!TypeOK
<1>2. ASSUME NEW d \in Callers, d # c PROVE CC!Sound(d)'
  <2>1. s3'[d] = s3[d] /\ s4'[d] = s4[d] /\ s5'[d] = s5[d] /\ s6'[d] = s6[d]
    BY <1>2 DEF ControlInv, CC!TypeOK
  <2>2. QED
    BY <1>2, <2>1 DEF ControlInv, CC!Sound, CC!Listens, CC!Asking
<1>3. QED
  BY <1>1, <1>2 DEF ControlInv

\* Lemma.  The session opens, gets its key and closes under the calls.
LEMMA ControlSession ==
  ASSUME ControlInv, CC!KeyArrives \/ CC!Closes \/ CC!Reopens
  PROVE  ControlInv'
<1>1. UNCHANGED <<s3, s4, s5, s6>>
  BY DEF CC!KeyArrives, CC!Closes, CC!Reopens
<1>2. CC!TypeOK'
  <2>1. s1' \in [CC!Sessions -> {"none", "open", "keyed", "closed"}]
    BY DEF ControlInv, CC!TypeOK, CC!KeyArrives, CC!Closes, CC!Reopens
  <2>2. s2' \in CC!Sessions
    BY BoundsAssumption DEF ControlInv, CC!TypeOK, CC!Sessions, CC!KeyArrives, CC!Closes, CC!Reopens
  <2>3. QED
    BY <1>1, <2>1, <2>2 DEF ControlInv, CC!TypeOK
<1>3. QED
  BY <1>1, <1>2 DEF ControlInv, CC!Sound, CC!Listens, CC!Asking

\* Lemma.  Every step of a call keeps it sound: its listener is taken down with
\* its answer, and what it reports was sent (p2pQuery, replayLevel2Send).
LEMMA ControlCall ==
  ASSUME ControlInv, NEW c \in Callers,
         \/ \E k \in CC!Kinds : CC!Dispatch(c, k)
         \/ CC!Resolved(c) \/ CC!ResolveFails(c) \/ CC!SendOne(c) \/ CC!NeverSent(c) \/ CC!BatchDone(c)
         \/ CC!Hears(c) \/ CC!Answered(c) \/ CC!Timeout(c)
  PROVE  ControlInv'
<1> USE DEF CC!Settled
<1>0. /\ s3[c] \in CC!CallState /\ s4[c] \in 0 .. MaxSessions /\ s5[c] \in BOOLEAN /\ s6[c] \in BOOLEAN
      /\ s2 \in 1 .. MaxSessions /\ CC!Sound(c) /\ MaxSessions \in Nat /\ MaxSends \in Nat
  BY BoundsAssumption DEF ControlInv, CC!TypeOK, CC!Sessions
<1>a. /\ DOMAIN s3 = Callers /\ DOMAIN s4 = Callers /\ DOMAIN s5 = Callers /\ DOMAIN s6 = Callers
      /\ s3 = [d \in Callers |-> s3[d]] /\ s4 = [d \in Callers |-> s4[d]] 
      /\ s5 = [d \in Callers |-> s5[d]] /\ s6 = [d \in Callers |-> s6[d]]
  BY DEF ControlInv, CC!TypeOK
<1>1. ASSUME NEW k \in CC!Kinds, CC!Dispatch(c, k) PROVE ControlInv'
  <2>1. /\ s3' = [s3 EXCEPT ![c] = s3'[c]] /\ s4' = [s4 EXCEPT ![c] = s4'[c]]
        /\ s5' = [s5 EXCEPT ![c] = s5'[c]] /\ s6' = [s6 EXCEPT ![c] = s6'[c]]
        /\ UNCHANGED <<s1, s2>>
    BY <1>1, <1>a DEF CC!Dispatch, CC!NoCall, CC!Kinds
  <2>2. s3'[c] \in CC!CallState
    <3>1. PICK p \in {"threw", "resolving"} : s3'[c] = [CC!NoCall EXCEPT !.kind = k, !.pc = p]
      BY <1>1, <1>a DEF CC!Dispatch
    <3>2. s3'[c] = [pc |-> p, kind |-> k, on |-> 0, level |-> 0, left |-> 0, sent |-> FALSE, step |-> 0]
      BY <3>1 DEF CC!NoCall
    <3>3. /\ p \in CC!Settled \cup {"resolving", "sending", "waiting"} /\ k \in CC!Kinds
          /\ 0 \in 0 .. MaxSessions /\ 0 \in 0 .. 2 /\ 0 \in 0 .. MaxSends + 2 /\ 0 \in 0 .. 1
      BY <1>0, <1>1
    <3>4. QED
      BY <3>2, <3>3 DEF CC!CallState
  <2>3. s4'[c] \in 0 .. MaxSessions /\ s5'[c] \in BOOLEAN /\ s6'[c] \in BOOLEAN
    BY <1>1, <1>0, <1>a DEF CC!Dispatch, CC!NoCall, CC!Kinds
  <2>4. CC!Sound(c)'
    BY <1>1, <1>0, <1>a DEF CC!Dispatch, CC!NoCall, CC!Kinds, CC!CallState, CC!Sound, CC!Listens, CC!Asking
  <2>5. QED
    BY <2>1, <2>2, <2>3, <2>4, ControlOthers
<1>2. CASE CC!ResolveFails(c)
  <2>1. /\ s3' = [s3 EXCEPT ![c] = s3'[c]] /\ s4' = [s4 EXCEPT ![c] = s4'[c]]
        /\ s5' = [s5 EXCEPT ![c] = s5'[c]] /\ s6' = [s6 EXCEPT ![c] = s6'[c]]
        /\ UNCHANGED <<s1, s2>>
    BY <1>2, <1>a DEF CC!ResolveFails, CC!Cleanup
  <2>2. s3'[c] \in CC!CallState
    BY <1>2, <1>0, <1>a DEF CC!ResolveFails, CC!Cleanup, CC!CallState
  <2>3. s4'[c] \in 0 .. MaxSessions /\ s5'[c] \in BOOLEAN /\ s6'[c] \in BOOLEAN
    BY <1>2, <1>0, <1>a DEF CC!ResolveFails, CC!Cleanup
  <2>4. CC!Sound(c)'
    BY <1>2, <1>0, <1>a DEF CC!ResolveFails, CC!Cleanup, CC!CallState, CC!Sound, CC!Listens, CC!Asking
  <2>5. QED
    BY <2>1, <2>2, <2>3, <2>4, ControlOthers
<1>3. CASE CC!SendOne(c)
  <2>1. /\ s3' = [s3 EXCEPT ![c] = s3'[c]] /\ s4' = [s4 EXCEPT ![c] = s4'[c]]
        /\ s5' = [s5 EXCEPT ![c] = s5'[c]] /\ s6' = [s6 EXCEPT ![c] = s6'[c]]
        /\ UNCHANGED <<s1, s2>>
    BY <1>3, <1>a DEF CC!SendOne
  <2>2. s3'[c] \in CC!CallState
    BY <1>3, <1>0, <1>a DEF CC!SendOne, CC!CallState
  <2>3. s4'[c] \in 0 .. MaxSessions /\ s5'[c] \in BOOLEAN /\ s6'[c] \in BOOLEAN
    BY <1>3, <1>0, <1>a DEF CC!SendOne
  <2>4. CC!Sound(c)'
    BY <1>3, <1>0, <1>a DEF CC!SendOne, CC!CallState, CC!Sound, CC!Listens, CC!Asking
  <2>5. QED
    BY <2>1, <2>2, <2>3, <2>4, ControlOthers
<1>4. CASE CC!NeverSent(c)
  <2>1. /\ s3' = [s3 EXCEPT ![c] = s3'[c]] /\ s4' = [s4 EXCEPT ![c] = s4'[c]]
        /\ s5' = [s5 EXCEPT ![c] = s5'[c]] /\ s6' = [s6 EXCEPT ![c] = s6'[c]]
        /\ UNCHANGED <<s1, s2>>
    BY <1>4, <1>a DEF CC!NeverSent, CC!Unsent, CC!Cleanup
  <2>2. s3'[c] \in CC!CallState
    BY <1>4, <1>0, <1>a DEF CC!NeverSent, CC!Unsent, CC!Cleanup, CC!CallState
  <2>3. s4'[c] \in 0 .. MaxSessions /\ s5'[c] \in BOOLEAN /\ s6'[c] \in BOOLEAN
    BY <1>4, <1>0, <1>a DEF CC!NeverSent, CC!Unsent, CC!Cleanup
  <2>4. CC!Sound(c)'
    BY <1>4, <1>0, <1>a DEF CC!NeverSent, CC!Unsent, CC!Cleanup, CC!CallState, CC!Sound, CC!Listens, CC!Asking
  <2>5. QED
    BY <2>1, <2>2, <2>3, <2>4, ControlOthers
<1>5. CASE CC!BatchDone(c)
  <2>1. /\ s3' = [s3 EXCEPT ![c] = s3'[c]] /\ s4' = [s4 EXCEPT ![c] = s4'[c]]
        /\ s5' = [s5 EXCEPT ![c] = s5'[c]] /\ s6' = [s6 EXCEPT ![c] = s6'[c]]
        /\ UNCHANGED <<s1, s2>>
    BY <1>5, <1>a DEF CC!BatchDone, CC!Unsent, CC!Asking
  <2>2. s3'[c] \in CC!CallState
    BY <1>5, <1>0, <1>a DEF CC!BatchDone, CC!Unsent, CC!Asking, CC!CallState
  <2>3. s4'[c] \in 0 .. MaxSessions /\ s5'[c] \in BOOLEAN /\ s6'[c] \in BOOLEAN
    BY <1>5, <1>0, <1>a DEF CC!BatchDone, CC!Unsent, CC!Asking
  <2>4. CC!Sound(c)'
    <3>1. /\ s3'[c] = [s3[c] EXCEPT !.pc = IF CC!Asking(c) THEN "waiting" ELSE "returned"]
          /\ s4'[c] = s4[c] /\ s5'[c] = s5[c] /\ s6'[c] = s6[c]
          /\ s3[c].pc = "sending" /\ ~CC!Unsent(c)
      BY <1>5, <1>a DEF CC!BatchDone
    <3>2. s3[c].kind \in {"autolock", "state"} => s3[c].level = 2
      BY <1>0, <3>1 DEF CC!Sound
    <3>3. CASE CC!Asking(c)
      <4>1. s3'[c].pc = "waiting" /\ s3'[c].kind = s3[c].kind /\ s3'[c].level = s3[c].level
        BY <1>0, <3>1, <3>3 DEF CC!CallState
      <4>2. s3[c].sent
        BY <1>0, <3>1, <3>2, <3>3 DEF CC!Unsent, CC!Asking, CC!CallState
      <4>3. QED
        BY <1>0, <3>1, <3>2, <4>1, <4>2 DEF CC!Sound, CC!Listens
    <3>4. CASE ~CC!Asking(c)
      <4>1. /\ s3'[c].pc = "returned" /\ s3'[c].kind = s3[c].kind /\ s3'[c].level = s3[c].level
        BY <1>0, <3>1, <3>4 DEF CC!CallState
      <4>2. s4[c] = 0
        BY <1>0, <3>1, <3>4 DEF CC!Sound, CC!Listens
      <4>3. s3[c].level = 2 /\ s3[c].kind # "burst" => s6[c]
        BY <1>0, <3>1 DEF CC!Unsent, CC!Sound
      <4>4. QED
        BY <3>1, <4>1, <4>2, <4>3 DEF CC!Sound
    <3>5. QED
      BY <3>3, <3>4
  <2>5. QED
    BY <2>1, <2>2, <2>3, <2>4, ControlOthers
<1>6. CASE CC!Hears(c)
  <2>1. /\ s3' = [s3 EXCEPT ![c] = s3'[c]] /\ s4' = [s4 EXCEPT ![c] = s4'[c]]
        /\ s5' = [s5 EXCEPT ![c] = s5'[c]] /\ s6' = [s6 EXCEPT ![c] = s6'[c]]
        /\ UNCHANGED <<s1, s2>>
    BY <1>6, <1>a DEF CC!Hears, CC!Cleanup
  <2>2. s3'[c] \in CC!CallState
    BY <1>6, <1>0, <1>a DEF CC!Hears, CC!Cleanup, CC!CallState
  <2>3. s4'[c] \in 0 .. MaxSessions /\ s5'[c] \in BOOLEAN /\ s6'[c] \in BOOLEAN
    BY <1>6, <1>0, <1>a DEF CC!Hears, CC!Cleanup
  <2>4. CC!Sound(c)'
    BY <1>6, <1>0, <1>a DEF CC!Hears, CC!Cleanup, CC!CallState, CC!Sound, CC!Listens, CC!Asking
  <2>5. QED
    BY <2>1, <2>2, <2>3, <2>4, ControlOthers
<1>7. CASE CC!Answered(c)
  <2>1. /\ s3' = [s3 EXCEPT ![c] = s3'[c]] /\ s4' = [s4 EXCEPT ![c] = s4'[c]]
        /\ s5' = [s5 EXCEPT ![c] = s5'[c]] /\ s6' = [s6 EXCEPT ![c] = s6'[c]]
        /\ UNCHANGED <<s1, s2>>
    BY <1>7, <1>a DEF CC!Answered
  <2>2. s3'[c] \in CC!CallState
    BY <1>7, <1>0, <1>a DEF CC!Answered, CC!CallState
  <2>3. s4'[c] \in 0 .. MaxSessions /\ s5'[c] \in BOOLEAN /\ s6'[c] \in BOOLEAN
    BY <1>7, <1>0, <1>a DEF CC!Answered
  <2>4. CC!Sound(c)'
    <3>1. s3[c].pc = "waiting" /\ s5[c] /\ s4'[c] = s4[c] /\ s5'[c] = s5[c] /\ s4[c] = 0
      BY <1>7, <1>0, <1>a DEF CC!Answered, CC!Sound
    <3>2. CASE s3[c].kind = "autolock"
      <4>1. s3'[c].pc = "sending" /\ s3'[c].sent = FALSE /\ s3'[c].level = s3[c].level
        <5>1. s3'[c] = [s3[c] EXCEPT !.pc = "sending", !.left = MaxSends, !.sent = FALSE, !.step = 1]
          BY <1>7, <1>a, <3>2 DEF CC!Answered
        <5>2. QED
          BY <1>0, <5>1 DEF CC!CallState
      <4>2. s3[c].level = 2
        BY <1>0, <3>1, <3>2 DEF CC!Sound
      <4>3. QED
        BY <3>1, <4>1, <4>2 DEF CC!Sound
    <3>3. CASE s3[c].kind # "autolock"
      <4>1. s3'[c].pc = "returned" /\ s6'[c] = s6[c]
        BY <1>7, <1>0, <1>a, <3>3 DEF CC!Answered, CC!CallState
      <4>2. QED
        BY <1>0, <3>1, <4>1 DEF CC!Sound
    <3>4. QED
      BY <3>2, <3>3
  <2>5. QED
    BY <2>1, <2>2, <2>3, <2>4, ControlOthers
<1>8. CASE CC!Timeout(c)
  <2>1. /\ s3' = [s3 EXCEPT ![c] = s3'[c]] /\ s4' = [s4 EXCEPT ![c] = s4'[c]]
        /\ s5' = [s5 EXCEPT ![c] = s5'[c]] /\ s6' = [s6 EXCEPT ![c] = s6'[c]]
        /\ UNCHANGED <<s1, s2>>
    BY <1>8, <1>a DEF CC!Timeout, CC!Cleanup
  <2>2. s3'[c] \in CC!CallState
    BY <1>8, <1>0, <1>a DEF CC!Timeout, CC!Cleanup, CC!CallState
  <2>3. s4'[c] \in 0 .. MaxSessions /\ s5'[c] \in BOOLEAN /\ s6'[c] \in BOOLEAN
    BY <1>8, <1>0, <1>a DEF CC!Timeout, CC!Cleanup
  <2>4. CC!Sound(c)'
    BY <1>8, <1>0, <1>a DEF CC!Timeout, CC!Cleanup, CC!CallState, CC!Sound, CC!Listens, CC!Asking
  <2>5. QED
    BY <2>1, <2>2, <2>3, <2>4, ControlOthers
<1>9. CASE CC!Resolved(c)
  <2> DEFINE Keeps == /\ s3' = [s3 EXCEPT ![c] = s3'[c]] /\ s4' = [s4 EXCEPT ![c] = s4'[c]]
                      /\ s6' = [s6 EXCEPT ![c] = s6'[c]]
             Typed == s3'[c] \in CC!CallState /\ s4'[c] \in {s4[c], s2} /\ s6'[c] \in {s6[c], TRUE}
  <2>0. s3[c].pc = "resolving" /\ UNCHANGED <<s1, s2, s5>>
    BY <1>9 DEF CC!Resolved
  <2>1. ASSUME CC!Replays(c) PROVE Keeps /\ Typed /\ CC!Sound(c)'
    <3>1. Keeps
      BY <2>1, <1>a DEF CC!Replays, CC!Batch, CC!Quiet, CC!Kind
    <3>2. Typed
      BY <2>1, <1>0, <1>a DEF CC!Replays, CC!Batch, CC!Quiet, CC!Kind, CC!CallState
    <3>3. CC!Sound(c)'
      BY <2>0, <2>1, <1>0, <1>a DEF CC!Replays, CC!Batch, CC!Quiet, CC!Kind, CC!CallState, CC!Sound, CC!Listens, CC!Asking
    <3>4. QED
      BY <3>1, <3>2, <3>3
  <2>2. ASSUME CC!PrivacyBurst(c) PROVE Keeps /\ Typed /\ CC!Sound(c)'
    <3>1. Keeps
      BY <2>2, <1>a DEF CC!PrivacyBurst, CC!Batch, CC!Quiet, CC!Kind
    <3>2. Typed
      BY <2>2, <1>0, <1>a DEF CC!PrivacyBurst, CC!Batch, CC!Quiet, CC!Kind, CC!CallState
    <3>3. CC!Sound(c)'
      BY <2>0, <2>2, <1>0, <1>a DEF CC!PrivacyBurst, CC!Batch, CC!Quiet, CC!Kind, CC!CallState, CC!Sound, CC!Listens, CC!Asking
    <3>4. QED
      BY <3>1, <3>2, <3>3
  <2>3. ASSUME CC!IntStringCommand(c) PROVE Keeps /\ Typed /\ CC!Sound(c)'
    <3>1. Keeps
      BY <2>3, <1>a DEF CC!IntStringCommand, CC!Batch, CC!Quiet, CC!Kind
    <3>2. Typed
      BY <2>3, <1>0, <1>a DEF CC!IntStringCommand, CC!Batch, CC!Quiet, CC!Kind, CC!CallState
    <3>3. CC!Sound(c)'
      BY <2>0, <2>3, <1>0, <1>a DEF CC!IntStringCommand, CC!Batch, CC!Quiet, CC!Kind, CC!CallState, CC!Sound, CC!Listens, CC!Asking
    <3>4. QED
      BY <3>1, <3>2, <3>3
  <2>4. ASSUME CC!IntString(c) PROVE Keeps /\ Typed /\ CC!Sound(c)'
    <3>1. Keeps
      BY <2>4, <1>a DEF CC!IntString, CC!Once, CC!Kind
    <3>2. Typed
      BY <2>4, <1>0, <1>a DEF CC!IntString, CC!Once, CC!Kind, CC!CallState
    <3>3. CC!Sound(c)'
      BY <2>0, <2>4, <1>0, <1>a DEF CC!IntString, CC!Once, CC!Kind, CC!CallState, CC!Sound, CC!Listens, CC!Asking
    <3>4. QED
      BY <3>1, <3>2, <3>3
  <2>5. ASSUME CC!ScalarLevel(c) PROVE Keeps /\ Typed /\ CC!Sound(c)'
    <3>1. Keeps
      BY <2>5, <1>a DEF CC!ScalarLevel, CC!Level, CC!Quiet, CC!Kind, CC!Fresh
    <3>2. Typed
      BY <2>5, <1>0, <1>a DEF CC!ScalarLevel, CC!Level, CC!Quiet, CC!Kind, CC!Fresh, CC!CallState
    <3>3. CC!Sound(c)'
      BY <2>0, <2>5, <1>0, <1>a DEF CC!ScalarLevel, CC!Level, CC!Quiet, CC!Kind, CC!Fresh, CC!CallState, CC!Sound, CC!Listens, CC!Asking
    <3>4. QED
      BY <3>1, <3>2, <3>3
  <2>6. ASSUME CC!PayloadLevel(c) PROVE Keeps /\ Typed /\ CC!Sound(c)'
    <3>1. Keeps
      BY <2>6, <1>a DEF CC!PayloadLevel, CC!Level, CC!Once, CC!Quiet, CC!Kind, CC!Fresh
    <3>2. Typed
      <4>1. s3'[c] \in CC!CallState
        <5>1. s3'[c] \in {[s3[c] EXCEPT !.level = 2], [s3[c] EXCEPT !.pc = "returned", !.on = s2, !.level = 1]}
          BY <2>6, <1>a DEF CC!PayloadLevel, CC!Once
        <5>2. s2 \in 0 .. MaxSessions /\ 1 \in 0 .. 2 /\ 2 \in 0 .. 2
          BY <1>0
        <5>3. QED
          BY <1>0, <5>1, <5>2 DEF CC!CallState
      <4>2. s4'[c] \in {s4[c], s2} /\ s6'[c] \in {s6[c], TRUE}
        BY <2>6, <1>a DEF CC!PayloadLevel, CC!Once, CC!Quiet
      <4>3. QED
        BY <4>1, <4>2
    <3>3. CC!Sound(c)'
      BY <2>0, <2>6, <1>0, <1>a DEF CC!PayloadLevel, CC!Level, CC!Once, CC!Quiet, CC!Kind, CC!Fresh, CC!CallState, CC!Sound, CC!Listens, CC!Asking
    <3>4. QED
      BY <3>1, <3>2, <3>3
  <2>7. ASSUME CC!ControlPayload(c) PROVE Keeps /\ Typed /\ CC!Sound(c)'
    <3>1. Keeps
      BY <2>7, <1>a DEF CC!ControlPayload, CC!Level, CC!Once, CC!Kind
    <3>2. Typed
      BY <2>7, <1>0, <1>a DEF CC!ControlPayload, CC!Level, CC!Once, CC!Kind, CC!CallState
    <3>3. CC!Sound(c)'
      BY <2>0, <2>7, <1>0, <1>a DEF CC!ControlPayload, CC!Level, CC!Once, CC!Kind, CC!CallState, CC!Sound, CC!Listens, CC!Asking
    <3>4. QED
      BY <3>1, <3>2, <3>3
  <2>8. ASSUME CC!SettingsGet(c) PROVE Keeps /\ Typed /\ CC!Sound(c)'
    <3>1. Keeps
      BY <2>8, <1>a DEF CC!SettingsGet, CC!Batch, CC!Arm, CC!Kind
    <3>2. Typed
      BY <2>8, <1>0, <1>a DEF CC!SettingsGet, CC!Batch, CC!Arm, CC!Kind, CC!CallState
    <3>3. CC!Sound(c)'
      BY <2>0, <2>8, <1>0, <1>a DEF CC!SettingsGet, CC!Batch, CC!Arm, CC!Kind, CC!CallState, CC!Sound, CC!Listens, CC!Asking
    <3>4. QED
      BY <3>1, <3>2, <3>3
  <2>9. ASSUME CC!Query(c) PROVE Keeps /\ Typed /\ CC!Sound(c)'
    <3>1. Keeps
      BY <2>9, <1>a DEF CC!Query, CC!Level, CC!Once, CC!Arm, CC!Kind
    <3>2. Typed
      BY <2>9, <1>0, <1>a DEF CC!Query, CC!Level, CC!Once, CC!Arm, CC!Kind, CC!CallState
    <3>3. CC!Sound(c)'
      BY <2>0, <2>9, <1>0, <1>a DEF CC!Query, CC!Level, CC!Once, CC!Arm, CC!Kind, CC!CallState, CC!Sound, CC!Listens, CC!Asking
    <3>4. QED
      BY <3>1, <3>2, <3>3
  <2>10. ASSUME CC!RtspRead(c) PROVE Keeps /\ Typed /\ CC!Sound(c)'
    <3>1. Keeps
      BY <2>10, <1>a DEF CC!RtspRead, CC!Level, CC!Once, CC!Arm, CC!Kind
    <3>2. Typed
      BY <2>10, <1>0, <1>a DEF CC!RtspRead, CC!Level, CC!Once, CC!Arm, CC!Kind, CC!CallState
    <3>3. CC!Sound(c)'
      BY <2>0, <2>10, <1>0, <1>a DEF CC!RtspRead, CC!Level, CC!Once, CC!Arm, CC!Kind, CC!CallState, CC!Sound, CC!Listens, CC!Asking
    <3>4. QED
      BY <3>1, <3>2, <3>3
  <2>11. ASSUME CC!ControlQuery(c) PROVE Keeps /\ Typed /\ CC!Sound(c)'
    <3>1. Keeps
      BY <2>11, <1>a DEF CC!ControlQuery, CC!Level, CC!Once, CC!Arm, CC!Kind
    <3>2. Typed
      <4>1. s3'[c] \in CC!CallState
        <5>1. CASE s3[c].step = 0
          <6>1. s3'[c] = [s3[c] EXCEPT !.step = 1]
            BY <2>11, <1>a, <5>1 DEF CC!ControlQuery
          <6>2. QED
            BY <1>0, <6>1 DEF CC!CallState
        <5>2. CASE s3[c].step = 1
          <6>1. s3'[c] = [s3[c] EXCEPT !.pc = "waiting", !.on = s2, !.level = CC!Level(c)]
            BY <2>11, <1>a, <5>2 DEF CC!ControlQuery, CC!Once
          <6>2. CC!Level(c) \in 0 .. 2 /\ s2 \in 0 .. MaxSessions
            BY <1>0 DEF CC!Level
          <6>3. QED
            BY <1>0, <6>1, <6>2 DEF CC!CallState
        <5>3. QED
          BY <2>11, <5>1, <5>2 DEF CC!ControlQuery
      <4>2. s4'[c] \in {s4[c], s2} /\ s6'[c] \in {s6[c], TRUE}
        BY <2>11, <1>a DEF CC!ControlQuery, CC!Once, CC!Arm
      <4>3. QED
        BY <4>1, <4>2
    <3>3. CC!Sound(c)'
      BY <2>0, <2>11, <1>0, <1>a DEF CC!ControlQuery, CC!Level, CC!Once, CC!Arm, CC!Kind, CC!CallState, CC!Sound, CC!Listens, CC!Asking
    <3>4. QED
      BY <3>1, <3>2, <3>3
  <2>12. Keeps /\ Typed /\ CC!Sound(c)'
    BY <1>9, <2>1, <2>2, <2>3, <2>4, <2>5, <2>6, <2>7, <2>8, <2>9, <2>10, <2>11 DEF CC!Resolved
  <2>13. s4'[c] \in 0 .. MaxSessions /\ s5'[c] \in BOOLEAN /\ s6'[c] \in BOOLEAN
    <3>1. s2 \in 0 .. MaxSessions
      BY <1>0
    <3>2. s4'[c] \in 0 .. MaxSessions
      BY <1>0, <2>12, <3>1
    <3>3. s5'[c] \in BOOLEAN /\ s6'[c] \in BOOLEAN
      BY <1>0, <2>0, <2>12
    <3>4. QED
      BY <3>2, <3>3
  <2>14. s5' = [s5 EXCEPT ![c] = s5'[c]]
    BY <2>0, <1>a
  <2>15. QED
    BY <2>0, <2>12, <2>13, <2>14, ControlOthers
<1>10. QED
  BY <1>1, <1>2, <1>3, <1>4, <1>5, <1>6, <1>7, <1>8, <1>9

\* Lemma.  Every step of the control commands keeps their invariant.
LEMMA ControlStep ==
  ASSUME ControlInv, CC!Next
  PROVE  ControlInv'
BY ControlSession, ControlCall DEF CC!Next

-----------------------------------------------------------------------------
(* Availability and EventFanout.                                           *)

\* Lemma.  What applyAvailabilityObservation turns down is older than what it
\* keeps, and what it takes is not: the order of the evidence is kept.
LEMMA NewestOrder ==
  ASSUME AV!TypeOK, NEW i \in 1 .. Len(s3)
  PROVE  /\ ~AV!Later(i, i)
         /\ \A j \in 1 .. Len(s3) : s5 = j /\ ~AV!TurnedDown(i) => ~AV!Later(j, i)
         /\ \A j \in 1 .. Len(s3) : s5 = j /\ AV!TurnedDown(i) => ~AV!Later(i, j)
         /\ \A h, j \in 1 .. Len(s3) : ~AV!Later(h, j) /\ ~AV!Later(j, i) => ~AV!Later(h, i)
<1>1. \A j \in 1 .. Len(s3) : s3[j].clock \in Nat /\ s3[j].count \in Nat
  <2>1. \A j \in 1 .. Len(s3) : s3[j] \in AV!Observation
    BY DEF AV!TypeOK
  <2>2. QED
    BY <2>1 DEF AV!Observation
<1>2. ~AV!Later(i, i)
  BY <1>1, OffAssumption DEF AV!Later, AV!observedAt, AV!sequence
<1>3. ASSUME NEW j \in 1 .. Len(s3), s5 = j, ~AV!TurnedDown(i) PROVE ~AV!Later(j, i)
  BY <1>1, <1>3, OffAssumption DEF AV!Later, AV!observedAt, AV!sequence, AV!TurnedDown
<1>4. ASSUME NEW h \in 1 .. Len(s3), NEW j \in 1 .. Len(s3), ~AV!Later(h, j), ~AV!Later(j, i)
      PROVE ~AV!Later(h, i)
  BY <1>1, <1>4, OffAssumption DEF AV!Later, AV!observedAt, AV!sequence
<1>5. ASSUME NEW j \in 1 .. Len(s3), s5 = j, AV!TurnedDown(i) PROVE ~AV!Later(i, j)
  BY <1>1, <1>5, OffAssumption DEF AV!Later, AV!observedAt, AV!sequence, AV!TurnedDown
<1>6. QED
  BY <1>2, <1>3, <1>4, <1>5

\* The newest of what was heard is kept; that is inductive with its type.
AvInv == AV!TypeOK /\ AV!NewestIsKept

\* Lemma.  A late observation never displaces a newer one.
LEMMA AvStep ==
  ASSUME AvInv, AV!Next
  PROVE  AvInv'
<1>1. CASE AV!Sends
  <2>1. PICK m \in AV!Observation : s3' = Append(s3, m)
    <3>1. AV!LastAt \in Nat /\ AV!LastNo \in Nat
      <4>1. s3 # <<>> => s3[Len(s3)] \in AV!Observation
        BY DEF AvInv, AV!TypeOK
      <4>2. QED
        BY <4>1 DEF AV!LastAt, AV!LastNo, AV!Observation
    <3>2. PICK up \in BOOLEAN, t \in {AV!LastAt, AV!LastAt + 1}, n \in {1, AV!LastNo, AV!LastNo + 1} :
            s3' = Append(s3, [status |-> up, clock |-> t, count |-> n])
      BY <1>1 DEF AV!Sends
    <3>3. [status |-> up, clock |-> t, count |-> n] \in AV!Observation
      BY <3>1 DEF AV!Observation
    <3>4. QED
      BY <3>2, <3>3
  <2>2. s3' \in Seq(AV!Observation) /\ Len(s3') = Len(s3) + 1 /\ \A j \in 1 .. Len(s3) : s3'[j] = s3[j]
    BY <2>1 DEF AvInv, AV!TypeOK
  <2>3. UNCHANGED <<s1, s2, s4, s5, s6>>
    BY <1>1 DEF AV!Sends
  <2>4. AV!TypeOK'
    BY <2>2, <2>3 DEF AvInv, AV!TypeOK
  <2>5. \A h, j \in 1 .. Len(s3) : AV!Later(h, j)' = AV!Later(h, j)
    BY <2>2, <2>3 DEF AV!Later, AV!observedAt, AV!sequence
  <2>6. AV!NewestIsKept'
    BY <2>2, <2>3, <2>5 DEF AvInv, AV!TypeOK, AV!NewestIsKept
  <2>7. QED
    BY <2>4, <2>6 DEF AvInv
<1>2. ASSUME NEW i \in 1 .. Len(s3), AV!ApplyObservation(i)
      PROVE  AvInv'
  <2>1. s4' = s4 \cup {i} /\ UNCHANGED <<s1, s2, s3>>
    BY <1>2 DEF AV!ApplyObservation
  <2>2. \A h, j : AV!Later(h, j)' = AV!Later(h, j)
    BY <2>1 DEF AV!Later, AV!observedAt, AV!sequence
  <2>3. CASE AV!TurnedDown(i) /\ UNCHANGED <<s5, s6>>
    <3>1. AV!TypeOK'
      BY <2>1, <2>3 DEF AvInv, AV!TypeOK, AV!TurnedDown
    <3>2. s5 \in 1 .. Len(s3) /\ ~AV!Later(i, s5)
      BY <2>3, NewestOrder DEF AvInv, AV!TypeOK, AV!TurnedDown
    <3>3. AV!NewestIsKept'
      BY <2>1, <2>2, <2>3, <3>2 DEF AvInv, AV!NewestIsKept
    <3>4. QED
      BY <3>1, <3>3 DEF AvInv
  <2>4. CASE ~AV!TurnedDown(i) /\ s5' = i /\ s6' = s3[i].status
    <3>1. AV!TypeOK'
      BY <2>1, <2>4 DEF AvInv, AV!TypeOK
    <3>2. \A h \in s4 : ~AV!Later(h, i)
      BY <2>4, NewestOrder DEF AvInv, AV!TypeOK, AV!NewestIsKept
    <3>3. ~AV!Later(i, i)
      BY NewestOrder DEF AvInv
    <3>4. AV!NewestIsKept'
      BY <2>1, <2>2, <2>4, <3>2, <3>3 DEF AV!NewestIsKept
    <3>5. QED
      BY <3>1, <3>4 DEF AvInv
  <2>5. QED
    BY <1>2, <2>3, <2>4 DEF AV!ApplyObservation
<1>3. QED
  BY <1>1, <1>2 DEF AV!Next

\* What was noted, what the host was told and what was reported agree.
EventsInv == s9 = s11 /\ s10 = s11

\* Lemma.  Every report is noted and told in the step it arrives in, and what a
\* disconnection forgets is forgotten everywhere (noteState, emitSemantic).
LEMMA EventsStep ==
  ASSUME EventsInv, EF!Next
  PROVE  EventsInv'
BY DEF EventsInv, EF!Next, EF!DoorMoves, EF!FrameArrives, EF!PushArrives, EF!PollAsks, EF!PollAnswered,
   EF!PollGoesThrough, EF!Disconnect, EF!P2PCloses, EF!PushCloses, EF!LogsInAgain, EF!Announce, EF!Noted, EF!Forgotten

-----------------------------------------------------------------------------
(* MqttCommandRouter.                                                      *)

\* The record of one command, and its connection.
CallStates ==
  [pc : MQ!Settled \cup {"probing", "connecting", "subscribing", "asking", "asked", "answered", "setting", "acking",
                         "publishing"},
   op : MQ!Ops, lock : Locks, key : 0 .. MaxSeconds + MaxNonce, got : MQ!Kept, from : Locks, frames : 0 .. 2,
   left : 0 .. Instances]

ConnStates == {"none", "probe", "open"}

\* A value the lock lost was lost by now; what a GET asks for, and what a reply
\* says, is no further back than the nonce is wide.
AirIsRecent ==
  /\ \A l \in Locks : s5[l] <= s2
  /\ \A m \in s8 : m.m = "get" => m.key - MaxNonce <= s2
  /\ \A m \in s8 : m.m = "reply" => MQ!LastHeld(m.lock, m.kept) >= m.key - MaxNonce

\* What a command is about to restore or to answer is as recent.
Recent(r) ==
  \/ r.pc = "answered" /\ r.from = r.lock
  \/ r.pc = "setting" /\ r.op = "autolock"
  => MQ!LastHeld(r.lock, r.got) >= r.key - MaxNonce

FramesOf(r) == IF r.op = "preset" THEN 2 ELSE 1

\* Where a command is says which connection it holds and whether it may have
\* been acknowledged, and then every frame of it is out.
Fits(r, n, b) ==
  /\ n = "open" => r.pc \in {"subscribing", "asking", "asked", "answered", "setting", "acking"}
  /\ n = "probe" => r.pc = "probing" /\ r.left > 0
  /\ b => r.pc \in MQ!Settled
  /\ b /\ r.op \in {"dp", "preset"} => r.frames = FramesOf(r)
  /\ r.op \in {"dp", "preset"} => r.pc \in MQ!Settled \cup {"publishing"}

CallsFit == \A c \in Commands : Fits(s6[c], s7[c], s9[c]) /\ Recent(s6[c])

MqInv == MQ!TypeOK /\ AirIsRecent /\ CallsFit

\* Lemma.  A step of the world goes on in time and changes at most what one
\* lock has, so what a lock had lately only gets later.
LEMMA HeldLater ==
  ASSUME MqInv, NEW t \in 0 .. MaxSeconds, t >= s2, s2' = t,
         \/ s3' = s3 /\ s5' = s5
         \/ \E l \in Locks, v \in MQ!Kept : MQ!Becomes(l, v) /\ t = s2
  PROVE  /\ s3' \in [Locks -> MQ!Kept] /\ s5' \in [Locks -> -1 .. MaxSeconds]
         /\ \A l \in Locks : s5'[l] <= s2'
         /\ \A l \in Locks, v \in MQ!Kept : MQ!LastHeld(l, v)' >= MQ!LastHeld(l, v) /\ MQ!LastHeld(l, v) \in Int
<1>1. s2 \in 0 .. MaxSeconds /\ s3 \in [Locks -> MQ!Kept] /\ s5 \in [Locks -> -1 .. MaxSeconds] /\ MaxSeconds \in Nat
  BY LockAssumption DEF MqInv, MQ!TypeOK
<1>2. CASE s3' = s3 /\ s5' = s5
  BY <1>1, <1>2 DEF MqInv, AirIsRecent, MQ!LastHeld
<1>3. ASSUME NEW k \in Locks, NEW w \in MQ!Kept, MQ!Becomes(k, w), t = s2
      PROVE  /\ s3' \in [Locks -> MQ!Kept] /\ s5' \in [Locks -> -1 .. MaxSeconds]
             /\ \A l \in Locks : s5'[l] <= s2'
             /\ \A l \in Locks, v \in MQ!Kept : MQ!LastHeld(l, v)' >= MQ!LastHeld(l, v) /\ MQ!LastHeld(l, v) \in Int
  <2>1. s3' = [s3 EXCEPT ![k] = w] /\ s5' = IF w = s3[k] THEN s5 ELSE [s5 EXCEPT ![k] = s2]
    BY <1>3 DEF MQ!Becomes
  <2>2. QED
    BY <1>1, <1>3, <2>1 DEF MqInv, AirIsRecent, MQ!LastHeld, MQ!Kept
<1>4. QED
  BY <1>2, <1>3

\* Lemma.  A step of one command, which may put on the way a GET of now or a SET.
LEMMA OneCall ==
  ASSUME MqInv, NEW c \in Commands, UNCHANGED <<s1, s2, s3, s4, s5>>,
         NEW r \in CallStates, s6' = [s6 EXCEPT ![c] = r],
         NEW n \in ConnStates, s7' = [s7 EXCEPT ![c] = n],
         NEW b \in BOOLEAN, s9' = [s9 EXCEPT ![c] = b],
         \A m \in s8' \ s8 : /\ m \in MQ!Messages /\ m.m # "reply"
                             /\ m.m = "get" => m.key - MaxNonce <= s2,
         Fits(r, n, b), Recent(r)
  PROVE  MqInv'
<1>1. /\ s6' \in [Commands -> CallStates] /\ s6'[c] = r /\ \A d \in Commands \ {c} : s6'[d] = s6[d]
      /\ s7' \in [Commands -> ConnStates] /\ s7'[c] = n /\ \A d \in Commands \ {c} : s7'[d] = s7[d]
      /\ s9' \in [Commands -> BOOLEAN] /\ s9'[c] = b /\ \A d \in Commands \ {c} : s9'[d] = s9[d]
  BY DEF MqInv, MQ!TypeOK, CallStates, ConnStates
<1>2. s8' \subseteq MQ!Messages
  BY DEF MqInv, MQ!TypeOK
<1>3. MQ!TypeOK'
  BY <1>1, <1>2 DEF MqInv, MQ!TypeOK, CallStates, ConnStates
<1>4. \A l, v : MQ!LastHeld(l, v)' = MQ!LastHeld(l, v)
  BY DEF MQ!LastHeld
<1>5. AirIsRecent'
  BY <1>4 DEF MqInv, AirIsRecent
<1>6. CallsFit'
  <2>1. ASSUME NEW d \in Commands PROVE Fits(s6[d], s7[d], s9[d])' /\ Recent(s6[d])'
    <3>1. CASE d = c
      BY <1>1, <1>4, <3>1 DEF Fits, Recent, FramesOf
    <3>2. CASE d # c
      BY <1>1, <1>4, <3>2 DEF MqInv, CallsFit, Fits, Recent, FramesOf
    <3>3. QED
      BY <3>1, <3>2
  <2>2. QED
    BY <2>1 DEF CallsFit
<1>7. QED
  BY <1>3, <1>5, <1>6 DEF MqInv

\* Lemma.  A command that ends holds no connection and awaits nothing.
LEMMA CallEnds ==
  ASSUME MqInv, NEW c \in Commands, NEW pc \in {"returned", "threw"}, MQ!Ends(c, pc), UNCHANGED <<s1, s2, s3, s4, s5>>,
         s8' \subseteq s8, s7' = [s7 EXCEPT ![c] = "none"],
         NEW b \in BOOLEAN, s9' = [s9 EXCEPT ![c] = b],
         b /\ s6[c].op \in {"dp", "preset"} => s6[c].frames = FramesOf(s6[c])
  PROVE  MqInv'
<1> DEFINE idle == MQ!NoCall(MQ!ALock)
           r == [idle EXCEPT !.pc = pc, !.op = s6[c].op, !.frames = s6[c].frames]
<1>1. idle \in CallStates
  <2>1. MQ!ALock \in Locks
    BY LockAssumption DEF MQ!ALock
  <2>2. QED
    BY <2>1, LockAssumption DEF MQ!NoCall, CallStates, MQ!Settled, MQ!Kept, MQ!Ops
<1>2. s6[c] \in CallStates
  BY DEF MqInv, MQ!TypeOK, CallStates
<1>3. s6' = [s6 EXCEPT ![c] = r]
  BY DEF MQ!Ends
<1> HIDE DEF idle
<1>4. /\ r.pc = pc /\ r.op = s6[c].op /\ r.frames = s6[c].frames
      /\ r \in CallStates
  BY <1>1, <1>2 DEF CallStates, MQ!Settled
<1> HIDE DEF r
<1>5. Fits(r, "none", b) /\ Recent(r)
  BY <1>4 DEF Fits, Recent, FramesOf, MQ!Settled
<1>6. QED
  BY <1>3, <1>4, <1>5, OneCall DEF ConnStates

\* Lemma.  Time, the owner, the locks and the network leave the commands alone.
LEMMA WorldSteps ==
  ASSUME MqInv, UNCHANGED <<s1, s6, s7, s9>>,
         \/ MQ!Tick
         \/ \E l \in Locks : MQ!OwnerChanges(l)
         \/ \E m \in s8 : MQ!Arrives(m) \/ MQ!Lost(m)
  PROVE  MqInv'
<1> USE DEF MqInv
<1>1. /\ s2' \in 0 .. MaxSeconds /\ s2' >= s2 /\ s4' \in 0 .. MaxOwnerMoves
      /\ \/ s3' = s3 /\ s5' = s5
         \/ \E l \in Locks, v \in MQ!Kept : MQ!Becomes(l, v) /\ s2' = s2
  <2>1. CASE MQ!Tick
    BY <2>1, LockAssumption DEF MQ!Tick, MQ!TypeOK
  <2>2. ASSUME NEW l \in Locks, MQ!OwnerChanges(l)
        PROVE  s2' = s2 /\ s4' \in 0 .. MaxOwnerMoves /\ \E v \in MQ!Kept : MQ!Becomes(l, v)
    BY <2>2, LockAssumption DEF MQ!OwnerChanges, MQ!TypeOK, MQ!Kept
  <2>3. ASSUME NEW m \in s8, MQ!Arrives(m) \/ MQ!Lost(m)
        PROVE  /\ s2' = s2 /\ s4' = s4
               /\ \/ s3' = s3 /\ s5' = s5
                  \/ \E l \in Locks, v \in MQ!Kept : MQ!Becomes(l, v)
    BY <2>3 DEF MQ!Arrives, MQ!Lost, MQ!TypeOK, MQ!Messages
  <2>4. QED
    BY <2>1, <2>2, <2>3, LockAssumption DEF MQ!TypeOK
<1>2. /\ s3' \in [Locks -> MQ!Kept] /\ s5' \in [Locks -> -1 .. MaxSeconds]
      /\ \A l \in Locks : s5'[l] <= s2'
      /\ \A l \in Locks, v \in MQ!Kept : MQ!LastHeld(l, v)' >= MQ!LastHeld(l, v) /\ MQ!LastHeld(l, v) \in Int
  BY <1>1, HeldLater
<1>3. \A l \in Locks, v \in MQ!Kept : MQ!LastHeld(l, v)' \in Int
  BY <1>1, <1>2 DEF MQ!LastHeld
<1>4. \A m \in s8' \ s8 :
        /\ m \in MQ!Messages /\ m.m = "reply" /\ MQ!LastHeld(m.lock, m.kept) = s2 /\ m.key - MaxNonce <= s2
        /\ s2' = s2 /\ s3' = s3 /\ s5' = s5
  <2>1. CASE s8' \subseteq s8
    BY <2>1
  <2>2. ASSUME NEW m \in s8, MQ!Arrives(m), m.m = "get"
        PROVE  \A r \in s8' \ s8 :
                 /\ r \in MQ!Messages /\ r.m = "reply" /\ MQ!LastHeld(r.lock, r.kept) = s2 /\ r.key - MaxNonce <= s2
                 /\ s2' = s2 /\ s3' = s3 /\ s5' = s5
    <3>1. \A r \in s8' \ s8 : r = MQ!Msg("reply", m.lock, m.key, s3[m.lock])
      BY <2>2 DEF MQ!Arrives
    <3>2. s2' = s2 /\ s3' = s3 /\ s5' = s5
      BY <2>2 DEF MQ!Arrives
    <3>3. m.lock \in Locks /\ m.key \in 0 .. MaxSeconds + MaxNonce /\ s3[m.lock] \in MQ!Kept /\ m.key - MaxNonce <= s2
      BY <2>2 DEF MQ!TypeOK, MQ!Messages, AirIsRecent
    <3>4. QED
      BY <3>1, <3>2, <3>3 DEF MQ!Msg, MQ!Messages, MQ!LastHeld
  <2>3. (\E m \in s8 : MQ!Arrives(m) /\ m.m = "get") \/ s8' \subseteq s8
    BY DEF MQ!Tick, MQ!OwnerChanges, MQ!Arrives, MQ!Lost
  <2>4. QED
    BY <2>1, <2>2, <2>3
<1>5. MQ!TypeOK'
  <2>1. s8' \subseteq MQ!Messages
    BY <1>4 DEF MQ!TypeOK
  <2>2. QED
    BY <1>1, <1>2, <2>1 DEF MQ!TypeOK
<1>6. \A l \in Locks, v \in MQ!Kept, x \in Int : MQ!LastHeld(l, v) >= x => MQ!LastHeld(l, v)' >= x
  BY <1>2, <1>3
<1>7. AirIsRecent'
  <2>1. s2 \in Int /\ s2' \in Int /\ MaxNonce \in Int /\ \A m \in MQ!Messages : m.key \in Int
    BY <1>1, LockAssumption DEF MQ!TypeOK, MQ!Messages
  <2>2. ASSUME NEW m \in s8', m.m = "get" PROVE m.key - MaxNonce <= s2'
    BY <1>1, <1>4, <2>1, <2>2 DEF AirIsRecent, MQ!TypeOK
  <2>3. ASSUME NEW m \in s8', m.m = "reply" PROVE MQ!LastHeld(m.lock, m.kept)' >= m.key - MaxNonce
    <3>1. CASE m \in s8
      <4>1. m.lock \in Locks /\ m.kept \in MQ!Kept /\ m.key - MaxNonce \in Int
        BY <2>1, <3>1 DEF MQ!TypeOK, MQ!Messages
      <4>2. QED
        BY <1>6, <2>3, <3>1, <4>1 DEF AirIsRecent
    <3>2. CASE m \notin s8
      <4>1. MQ!LastHeld(m.lock, m.kept)' = MQ!LastHeld(m.lock, m.kept)
        BY <1>4, <3>2 DEF MQ!LastHeld
      <4>2. QED
        BY <1>4, <2>1, <3>2, <4>1
    <3>3. QED
      BY <3>1, <3>2
  <2>4. QED
    BY <1>2, <2>2, <2>3 DEF AirIsRecent
<1>8. CallsFit'
  <2>1. ASSUME NEW c \in Commands PROVE Recent(s6[c])'
    <3>1. s6[c].lock \in Locks /\ s6[c].got \in MQ!Kept /\ s6[c].key - MaxNonce \in Int
      BY LockAssumption DEF MQ!TypeOK
    <3>2. QED
      BY <1>6, <3>1 DEF CallsFit, Recent
  <2>2. QED
    BY <2>1 DEF CallsFit, Fits, FramesOf
<1>9. QED
  BY <1>5, <1>7, <1>8

\* Lemma.  A command begins idle otherwise, where its connection says.
LEMMA CallBegins ==
  ASSUME MqInv, NEW c \in Commands, NEW op \in MQ!Ops, NEW l \in Locks, MQ!Begin(c, op, l)
  PROVE  MqInv'
<1> DEFINE idle == MQ!NoCall(l)
           instances == IF s1 = "mqtt" /\ op \in {"autolock", "state", "actuate"} THEN Instances ELSE 0
           pc == IF op \in {"dp", "preset"} THEN "publishing" ELSE IF s1 = "mqtt" THEN "probing" ELSE "asking"
           r == [idle EXCEPT !.op = op, !.left = instances, !.pc = pc]
<1>1. idle \in CallStates
  BY LockAssumption DEF MQ!NoCall, CallStates, MQ!Settled, MQ!Kept, MQ!Ops
<1>2. s6' = [s6 EXCEPT ![c] = r]
  BY DEF MQ!Begin
<1>3. /\ instances \in 0 .. Instances
      /\ pc \in {"publishing", "probing", "asking"}
      /\ op \in {"dp", "preset"} => pc = "publishing"
  <2>1. Instances \in Nat
    BY LockAssumption
  <2>2. QED
    BY <2>1
<1> HIDE DEF idle, instances, pc
<1>4. r.pc = pc /\ r.op = op /\ r \in CallStates
  BY <1>1, <1>3 DEF CallStates
<1> HIDE DEF r
<1>5. s7[c] = "none"
  BY DEF MQ!Begin, MqInv, CallsFit, Fits, MQ!TypeOK, MQ!Settled
<1>6. Fits(r, "none", FALSE) /\ Recent(r)
  BY <1>3, <1>4 DEF Fits, Recent
<1>7. s7' = [s7 EXCEPT ![c] = "none"]
  BY <1>5 DEF MQ!Begin, MqInv, MQ!TypeOK
<1>8. QED
  BY <1>2, <1>4, <1>6, <1>7, OneCall DEF MQ!Begin, ConnStates

\* Lemma.  The steps of the broker's connection, each of one command.
LEMMA CallConnects ==
  ASSUME MqInv, NEW c \in Commands,
         \/ MQ!Probe(c) \/ MQ!ProbeSettles(c) \/ MQ!NoInstance(c) \/ MQ!ConnectFails(c) \/ MQ!Connects(c)
         \/ MQ!Subscribed(c)
  PROVE  MqInv'
<1>1. /\ s6 \in [Commands -> CallStates] /\ s7 \in [Commands -> ConnStates] /\ s9 \in [Commands -> BOOLEAN]
      /\ s6[c] \in CallStates /\ s9[c] \in BOOLEAN
      /\ Fits(s6[c], s7[c], s9[c]) /\ Recent(s6[c])
  BY DEF MqInv, MQ!TypeOK, CallsFit, CallStates, ConnStates
<1>2. s6 = [s6 EXCEPT ![c] = s6[c]] /\ s7 = [s7 EXCEPT ![c] = s7[c]] /\ s9 = [s9 EXCEPT ![c] = s9[c]]
  BY <1>1
<1>3. CASE MQ!Probe(c)
  <2>1. Fits(s6[c], "probe", s9[c])
    BY <1>1, <1>3 DEF MQ!Probe, Fits, MQ!Settled
  <2>2. QED
    BY <1>1, <1>2, <1>3, <2>1, OneCall DEF MQ!Probe, ConnStates
<1>4. CASE MQ!ProbeSettles(c)
  <2>0. Instances \in Nat /\ s6[c].left \in 0 .. Instances /\ s6[c].left > 0
    BY <1>1, <1>4, LockAssumption DEF CallStates, MQ!ProbeSettles, Fits
  <2>1. s6[c].pc = "probing" /\ s9[c] = FALSE
    BY <1>1, <1>4 DEF MQ!ProbeSettles, Fits, MQ!Settled
  <2>2. ASSUME NEW r \in CallStates, s6' = [s6 EXCEPT ![c] = r], r.op = s6[c].op, r.pc \in {"probing", "connecting"}
        PROVE  MqInv'
    <3>1. Fits(r, "none", FALSE) /\ Recent(r)
      BY <1>1, <2>1, <2>2 DEF Fits, Recent, MQ!Settled
    <3>2. QED
      BY <1>2, <1>4, <2>1, <2>2, <3>1, OneCall DEF MQ!ProbeSettles, ConnStates
  <2>3. CASE s6' = [s6 EXCEPT ![c].pc = "connecting", ![c].left = 0]
    <3> DEFINE q == [s6[c] EXCEPT !.pc = "connecting"]
               r == [q EXCEPT !.left = 0]
    <3>1. s6' = [s6 EXCEPT ![c] = r]
      BY <1>1, <2>3
    <3>2. q \in CallStates /\ q.op = s6[c].op /\ q.pc = "connecting"
      BY <1>1 DEF CallStates
    <3> HIDE DEF q
    <3>3. r \in CallStates /\ r.op = s6[c].op /\ r.pc = "connecting"
      BY <2>0, <3>2 DEF CallStates
    <3> HIDE DEF r
    <3>4. QED
      BY <2>2, <3>1, <3>3
  <2>4. CASE s6' = [s6 EXCEPT ![c].left = @ - 1]
    <3> DEFINE r == [s6[c] EXCEPT !.left = @ - 1]
    <3>1. s6' = [s6 EXCEPT ![c] = r]
      BY <1>1, <2>4
    <3>2. r \in CallStates /\ r.op = s6[c].op /\ r.pc = "probing"
      <4>1. s6[c].left - 1 \in 0 .. Instances
        BY <2>0
      <4>2. QED
        BY <1>1, <2>1, <4>1 DEF CallStates
    <3> HIDE DEF r
    <3>3. QED
      BY <2>2, <3>1, <3>2
  <2>5. QED
    BY <1>4, <2>3, <2>4 DEF MQ!ProbeSettles
<1>5. CASE MQ!NoInstance(c) \/ MQ!ConnectFails(c)
  <2>1. s6[c].pc \in {"probing", "connecting"}
    BY <1>5 DEF MQ!NoInstance, MQ!ConnectFails
  <2>2. s9[c] = FALSE /\ s7[c] \in {"none", "probe"}
    BY <1>1, <2>1 DEF Fits, MQ!Settled, ConnStates
  <2>3. s7[c] = "none"
    BY <1>1, <1>5, <2>2 DEF Fits, MQ!NoInstance, MQ!ConnectFails
  <2>4. s7' = [s7 EXCEPT ![c] = "none"] /\ s9' = [s9 EXCEPT ![c] = FALSE] /\ s8' = s8 /\ MQ!Ends(c, "threw")
    BY <1>2, <1>5, <2>2, <2>3 DEF MQ!NoInstance, MQ!ConnectFails
  <2>5. QED
    BY <1>5, <2>4, CallEnds DEF MQ!NoInstance, MQ!ConnectFails
<1>6. CASE MQ!Connects(c)
  <2> DEFINE r == [s6[c] EXCEPT !.pc = "subscribing"]
  <2>1. s6' = [s6 EXCEPT ![c] = r]
    BY <1>1, <1>6 DEF MQ!Connects, MQ!Goes
  <2>2. r \in CallStates /\ r.op = s6[c].op /\ r.pc = "subscribing"
    BY <1>1 DEF CallStates
  <2> HIDE DEF r
  <2>3. s9[c] = FALSE /\ Fits(r, "open", FALSE) /\ Recent(r)
    BY <1>1, <1>6, <2>2 DEF MQ!Connects, Fits, Recent, MQ!Settled
  <2>4. QED
    BY <1>2, <1>6, <2>1, <2>2, <2>3, OneCall DEF MQ!Connects, ConnStates
<1>7. CASE MQ!Subscribed(c)
  <2> DEFINE pc == IF s6[c].op = "actuate" THEN "setting" ELSE "asking"
             r == [s6[c] EXCEPT !.pc = pc]
  <2>1. s6' = [s6 EXCEPT ![c] = r]
    BY <1>1, <1>7 DEF MQ!Subscribed, MQ!Goes
  <2>2. r \in CallStates /\ r.op = s6[c].op /\ r.pc \in {"setting", "asking"} /\ (r.pc = "setting" => r.op = "actuate")
    BY <1>1 DEF CallStates
  <2> HIDE DEF r
  <2>3. s9[c] = FALSE /\ Fits(r, s7[c], FALSE) /\ Recent(r)
    BY <1>1, <1>7, <2>2 DEF MQ!Subscribed, Fits, Recent, MQ!Settled
  <2>4. QED
    BY <1>1, <1>2, <1>7, <2>1, <2>2, <2>3, OneCall DEF MQ!Subscribed
<1>8. QED
  BY <1>3, <1>4, <1>5, <1>6, <1>7

\* Lemma.  A GET of now is no further ahead of now than the nonce is wide, and a
\* SET is one no reply is taken from.
LEMMA CallSends ==
  ASSUME MqInv, NEW c \in Commands, MQ!Ask(c) \/ MQ!Set(c)
  PROVE  MqInv'
<1>1. /\ s6 \in [Commands -> CallStates] /\ s7 \in [Commands -> ConnStates] /\ s9 \in [Commands -> BOOLEAN]
      /\ s6[c] \in CallStates /\ s7[c] \in ConnStates /\ s9[c] \in BOOLEAN
      /\ Fits(s6[c], s7[c], s9[c])
      /\ s2 \in 0 .. MaxSeconds /\ MaxSeconds \in Nat /\ MaxNonce \in Nat
  BY LockAssumption DEF MqInv, MQ!TypeOK, CallsFit, CallStates, ConnStates
<1>2. s7 = [s7 EXCEPT ![c] = s7[c]] /\ s9 = [s9 EXCEPT ![c] = s9[c]]
  BY <1>1
<1>3. CASE MQ!Ask(c)
  <2>1. PICK nonce \in 0 .. MaxNonce :
          /\ s6' = [s6 EXCEPT ![c].pc = "asked", ![c].key = KeyTime(s2, nonce)]
          /\ s8' = s8 \cup {MQ!Msg("get", s6[c].lock, KeyTime(s2, nonce), 0)}
    BY <1>3 DEF MQ!Ask
  <2> DEFINE key == KeyTime(s2, nonce)
             q == [s6[c] EXCEPT !.pc = "asked"]
             r == [q EXCEPT !.key = key]
  <2>2. key \in 0 .. MaxSeconds + MaxNonce /\ key - MaxNonce <= s2
    <3>1. key \in 0 .. s2 + nonce
      BY <1>1, LockAssumption
    <3> HIDE DEF key
    <3>2. QED
      BY <1>1, <3>1
  <2>3. s6' = [s6 EXCEPT ![c] = r]
    BY <1>1, <2>1
  <2>4. \A m \in s8' \ s8 : m \in MQ!Messages /\ m.m = "get" /\ m.key - MaxNonce <= s2
    <3>1. \A m \in s8' \ s8 : m = MQ!Msg("get", s6[c].lock, key, 0)
      BY <2>1
    <3> HIDE DEF key
    <3>2. QED
      BY <1>1, <2>2, <3>1 DEF MQ!Msg, MQ!Messages, CallStates, MQ!Kept
  <2> HIDE DEF key
  <2>5. q \in CallStates /\ q.op = s6[c].op /\ q.pc = "asked"
    BY <1>1 DEF CallStates
  <2> HIDE DEF q
  <2>6. r \in CallStates /\ r.op = s6[c].op /\ r.pc = "asked"
    BY <2>2, <2>5 DEF CallStates
  <2> HIDE DEF r
  <2>7. s6[c].pc = "asking"
    BY <1>3 DEF MQ!Ask
  <2>8. Fits(r, s7[c], s9[c]) /\ Recent(r)
    BY <1>1, <2>6, <2>7 DEF Fits, Recent, MQ!Settled
  <2>9. UNCHANGED <<s1, s2, s3, s4, s5>> /\ s7' = [s7 EXCEPT ![c] = s7[c]] /\ s9' = [s9 EXCEPT ![c] = s9[c]]
    BY <1>2, <1>3 DEF MQ!Ask
  <2>10. \A m \in s8' \ s8 : m \in MQ!Messages /\ m.m # "reply" /\ (m.m = "get" => m.key - MaxNonce <= s2)
    BY <2>4
  <2>11. QED
    BY <1>1, <2>3, <2>6, <2>8, <2>9, <2>10, OneCall
<1>4. CASE MQ!Set(c)
  <2> DEFINE r == [s6[c] EXCEPT !.pc = "acking"]
  <2>1. s6' = [s6 EXCEPT ![c] = r]
    BY <1>1, <1>4 DEF MQ!Set, MQ!Goes
  <2>2. \A m \in s8' \ s8 : m \in MQ!Messages /\ m.m = "set"
    <3>1. \A m \in s8' \ s8 : m = MQ!Msg("set", s6[c].lock, s6[c].key, s6[c].got)
      BY <1>4 DEF MQ!Set
    <3>2. QED
      BY <1>1, <3>1 DEF MQ!Msg, MQ!Messages, CallStates
  <2>3. r \in CallStates /\ r.op = s6[c].op /\ r.pc = "acking"
    BY <1>1 DEF CallStates
  <2> HIDE DEF r
  <2>4. s6[c].pc = "setting"
    BY <1>4 DEF MQ!Set
  <2>5. Fits(r, s7[c], s9[c]) /\ Recent(r)
    BY <1>1, <2>3, <2>4 DEF Fits, Recent, MQ!Settled
  <2>6. QED
    BY <1>1, <1>2, <1>4, <2>1, <2>2, <2>3, <2>5, OneCall DEF MQ!Set
<1>5. QED
  BY <1>3, <1>4

\* Lemma.  Whoever takes a reply for its own waits for one of that key time.
LEMMA CallHears ==
  ASSUME MqInv, NEW m \in s8, MQ!Delivered(m)
  PROVE  MqInv'
<1>1. /\ s6 \in [Commands -> CallStates] /\ m \in MQ!Messages /\ s8' \subseteq s8 /\ m.m = "reply"
      /\ MQ!LastHeld(m.lock, m.kept) >= m.key - MaxNonce
  BY DEF MqInv, MQ!TypeOK, CallStates, AirIsRecent, MQ!Delivered
<1>2. \A l, v : MQ!LastHeld(l, v)' = MQ!LastHeld(l, v)
  BY DEF MQ!LastHeld, MQ!Delivered
<1>3. ASSUME NEW c \in Commands
      PROVE  s6'[c] \in CallStates /\ Fits(s6'[c], s7[c], s9[c]) /\ Recent(s6'[c])
  <2>1. Fits(s6[c], s7[c], s9[c]) /\ Recent(s6[c]) /\ s6[c] \in CallStates
    BY <1>1 DEF MqInv, CallsFit
  <2>2. CASE ~MQ!Hears(c, m)
    BY <2>1, <2>2 DEF MQ!Delivered
  <2>3. CASE MQ!Hears(c, m)
    <3> DEFINE q == [s6[c] EXCEPT !.pc = "answered"]
               p == [q EXCEPT !.got = m.kept]
               r == [p EXCEPT !.from = m.lock]
    <3>1. s6'[c] = r
      BY <2>3 DEF MQ!Delivered
    <3>2. q \in CallStates /\ q.op = s6[c].op /\ q.pc = "answered" /\ q.lock = s6[c].lock /\ q.key = s6[c].key
      BY <2>1 DEF CallStates
    <3> HIDE DEF q
    <3>3. /\ p \in CallStates /\ p.op = s6[c].op /\ p.pc = "answered" /\ p.lock = s6[c].lock /\ p.key = s6[c].key
          /\ p.got = m.kept
      BY <1>1, <3>2 DEF CallStates, MQ!Messages
    <3> HIDE DEF p
    <3>4. /\ r \in CallStates /\ r.op = s6[c].op /\ r.pc = "answered" /\ r.lock = s6[c].lock /\ r.key = s6[c].key
          /\ r.got = m.kept /\ r.from = m.lock
      BY <1>1, <3>3 DEF CallStates, MQ!Messages
    <3> HIDE DEF r
    <3>5. s6[c].pc = "asked" /\ m.key = s6[c].key
      BY <2>3 DEF MQ!Hears, MQ!Matches
    <3>6. Fits(r, s7[c], s9[c]) /\ Recent(r)
      BY <1>1, <2>1, <3>4, <3>5 DEF Fits, Recent, MQ!Settled
    <3>7. QED
      BY <3>1, <3>4, <3>6
  <2>4. QED
    BY <2>2, <2>3
<1>4. MQ!TypeOK'
  <2>1. s6' \in [Commands -> CallStates]
    BY <1>3 DEF MQ!Delivered
  <2>2. QED
    BY <1>1, <2>1 DEF MqInv, MQ!TypeOK, CallStates, MQ!Delivered
<1>5. AirIsRecent'
  BY <1>1, <1>2 DEF MqInv, AirIsRecent, MQ!Delivered
<1>6. CallsFit'
  BY <1>2, <1>3 DEF CallsFit, Fits, Recent, FramesOf, MQ!Delivered
<1>7. QED
  BY <1>4, <1>5, <1>6 DEF MqInv

\* Lemma.  A reply is read, or the command goes out of its try: it disconnects.
LEMMA CallReads ==
  ASSUME MqInv, NEW c \in Commands,
         MQ!Throws(c) \/ MQ!Undecodable(c) \/ MQ!Reads(c) \/ MQ!AckWaitEnds(c)
  PROVE  MqInv'
<1>1. /\ s6 \in [Commands -> CallStates] /\ s7 \in [Commands -> ConnStates] /\ s9 \in [Commands -> BOOLEAN]
      /\ s6[c] \in CallStates /\ s7[c] \in ConnStates /\ s9[c] \in BOOLEAN
      /\ Fits(s6[c], s7[c], s9[c]) /\ Recent(s6[c])
  BY DEF MqInv, MQ!TypeOK, CallsFit, CallStates, ConnStates
<1>2. s6[c].pc \notin MQ!Settled /\ s9[c] = FALSE /\ s6[c].op \notin {"dp", "preset"}
  <2>1. s6[c].pc \in {"subscribing", "asking", "asked", "setting", "answered", "acking"}
    BY DEF MQ!Throws, MQ!Undecodable, MQ!Reads, MQ!AckWaitEnds
  <2>2. QED
    BY <1>1, <2>1 DEF Fits, MQ!Settled
<1>3. s7 = [s7 EXCEPT ![c] = s7[c]] /\ s9 = [s9 EXCEPT ![c] = FALSE]
  BY <1>1, <1>2
<1>4. ASSUME NEW pc \in {"returned", "threw"}, MQ!Ends(c, pc), s7' = MQ!Disconnected(c),
             UNCHANGED <<s1, s2, s3, s4, s5, s8>>, \E b \in BOOLEAN : s9' = [s9 EXCEPT ![c] = b]
      PROVE  MqInv'
  BY <1>2, <1>4, CallEnds DEF MQ!Disconnected
<1>5. CASE MQ!Throws(c) \/ MQ!Undecodable(c)
  <2>1. /\ MQ!Ends(c, "threw") /\ s7' = MQ!Disconnected(c) /\ UNCHANGED <<s1, s2, s3, s4, s5, s8>>
        /\ s9' = [s9 EXCEPT ![c] = FALSE]
    BY <1>3, <1>5 DEF MQ!Throws, MQ!Undecodable
  <2>2. QED
    BY <1>4, <2>1
<1>6. CASE MQ!AckWaitEnds(c)
  <2>1. PICK b \in BOOLEAN : s9' = [s9 EXCEPT ![c] = s1 = "mqtt" /\ b]
    BY <1>6 DEF MQ!AckWaitEnds
  <2>2. (s1 = "mqtt" /\ b) \in BOOLEAN
    OBVIOUS
  <2>3. \E d \in BOOLEAN : s9' = [s9 EXCEPT ![c] = d]
    BY <2>1, <2>2
  <2>4. QED
    BY <1>4, <1>6, <2>3 DEF MQ!AckWaitEnds
<1>7. CASE MQ!Reads(c) /\ s6[c].op = "state"
  <2>1. /\ MQ!Ends(c, "returned") /\ s7' = MQ!Disconnected(c) /\ UNCHANGED <<s1, s2, s3, s4, s5, s8>>
        /\ s9' = [s9 EXCEPT ![c] = FALSE]
    BY <1>3, <1>7 DEF MQ!Reads
  <2>2. QED
    BY <1>4, <2>1
<1>8. CASE MQ!Reads(c) /\ s6[c].op # "state"
  <2> DEFINE r == [s6[c] EXCEPT !.pc = "setting"]
  <2>1. /\ s6' = [s6 EXCEPT ![c] = r] /\ s6[c].pc = "answered" /\ s6[c].from = s6[c].lock
        /\ s7' = s7 /\ s9' = s9 /\ s8' = s8 /\ UNCHANGED <<s1, s2, s3, s4, s5>>
    BY <1>1, <1>8 DEF MQ!Reads, MQ!Goes, MQ!Opens
  <2>2. /\ r \in CallStates /\ r.pc = "setting" /\ r.op = s6[c].op
        /\ r.lock = s6[c].lock /\ r.key = s6[c].key /\ r.got = s6[c].got
    BY <1>1 DEF CallStates
  <2> HIDE DEF r
  <2>3. Fits(r, s7[c], FALSE) /\ Recent(r)
    BY <1>1, <1>2, <2>1, <2>2 DEF Fits, Recent
  <2>4. QED
    BY <1>1, <1>3, <2>1, <2>2, <2>3, OneCall
<1>9. QED
  BY <1>5, <1>6, <1>7, <1>8

\* Lemma.  The frames of a data-point command, over the persistent connection.
LEMMA CallPublishes ==
  ASSUME MqInv, NEW c \in Commands, MQ!Publishes(c) \/ MQ!Confirms(c) \/ MQ!PublishFails(c)
  PROVE  MqInv'
<1>1. /\ s6 \in [Commands -> CallStates] /\ s7 \in [Commands -> ConnStates] /\ s9 \in [Commands -> BOOLEAN]
      /\ s6[c] \in CallStates /\ s7[c] \in ConnStates /\ s9[c] \in BOOLEAN
      /\ Fits(s6[c], s7[c], s9[c])
  BY DEF MqInv, MQ!TypeOK, CallsFit, CallStates, ConnStates
<1>2. s6[c].pc = "publishing" /\ s7[c] = "none" /\ s9[c] = FALSE /\ UNCHANGED <<s1, s2, s3, s4, s5, s7, s8>>
  BY <1>1 DEF MQ!Publishes, MQ!Confirms, MQ!PublishFails, Fits, MQ!Settled, ConnStates
<1>3. s7' = [s7 EXCEPT ![c] = "none"] /\ s9 = [s9 EXCEPT ![c] = FALSE]
  BY <1>1, <1>2
<1>4. CASE MQ!Publishes(c)
  <2> DEFINE r == [s6[c] EXCEPT !.frames = @ + 1]
  <2>1. s6' = [s6 EXCEPT ![c] = r] /\ s9' = s9
    BY <1>1, <1>4 DEF MQ!Publishes
  <2>2. s6[c].frames + 1 \in 0 .. 2
    BY <1>1, <1>4 DEF CallStates, MQ!Publishes, MQ!Wanted
  <2>3. r \in CallStates /\ r.pc = "publishing"
    BY <1>1, <1>2, <2>2 DEF CallStates
  <2> HIDE DEF r
  <2>4. Fits(r, "none", FALSE) /\ Recent(r)
    BY <2>3 DEF Fits, Recent
  <2>5. QED
    BY <1>2, <1>3, <2>1, <2>3, <2>4, OneCall DEF ConnStates
<1>5. CASE MQ!Confirms(c)
  BY <1>2, <1>3, <1>5, CallEnds DEF MQ!Confirms, MQ!Published, MQ!Wanted, FramesOf
<1>6. CASE MQ!PublishFails(c)
  BY <1>2, <1>3, <1>6, CallEnds DEF MQ!PublishFails
<1>7. QED
  BY <1>4, <1>5, <1>6

\* Lemma.  Every step of the locks, the network and the commands keeps it all.
LEMMA MqStep ==
  ASSUME MqInv, MQ!Next
  PROVE  MqInv'
<1>1. CASE MQ!Tick \/ \E l \in Locks : MQ!OwnerChanges(l)
  BY <1>1, WorldSteps DEF MQ!Tick, MQ!OwnerChanges
<1>2. ASSUME NEW m \in s8, MQ!Arrives(m) \/ MQ!Lost(m) PROVE MqInv'
  BY <1>2, WorldSteps DEF MQ!Arrives, MQ!Lost
<1>3. ASSUME NEW m \in s8, MQ!Delivered(m) PROVE MqInv'
  BY <1>3, CallHears
<1>4. ASSUME NEW c \in Commands, NEW op \in MQ!Ops, NEW l \in Locks, MQ!Begin(c, op, l) PROVE MqInv'
  BY <1>4, CallBegins
<1>5. ASSUME NEW c \in Commands,
             \/ MQ!Probe(c) \/ MQ!ProbeSettles(c) \/ MQ!NoInstance(c) \/ MQ!ConnectFails(c) \/ MQ!Connects(c)
             \/ MQ!Subscribed(c)
      PROVE  MqInv'
  BY <1>5, CallConnects
<1>6. ASSUME NEW c \in Commands, MQ!Ask(c) \/ MQ!Set(c) PROVE MqInv'
  BY <1>6, CallSends
<1>7. ASSUME NEW c \in Commands, MQ!Throws(c) \/ MQ!Undecodable(c) \/ MQ!Reads(c) \/ MQ!AckWaitEnds(c) PROVE MqInv'
  BY <1>7, CallReads
<1>8. ASSUME NEW c \in Commands, MQ!Publishes(c) \/ MQ!Confirms(c) \/ MQ!PublishFails(c) PROVE MqInv'
  BY <1>8, CallPublishes
<1>9. QED
  BY <1>1, <1>2, <1>3, <1>4, <1>5, <1>6, <1>7, <1>8 DEF MQ!Next

\* Lemma.  Nothing is on the way and nobody asks at the start.
LEMMA MqBegins == MQ!Init => MqInv
<1> SUFFICES ASSUME MQ!Init PROVE MqInv
  OBVIOUS
<1> DEFINE idle == MQ!NoCall(MQ!ALock)
<1>1. /\ idle \in CallStates /\ idle.pc = "idle" /\ idle.op = "dp"
      /\ MaxSeconds \in Nat /\ MaxOwnerMoves \in Nat
  <2>1. MQ!ALock \in Locks
    BY LockAssumption DEF MQ!ALock
  <2>2. QED
    BY <2>1, LockAssumption DEF MQ!NoCall, CallStates, MQ!Settled, MQ!Kept, MQ!Ops
<1>2. s6 = [c \in Commands |-> idle]
  BY DEF MQ!Init
<1> HIDE DEF idle
<1>3. MQ!TypeOK
  BY <1>1, <1>2 DEF MQ!Init, MQ!TypeOK, CallStates, MQ!Kept
<1>4. AirIsRecent /\ CallsFit
  BY <1>1, <1>2 DEF MQ!Init, AirIsRecent, CallsFit, Fits, Recent, MQ!Settled
<1>5. QED
  BY <1>3, <1>4 DEF MqInv

\* Lemma.  What the invariant says of a command that reads, is acknowledged, or
\* is over.
LEMMA MqTrue ==
  ASSUME MqInv
  PROVE  MQ!TypeOK /\ MQ!ReadIsRecent /\ MQ!AckedIsWhole /\ MQ!NoOrphanConnection
<1>1. ASSUME NEW c \in Commands
      PROVE  Fits(s6[c], s7[c], s9[c]) /\ Recent(s6[c]) /\ s7[c] \in ConnStates
  BY DEF MqInv, CallsFit, MQ!TypeOK, ConnStates
<1>2. MQ!ReadIsRecent
  BY <1>1 DEF MQ!ReadIsRecent, Recent, MQ!Opens
<1>3. MQ!AckedIsWhole
  BY <1>1 DEF MQ!AckedIsWhole, Fits, FramesOf, MQ!Wanted
<1>4. MQ!NoOrphanConnection
  BY <1>1 DEF MQ!NoOrphanConnection, Fits, MQ!Settled, ConnStates
<1>5. QED
  BY <1>2, <1>3, <1>4 DEF MqInv

-----------------------------------------------------------------------------
(* VacuumMapStore.                                                         *)

\* The revision seen of a kind is that of the piece held, and the history's;
\* what is held is of the map the store names.
StoreOK(st, tp) ==
  /\ st \in [mapId : Maps \cup {Off}, held : [PieceKinds -> VS!Pieces \cup {Off}],
             seen : [PieceKinds -> -1 .. MaxRevision], posed : BOOLEAN]
  /\ tp = st.seen
  /\ \A k \in PieceKinds : IF st.held[k] = Off THEN st.seen[k] = -1
                      ELSE st.held[k].rev = st.seen[k] /\ st.held[k].map \in {st.mapId, Off}

MapInv == VS!TypeOK /\ StoreOK(s4, s5)

\* Lemma.  `put` keeps the store to one map and to the newest of each kind.
LEMMA PutKeeps ==
  ASSUME NEW st, NEW tp, StoreOK(st, tp), NEW p \in VS!Pieces
  PROVE  StoreOK(VS!Put(st, p), VS!Tops(tp, st, p))
<1> DEFINE s == VS!Switched(st, p)
           other == p.map # Off /\ st.mapId # Off /\ p.map # st.mapId
           t == [s EXCEPT !.seen[p.kind] = p.rev, !.held[p.kind] = p,
                          !.mapId = IF p.map # Off THEN p.map ELSE @]
           base == IF other THEN VS!NoneSeen ELSE tp
<1>1. p.kind \in PieceKinds /\ p.map \in Maps \cup {Off} /\ p.rev \in 0 .. MaxRevision /\ p # Off
  BY MapAssumption DEF VS!Pieces
<1>2. StoreOK(s, base) /\ (p.map # Off => s.mapId \in {p.map, Off})
  <2>1. CASE other
    <3>1. s = [st EXCEPT !.mapId = p.map, !.held = VS!NoPieces, !.seen = VS!NoneSeen]
      BY <2>1 DEF VS!Switched
    <3>2. s.mapId = p.map /\ s.held = VS!NoPieces /\ s.seen = VS!NoneSeen
      BY <3>1 DEF StoreOK
    <3>3. VS!NoPieces \in [PieceKinds -> VS!Pieces \cup {Off}] /\ VS!NoneSeen \in [PieceKinds -> -1 .. MaxRevision]
      BY MapAssumption DEF VS!NoPieces, VS!NoneSeen
    <3>4. s \in [mapId : Maps \cup {Off}, held : [PieceKinds -> VS!Pieces \cup {Off}],
                 seen : [PieceKinds -> -1 .. MaxRevision], posed : BOOLEAN]
      BY <1>1, <3>1, <3>3 DEF StoreOK
    <3> HIDE DEF s
    <3>5. QED
      BY <2>1, <3>2, <3>4 DEF StoreOK, VS!NoPieces, VS!NoneSeen
  <2>2. CASE ~other
    BY <2>2 DEF VS!Switched
  <2>3. QED
    BY <2>1, <2>2
<1>3. VS!Put(st, p) = IF p.rev < s.seen[p.kind] THEN s ELSE t
  BY DEF VS!Put, VS!Older
<1>4. VS!Tops(tp, st, p) = [base EXCEPT ![p.kind] = IF p.rev > @ THEN p.rev ELSE @]
  BY DEF VS!Tops
<1> HIDE DEF s, base
<1>5. base = s.seen /\ s.seen \in [PieceKinds -> -1 .. MaxRevision] /\ s.seen[p.kind] \in Int /\ p.rev \in Int
  BY <1>1, <1>2, MapAssumption DEF StoreOK
<1>6. CASE p.rev < s.seen[p.kind]
  <2>1. VS!Tops(tp, st, p) = s.seen
    BY <1>4, <1>5, <1>6
  <2>2. QED
    BY <1>2, <1>3, <1>5, <1>6, <2>1
<1>7. CASE ~(p.rev < s.seen[p.kind])
  <2>1. VS!Tops(tp, st, p) = [s.seen EXCEPT ![p.kind] = p.rev]
    BY <1>4, <1>5, <1>7
  <2>2. /\ t.seen = [s.seen EXCEPT ![p.kind] = p.rev]
        /\ t.held = [s.held EXCEPT ![p.kind] = p]
        /\ t.mapId = IF p.map # Off THEN p.map ELSE s.mapId
        /\ t.posed = s.posed
    BY <1>2 DEF StoreOK
  <2>3. t.seen \in [PieceKinds -> -1 .. MaxRevision] /\ t.held \in [PieceKinds -> VS!Pieces \cup {Off}]
    BY <1>1, <1>2, <2>2, MapAssumption DEF StoreOK
  <2>4. t.mapId \in Maps \cup {Off}
    BY <1>1, <1>2, <2>2 DEF StoreOK
  <2>5. t \in [mapId : Maps \cup {Off}, held : [PieceKinds -> VS!Pieces \cup {Off}],
               seen : [PieceKinds -> -1 .. MaxRevision], posed : BOOLEAN]
    BY <1>2, <2>2, <2>3, <2>4 DEF StoreOK
  <2> HIDE DEF t
  <2>6. ASSUME NEW k \in PieceKinds
        PROVE  IF t.held[k] = Off THEN t.seen[k] = -1
               ELSE t.held[k].rev = t.seen[k] /\ t.held[k].map \in {t.mapId, Off}
    BY <1>1, <1>2, <2>2 DEF StoreOK
  <2>7. QED
    BY <1>3, <1>7, <2>1, <2>2, <2>5, <2>6 DEF StoreOK
<1>8. QED
  BY <1>6, <1>7

\* Lemma.  So does a piece that a message brings, or leaves out (applyBackup).
LEMMA TakenKeeps ==
  ASSUME NEW acc, StoreOK(acc[1], acc[2]),
         NEW pieces, \A k \in DOMAIN pieces : pieces[k] \in VS!Pieces, NEW kind
  PROVE  StoreOK(VS!Taken(acc, pieces, kind)[1], VS!Taken(acc, pieces, kind)[2])
BY PutKeeps DEF VS!Taken, VS!Step

\* Lemma.  So does a message, whatever pieces it brings.
LEMMA AppliedKeeps ==
  ASSUME NEW acc, StoreOK(acc[1], acc[2]),
         NEW pieces, \A k \in DOMAIN pieces : pieces[k] \in VS!Pieces
  PROVE  StoreOK(VS!Applied(acc, pieces)[1], VS!Applied(acc, pieces)[2])
<1> DEFINE a == VS!Taken(acc, pieces, "description")
           b == VS!Taken(a, pieces, "plane")
           c == VS!Taken(b, pieces, "outline")
           d == VS!Taken(c, pieces, "rooms")
           e == VS!Taken(d, pieces, "zones")
<1>1. StoreOK(a[1], a[2])
  BY TakenKeeps
<1>6. VS!Applied(acc, pieces) = e
  BY DEF VS!Applied
<1> HIDE DEF a
<1>2. StoreOK(b[1], b[2])
  BY <1>1, TakenKeeps
<1> HIDE DEF b
<1>3. StoreOK(c[1], c[2])
  BY <1>2, TakenKeeps
<1> HIDE DEF c
<1>4. StoreOK(d[1], d[2])
  BY <1>3, TakenKeeps
<1> HIDE DEF d
<1>5. StoreOK(e[1], e[2])
  BY <1>4, TakenKeeps
<1> HIDE DEF e
<1>7. QED
  BY <1>5, <1>6

\* Lemma.  Every step of the robot, its stream and the store keeps the
\* invariant: frames carry pieces of the robot's map, or of none.
LEMMA MapStep ==
  ASSUME MapInv, VS!Next
  PROVE  MapInv'
<1> USE DEF MapInv
<1>1. ASSUME NEW k \in PieceKinds, VS!Revises(k) PROVE MapInv'
  <2>1. s1' \in [map : Maps, rev : [PieceKinds -> 0 .. MaxRevision]]
    <3>1. s1.rev[k] \in Nat /\ s1.rev[k] + 1 \in 0 .. MaxRevision
      BY <1>1, MapAssumption DEF VS!Revises, VS!TypeOK
    <3>2. [s1.rev EXCEPT ![k] = s1.rev[k] + 1] \in [PieceKinds -> 0 .. MaxRevision]
      BY <3>1 DEF VS!TypeOK
    <3>3. s1' = [s1 EXCEPT !.rev = [s1.rev EXCEPT ![k] = s1.rev[k] + 1]]
      BY <1>1 DEF VS!Revises, VS!TypeOK
    <3>4. QED
      BY <3>2, <3>3 DEF VS!TypeOK
  <2>2. QED
    BY <1>1, <2>1 DEF VS!Revises, VS!TypeOK, StoreOK
<1>2. CASE VS!SwitchesMap
  <2>1. s1' \in [map : Maps, rev : [PieceKinds -> 0 .. MaxRevision]]
    BY <1>2, MapAssumption DEF VS!SwitchesMap
  <2>2. QED
    BY <1>2, <2>1 DEF VS!SwitchesMap, VS!TypeOK, StoreOK
<1>3. CASE VS!Streams
  <2>1. PICK f \in VS!Frames : s2' = s2 \cup {f}
    BY <1>3 DEF VS!Streams
  <2>2. f.pose \in BOOLEAN /\ \A k \in DOMAIN f.pieces : k \in PieceKinds /\ f.pieces[k] \in VS!Pieces
    <3>1. CASE \E q \in BOOLEAN : f = [pieces |-> [k \in {} |-> Off], pose |-> q, whole |-> q]
      BY <3>1
    <3>2. CASE \E K \in SUBSET PieceKinds, N \in Nameless :
            f = [pieces |-> [k \in K |-> VS!Piece(k, IF k \in N THEN Off ELSE s1.map, s1.rev[k])],
                 pose |-> FALSE, whole |-> TRUE]
      BY <3>2 DEF VS!Piece, VS!Pieces, VS!TypeOK
    <3>3. QED
      BY <2>1, <3>1, <3>2 DEF VS!Frames
  <2>3. s3' \in 0 .. MaxFrames
    BY <1>3, MapAssumption DEF VS!Streams, VS!TypeOK
  <2>4. \A g \in s2' : g.pose \in BOOLEAN /\ \A k \in DOMAIN g.pieces : k \in PieceKinds /\ g.pieces[k] \in VS!Pieces
    BY <2>1, <2>2 DEF VS!TypeOK
  <2>5. QED
    BY <1>3, <2>3, <2>4 DEF VS!Streams, VS!TypeOK, StoreOK
<1>4. ASSUME NEW f \in s2, VS!Arrives(f) PROVE MapInv'
  <2> DEFINE acc == VS!Applied(<<s4, s5>>, f.pieces)
  <2>1. s4' = [acc[1] EXCEPT !.posed = @ \/ f.pose] /\ s5' = acc[2]
    BY <1>4 DEF VS!Arrives
  <2>2. StoreOK(acc[1], acc[2])
    <3>1. \A k \in DOMAIN f.pieces : f.pieces[k] \in VS!Pieces
      BY DEF VS!TypeOK
    <3>2. StoreOK(<<s4, s5>>[1], <<s4, s5>>[2])
      OBVIOUS
    <3>3. QED
      BY <3>1, <3>2, AppliedKeeps
  <2> HIDE DEF acc
  <2>4. s4'.mapId = acc[1].mapId /\ s4'.held = acc[1].held /\ s4'.seen = acc[1].seen
    BY <2>1, <2>2 DEF StoreOK
  <2>3. StoreOK(s4', s5')
    <3>1. f.pose \in BOOLEAN /\ acc[1].posed \in BOOLEAN 
      BY <2>2 DEF StoreOK, VS!TypeOK
    <3>2. QED
      BY <2>1, <2>2, <2>4, <3>1 DEF StoreOK
  <2>5. QED
    BY <1>4, <2>3 DEF VS!Arrives, VS!TypeOK, StoreOK
<1>5. ASSUME NEW f \in s2, VS!Skipped(f) \/ VS!Lost(f) PROVE MapInv'
  BY <1>5 DEF VS!Skipped, VS!Lost, VS!TypeOK, StoreOK
<1>6. QED
  BY <1>1, <1>2, <1>3, <1>4, <1>5 DEF VS!Next

\* Lemma.  A store begins empty.
LEMMA MapBegins == VS!Init => MapInv
<1> SUFFICES ASSUME VS!Init PROVE MapInv
  OBVIOUS
<1>1. s4 = [mapId |-> Off, held |-> VS!NoPieces, seen |-> VS!NoneSeen, posed |-> FALSE] /\ s5 = VS!NoneSeen
  BY DEF VS!Init
<1>2. VS!NoPieces \in [PieceKinds -> VS!Pieces \cup {Off}] /\ VS!NoneSeen \in [PieceKinds -> -1 .. MaxRevision]
  BY MapAssumption DEF VS!NoPieces, VS!NoneSeen
<1>3. StoreOK(s4, s5)
  BY <1>1, <1>2 DEF StoreOK, VS!NoPieces, VS!NoneSeen
<1>4. VS!TypeOK
  BY <1>3, MapAssumption DEF StoreOK, VS!Init, VS!TypeOK
<1>5. QED
  BY <1>3, <1>4 DEF MapInv

\* Lemma.  What is seen is what is held, and what the history says.
LEMMA MapTrue ==
  ASSUME MapInv
  PROVE  VS!TypeOK /\ VS!OneMap /\ VS!NewestHeld
BY DEF MapInv, StoreOK, VS!OneMap, VS!NewestHeld

-----------------------------------------------------------------------------
(* Links.                                                                  *)

\* Every part's invariant, where that part runs.
LinksInv ==
  /\ part = "station" => SP!PullInv
  /\ part = "datagrams" /\ PlainRestart => FramesInv
  /\ part = "push" => PushInv
  /\ part = "tuya" => TuyaInv
  /\ part = "registry" => RegistryInv
  /\ part = "control" => ControlInv
  /\ part = "availability" => AvInv
  /\ part = "events" => EventsInv
  /\ part = "mqtt" => MqInv
  /\ part = "map" => MapInv

\* Lemma.  The lemmas about the station hold here.
LEMMA StationParameters == SP!Parameters
BY BoundsAssumption, OwnAssumption, OffAssumption DEF SP!Parameters

\* Lemma.  The parts begin as their invariants say.
LEMMA LinksBegin ==
  ASSUME LinksInit
  PROVE  LinksInv
<1>1. ASSUME part = "push" PROVE PushInv
  <2>1. PU!Init
    BY <1>1 DEF LinksInit
  <2>2. PU!Flags
    BY <2>1 DEF PU!Init, PU!Flags
  <2>3. PU!Counts
    BY <2>1, BoundsAssumption DEF PU!Init, PU!Counts, PU!Delays
  <2>4. PushLink
    BY <2>1 DEF PU!Init, PushLink, PU!ClosedStaysClosed, PU!AlwaysComingBack
  <2>5. QED
    BY <2>2, <2>3, <2>4 DEF PushInv, PU!TypeOK
<1>2. ASSUME part = "tuya" PROVE TuyaInv
  BY <1>2, BoundsAssumption DEF LinksInit, TL!Init, TL!NoCall, TuyaInv, TuyaLinks, TL!TypeOK, TL!HeldIsCurrent,
     TL!OneLoginPerBind, TL!TwoPasswords, TL!FailureIsForgotten, TL!Active, TL!Logins
<1>3. ASSUME part = "registry" PROVE RegistryInv
  <2>1. DG!Init
    BY <1>3 DEF LinksInit
  <2>2. DG!NoFetch \in [pc : {"none", "asked", "answered"}, rec : DG!Records \cup {Off}, whole : BOOLEAN]
    BY DEF DG!NoFetch
  <2>3. DG!NoReport \in [Params -> ParamValues \cup {Off}]
    BY DEF DG!NoReport
  <2>4. DG!TypeOK
    <3>1. s4 \in [Fetchers -> [pc : {"none", "asked", "answered"}, rec : DG!Records \cup {Off}, whole : BOOLEAN]]
      BY <2>1, <2>2 DEF DG!Init
    <3>2. 0 \in 0 .. MaxChanges /\ s6 \in [Params -> ParamValues \cup {Off}]
      BY <2>1, <2>3, BoundsAssumption DEF DG!Init
    <3>3. QED
      BY <2>1, <3>1, <3>2 DEF DG!Init, DG!TypeOK
  <2>5. RegistryLinks
    BY <2>1 DEF DG!Init, RegistryLinks, DG!CapsAreCurrent, DG!MirrorFollows, DG!GapIsNoted
  <2>6. QED
    BY <2>4, <2>5 DEF RegistryInv
<1>4. ASSUME part = "control" PROVE ControlInv
  <2>1. CC!Init
    BY <1>4 DEF LinksInit
  <2>2. CC!NoCall \in CC!CallState /\ CC!NoCall.pc = "idle"
    <3>1. 0 \in 0 .. MaxSessions /\ 0 \in 0 .. 2 /\ 0 \in 0 .. MaxSends + 2 /\ 0 \in 0 .. 1
      BY BoundsAssumption
    <3>2. QED
      BY <3>1 DEF CC!NoCall, CC!CallState, CC!Kinds, CC!Settled
  <2>3. CC!TypeOK
    BY <2>1, <2>2, BoundsAssumption DEF CC!Init, CC!TypeOK, CC!Sessions
  <2>4. \A c \in Callers : CC!Sound(c)
    BY <2>1, <2>2 DEF CC!Init, CC!Sound
  <2>5. QED
    BY <2>3, <2>4 DEF ControlInv
<1>5. ASSUME part = "availability" PROVE AvInv
  BY <1>5 DEF LinksInit, AV!Init, AvInv, AV!TypeOK, AV!NewestIsKept
<1>6. ASSUME part = "events" PROVE EventsInv
  BY <1>6 DEF LinksInit, EF!Init, EventsInv
<1>7. ASSUME part = "station" PROVE SP!PullInv
  BY <1>7, StationParameters, SP!PullBegins DEF LinksInit
<1>8. ASSUME part = "datagrams" PROVE FramesInv
  <2>1. DS!Init
    BY <1>8 DEF LinksInit
  <2>2. Space \in Nat /\ Depth \in Nat /\ Depth < Space /\ Parts \in Nat /\ Parts > 0 /\ MaxDatagrams \in Nat
    BY DatagramAssumption
  <2>3. DS!TypeOK
    BY <2>1, <2>2 DEF DS!Init, DS!TypeOK, DS!NoSeq
  <2>4. NumbersAgree
    BY <2>1, <2>2 DEF DS!Init, NumbersAgree
  <2>5. FramesHeld /\ DS!FramesOnce
    BY <2>1 DEF DS!Init, FramesHeld, DS!FramesOnce
  <2>6. QED
    BY <2>3, <2>4, <2>5 DEF FramesInv
<1>9. ASSUME part = "mqtt" PROVE MqInv
  BY <1>9, MqBegins DEF LinksInit
<1>10. ASSUME part = "map" PROVE MapInv
  BY <1>10, MapBegins DEF LinksInit
<1>11. QED
  BY <1>1, <1>2, <1>3, <1>4, <1>5, <1>6, <1>7, <1>8, <1>9, <1>10 DEF LinksInv

\* Lemma.  A step is one of one part, and leaves which part it is alone.
LEMMA LinksStep ==
  ASSUME LinksInv, [LinksNext]_<<part, slots>>
  PROVE  LinksInv'
<1>1. part' = part
  BY DEF LinksNext, Only
<1>2. CASE UNCHANGED slots
  <2>1. SP!PullInv => SP!PullInv'
    BY <1>2, SP!PullStutters DEF slots, SP!vars, SP!manager, SP!pulls
  <2>2. FramesInv => FramesInv'
    BY <1>2 DEF slots, FramesInv, DS!TypeOK, NumbersAgree, FramesHeld, Run, DS!FramesOnce, DS!Number, DS!Part
  <2>3. MqInv => MqInv'
    BY <1>2 DEF slots, MqInv, AirIsRecent, CallsFit, Fits, Recent, FramesOf, MQ!TypeOK, MQ!LastHeld
  <2>4. MapInv => MapInv'
    BY <1>2 DEF slots, MapInv, StoreOK, VS!TypeOK
  <2>5. QED
    BY <1>1, <1>2, <2>1, <2>2, <2>3, <2>4 DEF slots, LinksInv, PushInv, PushLink, PU!TypeOK, PU!Flags, PU!Counts, PU!ClosedStaysClosed,
       PU!AlwaysComingBack, TuyaInv, TuyaLinks, TL!TypeOK, TL!HeldIsCurrent, TL!OneLoginPerBind, TL!TwoPasswords,
     TL!FailureIsForgotten, TL!Active, RegistryInv, RegistryLinks, DG!TypeOK, DG!CapsAreCurrent, DG!MirrorFollows,
     DG!GapIsNoted, ControlInv, CC!TypeOK, CC!Sound, CC!Listens, CC!Asking, AvInv, AV!TypeOK, AV!NewestIsKept,
     AV!Later, AV!observedAt, AV!sequence, EventsInv
<1>3. CASE LinksNext
  <2>1. ASSUME part = "push" PROVE PushInv'
    BY <2>1, <1>3, PushStep DEF LinksNext, Only, LinksInv
  <2>2. ASSUME part = "tuya" PROVE TuyaInv'
    BY <2>2, <1>3, TuyaStep DEF LinksNext, Only, LinksInv
  <2>3. ASSUME part = "registry" PROVE RegistryInv'
    BY <2>3, <1>3, RegistryStep DEF LinksNext, Only, LinksInv
  <2>4. ASSUME part = "control" PROVE ControlInv'
    BY <2>4, <1>3, ControlStep DEF LinksNext, Only, LinksInv
  <2>5. ASSUME part = "availability" PROVE AvInv'
    BY <2>5, <1>3, AvStep DEF LinksNext, Only, LinksInv
  <2>6. ASSUME part = "events" PROVE EventsInv'
    BY <2>6, <1>3, EventsStep DEF LinksNext, Only, LinksInv
  <2>7. ASSUME part = "station" PROVE SP!PullInv'
    BY <2>7, <1>3, StationParameters, SP!PullStep DEF LinksNext, Only, LinksInv
  <2>8. ASSUME part = "datagrams", PlainRestart PROVE FramesInv'
    BY <2>8, <1>3, FramesStep DEF LinksNext, Only, LinksInv
  <2>9. ASSUME part = "mqtt" PROVE MqInv'
    BY <2>9, <1>3, MqStep DEF LinksNext, Only, LinksInv
  <2>10. ASSUME part = "map" PROVE MapInv'
    BY <2>10, <1>3, MapStep DEF LinksNext, Only, LinksInv
  <2>11. QED
    BY <1>1, <2>1, <2>2, <2>3, <2>4, <2>5, <2>6, <2>7, <2>8, <2>9, <2>10 DEF LinksInv
<1>4. QED
  BY <1>2, <1>3 DEF slots

\* Lemma.  The invariant of Links, inductively.
LEMMA LinksInvariance == LinksSpec => []LinksInv
BY LinksBegin, LinksStep, PTL DEF LinksSpec

\* Theorem.  However calls, recoveries and closes of a station interleave, two
\* cameras of one HomeBase are never served at once (sharedLiveSourceFor:
\* releaseLingeringSiblings, occupiedSiblingChannel).
THEOREM OneCameraAtATime == LinksSpec => []OneCameraServed
<1>1. LinksInv => OneCameraServed
  BY StationParameters, SP!PullInvImplies DEF LinksInv, OneCameraServed
<1>2. QED
  BY <1>1, LinksInvariance, PTL

\* Theorem.  However they interleave, a source that streams is the one its key
\* names, and whoever talks holds the claim of the channel: the next caller
\* joins them and closeAll() ends them (liveSources, talkbacks).
THEOREM NoPullEscapes == LinksSpec => []PullsAreReachable
<1>1. LinksInv => PullsAreReachable
  BY StationParameters, SP!PullInvImplies DEF LinksInv, SP!PullInv, PullsAreReachable
<1>2. QED
  BY <1>1, LinksInvariance, PTL

\* Theorem.  Whatever the network loses, repeats and reorders, and wherever the
\* device numbers anew far from the number it replaces, frames are handed on
\* whole, in their order and once (P2PSession.onData).
THEOREM FramesArriveWhole == ASSUME PlainRestart PROVE LinksSpec => []FramesIntact
<1>1. FramesInv => DS!FramesAreWhole
  BY DEF FramesInv, DS!TypeOK, FramesHeld, Run, DS!FramesAreWhole
<1>2. LinksInv => FramesIntact
  BY <1>1 DEF LinksInv, FramesInv, FramesIntact
<1>3. QED
  BY <1>2, LinksInvariance, PTL

\* Theorem.  However sockets are lost and logins fail, close() is final, and
\* until then a push client that was opened has a socket or the timer of the
\* next one (PushClient.close, onClose, scheduleReconnect).
THEOREM PushStaysUp == LinksSpec => []PushUpOrClosed
<1>1. LinksInv => PushUpOrClosed
  BY DEF LinksInv, PushInv, PushLink, PushUpOrClosed
<1>2. QED
  BY <1>1, LinksInvariance, PTL

\* Theorem.  However calls join, fail and rebind, one binding has one login at a
\* time, of at most two passwords, and none is held that failed (ensureLoggedIn).
THEOREM LoginsAreShared == LinksSpec => []LoginIsShared
<1>1. LinksInv => LoginIsShared
  BY DEF LinksInv, TuyaInv, TuyaLinks, LoginIsShared
<1>2. QED
  BY <1>1, LinksInvariance, PTL

\* Theorem.  However lists cross and a device comes and goes, the capability
\* cache and the host's mirror are those of the list (getDevices, pollChanges).
THEOREM WhatIsDerivedFollows == LinksSpec => []DerivedFollows
<1>1. LinksInv => DerivedFollows
  BY DEF LinksInv, RegistryInv, RegistryLinks, DerivedFollows
<1>2. QED
  BY <1>1, LinksInvariance, PTL

\* Theorem.  However sessions close under them, no call reports a success of
\* which nothing was sent, and none leaves its listener (replayLevel2Send, p2pQuery).
THEOREM CommandsTellTruth == LinksSpec => []CommandsAreHonest
<1>1. ControlInv => CC!NoFalseSuccess /\ CC!NoListenerLeak
  BY DEF ControlInv, CC!Sound, CC!Listens, CC!NoFalseSuccess, CC!NoListenerLeak, CC!Settled
<1>2. LinksInv => CommandsAreHonest
  BY <1>1 DEF LinksInv, ControlInv, CommandsAreHonest
<1>3. QED
  BY <1>2, LinksInvariance, PTL

\* Theorem.  Whatever the order observations arrive in, timed, counted or
\* neither, the newest is the one kept (applyAvailabilityObservation).
THEOREM AvailabilityIsNewest == LinksSpec => []NewestIsKept
<1>1. LinksInv => NewestIsKept
  BY DEF LinksInv, AvInv, NewestIsKept
<1>2. QED
  BY <1>1, LinksInvariance, PTL

\* Theorem.  Whichever of its three sources a report comes from, and whatever
\* is suppressed as known, the host was told last what was reported last
\* (noteState, emitSemantic).
THEOREM HostIsToldLatest == LinksSpec => []ToldIsLatest
<1>1. LinksInv => ToldIsLatest
  BY DEF LinksInv, EventsInv, ToldIsLatest, EF!ToldIsLatest
<1>2. QED
  BY <1>1, LinksInvariance, PTL

\* Theorem.  However GETs, replies, SETs and the owner's own changes are
\* delayed, lost, repeated and crossed, an auto-lock write restores, and a state
\* read answers, only what the lock had no further back than the nonce of its
\* GET is wide; a data-point command is acknowledged only with every frame out;
\* and no connection outlives its command (MqttCommandRouter).
THEOREM LocksKeepChanges == LinksSpec => []LockTruth
<1>1. LinksInv => LockTruth
  BY MqTrue DEF LinksInv, LockTruth
<1>2. QED
  BY <1>1, LinksInvariance, PTL

\* Theorem.  However the pieces of a robot's maps are delayed, repeated and
\* reordered, alone or in backups, with a map id or without, those held are of
\* the one map the store names, each at the newest revision it was given since
\* it switched to that map (VacuumMapStore.put).
THEOREM MapStaysOne == LinksSpec => []MapIsCoherent
<1>1. LinksInv => MapIsCoherent
  BY MapTrue DEF LinksInv, MapIsCoherent
<1>2. QED
  BY <1>1, LinksInvariance, PTL
=============================================================================
