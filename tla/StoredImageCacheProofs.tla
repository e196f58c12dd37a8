----------------------- MODULE StoredImageCacheProofs -----------------------
(***************************************************************************)
(* Proofs about the store of push thumbnails, for any devices and bounds.  *)
(*                                                                         *)
(* Good(c, g) says of a cache c in generation g that its slots are those   *)
(* of the downloads that run and that what a device has queued or in       *)
(* flight was announced for it; Seen adds that a device that is known has  *)
(* something to say for itself.  Both are preserved by a turn of pump().   *)
(***************************************************************************)
EXTENDS StoredImageCache, TLAPS, FiniteSetTheorems, WellFoundedInduction

CandidatesOf(g) ==
  [deviceKey : Devices, sequence : Nat \ {0}, generation : 0 .. g]

Reasons == {"download-failed", "invalid-image", "lifecycle", "not-observed"}

DeviceStates(g) ==
  [nextSequence : 0 .. MaxUrls, queued : CandidatesOf(g) \cup {None},
   inFlight : CandidatesOf(g) \cup {None},
   retained : CandidatesOf(g) \cup {None}, reason : Reasons]

Caches(g) ==
  [order : Seq(Devices), devices : [Devices -> DeviceStates(g)],
   activeDevices : SUBSET Devices, activeDownloads : Nat,
   downloads : SUBSET CandidatesOf(g)]

\* What is waiting or running for a device was announced for it.
Announced(d, s) ==
  /\ s.queued # None =>
       s.queued.deviceKey = d /\ s.queued.sequence <= s.nextSequence
  /\ s.inFlight # None =>
       s.inFlight.deviceKey = d /\ s.inFlight.sequence <= s.nextSequence

Slots(c) ==
  /\ IsFiniteSet(c.downloads)
  /\ c.activeDownloads = Cardinality(c.downloads)
  /\ c.activeDownloads <= MaxDownloads
  /\ c.activeDevices = {x.deviceKey : x \in c.downloads}
  /\ \A c1, c2 \in c.downloads : c1.deviceKey = c2.deviceKey => c1 = c2

\* A device that is known has work, an image or a reason why not.
Accounted(s) ==
  \/ s.queued # None
  \/ s.inFlight # None
  \/ s.retained # None
  \/ s.reason # "not-observed"

Seen(c) == \A i \in DOMAIN c.order : Accounted(c.devices[c.order[i]])

Good(c, g) ==
  /\ c \in Caches(g)
  /\ \A d \in Devices : Announced(d, c.devices[d])
  /\ Slots(c)
  /\ Seen(c)

IInv == generation \in 0 .. MaxClears /\ Good(cache, generation)

\* What a reader can tell two caches apart by.
SameView(c1, c2) ==
  \A d \in Devices :
    /\ c1.devices[d].nextSequence = c2.devices[d].nextSequence
    /\ c1.devices[d].retained = c2.devices[d].retained

-----------------------------------------------------------------------------
(* None is no candidate.                                                   *)
LEMMA NoneIsNoCandidate ==
  ASSUME NEW g \in Nat
  PROVE  None \notin CandidatesOf(g)
BY CacheBounds DEF CandidatesOf, AnyCandidate

(* What queueing and settling do to the state of a device.                 *)
LEMMA QueuedState ==
  ASSUME NEW g, NEW s \in DeviceStates(g), NEW k \in CandidatesOf(g),
         k.sequence <= MaxUrls
  PROVE  LET u == Awaiting(s, k)
         IN /\ u \in DeviceStates(g)
            /\ u.queued = k /\ u.inFlight = s.inFlight
            /\ u.nextSequence = k.sequence
            /\ u.retained = s.retained
<1> DEFINE n == k.sequence
<1>1. n \in 0 .. MaxUrls
  BY CacheBounds DEF CandidatesOf
<1>2. Awaiting(s, k) = [s EXCEPT !.nextSequence = n, !.queued = k]
  BY Zenon DEF Awaiting
<1> HIDE DEF n
<1>3. LET u == [s EXCEPT !.nextSequence = n, !.queued = k]
      IN /\ u \in DeviceStates(g)
         /\ u.queued = k /\ u.inFlight = s.inFlight
         /\ u.nextSequence = n
         /\ u.retained = s.retained
  BY <1>1 DEF DeviceStates
<1>4. QED
  BY <1>2, <1>3, Zenon DEF n

LEMMA SettledState ==
  ASSUME NEW g \in Nat, NEW s \in DeviceStates(g), NEW k \in CandidatesOf(g),
         NEW result \in Results
  PROVE  LET u == Settled(s, k, result)
         IN /\ u \in DeviceStates(g)
            /\ u.queued = s.queued /\ u.inFlight = None
            /\ u.nextSequence = s.nextSequence
            /\ Accounted(u)
            /\ \/ u.retained = s.retained
               \/ /\ u.retained = k
                  /\ s.retained # None => k.sequence > s.retained.sequence
<1>1. None \notin CandidatesOf(g)
  BY NoneIsNoCandidate
<1>2. CASE result # "image"
  BY <1>2 DEF Settled, DeviceStates, Results, Reasons, Accounted
<1>3. CASE result = "image" /\ (s.retained = None \/ k.sequence > s.retained.sequence)
  BY <1>1, <1>3 DEF Settled, DeviceStates, Reasons, Accounted
<1>4. CASE result = "image" /\ ~(s.retained = None \/ k.sequence > s.retained.sequence)
  BY <1>4 DEF Settled, DeviceStates, Accounted
<1> QED BY <1>2, <1>3, <1>4

(* A download that starts takes a slot and changes nothing a reader sees.  *)
LEMMA StartedGood ==
  ASSUME NEW g \in Nat, NEW c, Good(c, g), NEW d \in Devices,
         Startable(c, d), c.activeDownloads < MaxDownloads
  PROVE  Good(Started(c, d), g) /\ SameView(Started(c, d), c)
<1> DEFINE s == c.devices[d]
           q == s.queued
           t == Started(c, d)
<1>1. /\ c \in Caches(g)
      /\ s \in DeviceStates(g)
      /\ q \in CandidatesOf(g)
      /\ q.deviceKey = d
      /\ q.sequence <= s.nextSequence
  BY DEF Good, Caches, DeviceStates, Announced, Startable
<1>2. /\ t.order = c.order
      /\ t.devices = [c.devices EXCEPT ![d] =
                        [s EXCEPT !.queued = None, !.inFlight = q]]
      /\ t.activeDevices = c.activeDevices \cup {d}
      /\ t.activeDownloads = c.activeDownloads + 1
      /\ t.downloads = c.downloads \cup {q}
      /\ t = [order |-> t.order, devices |-> t.devices,
              activeDevices |-> t.activeDevices,
              activeDownloads |-> t.activeDownloads, downloads |-> t.downloads]
  BY DEF Started
<1>3. [s EXCEPT !.queued = None, !.inFlight = q] \in DeviceStates(g)
  BY <1>1 DEF DeviceStates
<1>4. t \in Caches(g)
  BY <1>1, <1>2, <1>3 DEF Caches
<1>5. \A e \in Devices :
        /\ Announced(e, t.devices[e])
        /\ t.devices[e].nextSequence = c.devices[e].nextSequence
        /\ t.devices[e].retained = c.devices[e].retained
        /\ Accounted(c.devices[e]) => Accounted(t.devices[e])
  <2> SUFFICES ASSUME NEW e \in Devices
               PROVE  /\ Announced(e, t.devices[e])
                      /\ t.devices[e].nextSequence = c.devices[e].nextSequence
                      /\ t.devices[e].retained = c.devices[e].retained
                      /\ Accounted(c.devices[e]) => Accounted(t.devices[e])
    OBVIOUS
  <2>1. CASE e = d
    BY <2>1, <1>1, <1>2, NoneIsNoCandidate
       DEF Caches, DeviceStates, Announced, Accounted
  <2>2. CASE e # d
    BY <2>2, <1>1, <1>2 DEF Good, Caches
  <2> QED BY <2>1, <2>2
<1>6. q \notin c.downloads
  BY <1>1 DEF Good, Slots, Startable
<1>7. Slots(t)
  <2>1. IsFiniteSet(c.downloads) /\ Cardinality(c.downloads) = c.activeDownloads
    BY DEF Good, Slots
  <2>2. IsFiniteSet(t.downloads) /\ Cardinality(t.downloads) = t.activeDownloads
    BY <2>1, <1>2, <1>6, FS_AddElement
  <2>3. t.activeDownloads <= MaxDownloads
    BY <1>1, <1>2 DEF Caches, MaxDownloads
  <2>4. t.activeDevices = {x.deviceKey : x \in t.downloads}
    BY <1>1, <1>2 DEF Good, Slots
  <2>5. \A c1, c2 \in t.downloads : c1.deviceKey = c2.deviceKey => c1 = c2
    BY <1>1, <1>2 DEF Good, Slots, Startable
  <2> QED BY <2>2, <2>3, <2>4, <2>5 DEF Slots
<1>8. Seen(t)
  BY <1>1, <1>2, <1>5 DEF Good, Seen, Caches
<1> QED BY <1>4, <1>5, <1>7, <1>8 DEF Good, SameView

(* A turn of pump() starts one download or none.                           *)
LEMMA PumpOnceGood ==
  ASSUME NEW g \in Nat, NEW c, Good(c, g)
  PROVE  Good(PumpOnce(c), g) /\ SameView(PumpOnce(c), c)
<1> DEFINE free == c.activeDownloads < MaxDownloads
                   /\ \E i \in DOMAIN c.order : IsFirst(c, i)
           first == CHOOSE i \in DOMAIN c.order : IsFirst(c, i)
<1>1. CASE free
  <2>1. first \in DOMAIN c.order /\ IsFirst(c, first)
    BY <1>1
  <2>2. c.order[first] \in Devices
    BY <2>1 DEF Good, Caches
  <2>3. Startable(c, c.order[first])
    BY <2>1 DEF IsFirst
  <2>4. PumpOnce(c) = Started(c, c.order[first])
    BY <1>1 DEF PumpOnce
  <2>5. c.activeDownloads < MaxDownloads
    BY <1>1
  <2> HIDE DEF first
  <2> QED BY <2>2, <2>3, <2>4, <2>5, StartedGood
<1>2. CASE ~free
  BY <1>2 DEF PumpOnce, SameView
<1> QED BY <1>1, <1>2

(* So does pump().                                                         *)
LEMMA PumpGood ==
  ASSUME NEW g \in Nat, NEW c, Good(c, g)
  PROVE  Good(Pump(c), g) /\ SameView(Pump(c), c)
<1>1. Good(PumpOnce(c), g) /\ SameView(PumpOnce(c), c)
  BY PumpOnceGood
<1> DEFINE p == PumpOnce(c)
<1>2. Good(PumpOnce(p), g) /\ SameView(PumpOnce(p), p)
  <2> HIDE DEF p
  <2>1. Good(p, g) BY <1>1 DEF p
  <2> QED BY <2>1, PumpOnceGood
<1> QED BY <1>1, <1>2 DEF Pump, SameView

-----------------------------------------------------------------------------
(* One lemma per action.                                                   *)

LEMMA QueuedGood ==
  ASSUME IInv, NEW d \in Devices, NEW n \in 1 .. MaxUrls,
         n = cache.devices[d].nextSequence + 1
  PROVE  Good(Queued(d, n), generation)
<1> DEFINE s == cache.devices[d]
           k == Candidate(d, n, generation)
           u == Awaiting(s, k)
           t == Queued(d, n)
<1>1. /\ generation \in Nat
      /\ cache \in Caches(generation)
      /\ s \in DeviceStates(generation)
      /\ k \in CandidatesOf(generation)
      /\ k.deviceKey = d
      /\ k.sequence = n
  BY CacheBounds DEF IInv, Good, Caches, Candidate, CandidatesOf
<1>2. k # None
  BY <1>1, NoneIsNoCandidate
<1>3. u \in DeviceStates(generation)
  <2> HIDE DEF s, k
  <2> QED BY <1>1, QueuedState
<1>4. /\ t.order = IF Known(d) THEN cache.order ELSE Append(cache.order, d)
      /\ t.devices = [cache.devices EXCEPT ![d] = u]
      /\ t.activeDevices = cache.activeDevices
      /\ t.activeDownloads = cache.activeDownloads
      /\ t.downloads = cache.downloads
      /\ t = [order |-> t.order, devices |-> t.devices,
              activeDevices |-> t.activeDevices,
              activeDownloads |-> t.activeDownloads, downloads |-> t.downloads]
  BY DEF Queued
<1> HIDE DEF t
<1>5. t.order \in Seq(Devices)
  <2>1. cache.order \in Seq(Devices)
    BY <1>1 DEF Caches
  <2> QED BY <1>4, <2>1
<1>6. t \in Caches(generation)
  BY <1>1, <1>3, <1>4, <1>5 DEF Caches
<1>7. u.queued = k /\ u.inFlight = s.inFlight /\ u.nextSequence = n
  <2> HIDE DEF s, k
  <2> QED BY <1>1, QueuedState
<1> HIDE DEF u
<1>8. \A e \in Devices : t.devices[e] = IF e = d THEN u ELSE cache.devices[e]
  BY <1>1, <1>4 DEF Caches
<1>9. Announced(d, s)
  BY DEF IInv, Good
<1>10. s.inFlight # None => s.inFlight.sequence <= n
  BY <1>1, <1>9, CacheBounds DEF Announced, DeviceStates, CandidatesOf
<1>11. Announced(d, u)
  BY <1>1, <1>2, <1>7, <1>9, <1>10 DEF Announced
<1>12. \A e \in Devices : Announced(e, t.devices[e])
  BY <1>8, <1>11 DEF IInv, Good
<1>13. Slots(t)
  BY <1>4 DEF IInv, Good, Slots
<1>14. Seen(t)
  <2> SUFFICES ASSUME NEW i \in DOMAIN t.order
               PROVE  Accounted(t.devices[t.order[i]])
    BY DEF Seen
  <2>1. t.order[i] \in Devices
    BY <1>5
  <2>2. CASE t.order[i] = d
    BY <2>1, <2>2, <1>2, <1>7, <1>8 DEF Accounted
  <2>3. CASE t.order[i] # d
    <3>1. i \in DOMAIN cache.order /\ t.order[i] = cache.order[i]
      BY <2>3, <1>1, <1>4 DEF Caches
    <3>2. Accounted(cache.devices[cache.order[i]])
      BY <3>1 DEF IInv, Good, Seen
    <3> QED BY <2>1, <2>3, <3>1, <3>2, <1>8
  <2> QED BY <2>2, <2>3
<1> QED BY <1>6, <1>12, <1>13, <1>14 DEF Good, t

LEMMA FreedGood ==
  ASSUME IInv, NEW c \in cache.downloads, NEW result \in Results
  PROVE  Good(Freed(c, Concluded(c, result)), generation)
<1> DEFINE d == c.deviceKey
           s == cache.devices[d]
           u == Settled(s, c, result)
           t == Freed(c, Concluded(c, result))
<1>1. /\ generation \in Nat
      /\ cache \in Caches(generation)
      /\ c \in CandidatesOf(generation)
      /\ d \in Devices
      /\ s \in DeviceStates(generation)
  BY CacheBounds DEF IInv, Good, Caches, CandidatesOf
<1>2. /\ t.order = cache.order
      /\ t.devices = IF Current(c) THEN [cache.devices EXCEPT ![d] = u]
                                   ELSE cache.devices
      /\ t.activeDevices = cache.activeDevices \ {d}
      /\ t.activeDownloads = cache.activeDownloads - 1
      /\ t.downloads = cache.downloads \ {c}
      /\ t = [order |-> t.order, devices |-> t.devices,
              activeDevices |-> t.activeDevices,
              activeDownloads |-> t.activeDownloads, downloads |-> t.downloads]
  BY DEF Freed, Concluded
<1>3. /\ u \in DeviceStates(generation)
      /\ u.queued = s.queued /\ u.inFlight = None
      /\ u.nextSequence = s.nextSequence
      /\ Accounted(u)
  <2> HIDE DEF s
  <2> QED BY <1>1, SettledState
<1> HIDE DEF t, u
<1>4. t.devices \in [Devices -> DeviceStates(generation)]
  BY <1>1, <1>2, <1>3 DEF Caches
<1>5. Slots(t) /\ t.activeDownloads \in Nat
  <2>1. /\ IsFiniteSet(cache.downloads)
        /\ Cardinality(cache.downloads) = cache.activeDownloads
        /\ cache.activeDownloads \in Nat
        /\ cache.activeDownloads <= MaxDownloads
        /\ cache.activeDevices = {x.deviceKey : x \in cache.downloads}
        /\ \A c1, c2 \in cache.downloads : c1.deviceKey = c2.deviceKey => c1 = c2
    BY <1>1 DEF IInv, Good, Slots, Caches
  <2>2. /\ IsFiniteSet(t.downloads)
        /\ Cardinality(t.downloads) = t.activeDownloads
    BY <1>2, <2>1, FS_RemoveElement
  <2>3. t.activeDownloads \in Nat
    BY <2>2, FS_CardinalityType
  <2>4. t.activeDownloads <= MaxDownloads
    BY <1>2, <2>1 DEF MaxDownloads
  <2>5. t.activeDevices = {x.deviceKey : x \in t.downloads}
    BY <1>2, <2>1
  <2>6. \A c1, c2 \in t.downloads : c1.deviceKey = c2.deviceKey => c1 = c2
    BY <1>2, <2>1
  <2> QED BY <2>2, <2>3, <2>4, <2>5, <2>6 DEF Slots
<1>6. t \in Caches(generation)
  BY <1>1, <1>2, <1>4, <1>5 DEF Caches
<1>7. \A e \in Devices : t.devices[e] = IF Current(c) /\ e = d THEN u
                                        ELSE cache.devices[e]
  BY <1>1, <1>2 DEF Caches
<1>8. Announced(d, u)
  <2>1. Announced(d, s)
    BY <1>1 DEF IInv, Good
  <2> HIDE DEF s
  <2> QED BY <1>3, <2>1 DEF Announced
<1>9. \A e \in Devices : Announced(e, t.devices[e])
  BY <1>7, <1>8 DEF IInv, Good
<1>10. Seen(t)
  <2> SUFFICES ASSUME NEW i \in DOMAIN t.order
               PROVE  Accounted(t.devices[t.order[i]])
    BY DEF Seen
  <2>1. i \in DOMAIN cache.order /\ t.order[i] = cache.order[i]
    BY <1>2
  <2>2. cache.order[i] \in Devices
    BY <1>1, <2>1 DEF Caches
  <2>3. Accounted(cache.devices[cache.order[i]])
    BY <2>1 DEF IInv, Good, Seen
  <2> QED BY <1>3, <1>7, <2>1, <2>2, <2>3
<1> QED BY <1>5, <1>6, <1>9, <1>10 DEF Good, t

LEMMA ClearGood ==
  ASSUME IInv, Clear
  PROVE  IInv'
<1>1. /\ generation \in 0 .. MaxClears
      /\ generation' = generation + 1
      /\ generation' \in 0 .. MaxClears
      /\ MaxClears \in Nat
  BY CacheBounds DEF IInv, Clear
<1>2. CandidatesOf(generation) \subseteq CandidatesOf(generation')
  BY <1>1 DEF CandidatesOf
<1>3. /\ cache'.order = <<>>
      /\ cache'.devices = NoDevices
      /\ cache'.activeDevices = cache.activeDevices
      /\ cache'.activeDownloads = cache.activeDownloads
      /\ cache'.downloads = cache.downloads
      /\ cache' = [order |-> cache'.order, devices |-> cache'.devices,
                   activeDevices |-> cache'.activeDevices,
                   activeDownloads |-> cache'.activeDownloads,
                   downloads |-> cache'.downloads]
  BY DEF Clear
<1>4. NoDevices \in [Devices -> DeviceStates(generation')]
  BY CacheBounds DEF NoDevices, NewDevice, DeviceStates, Reasons
<1>5. cache' \in Caches(generation')
  <2>1. cache'.order \in Seq(Devices)
    BY <1>3
  <2>2. cache'.downloads \subseteq CandidatesOf(generation')
    BY <1>2, <1>3 DEF IInv, Good, Caches
  <2>3. cache'.activeDownloads \in Nat /\ cache'.activeDevices \subseteq Devices
    BY <1>3 DEF IInv, Good, Caches
  <2> QED BY <1>3, <1>4, <2>1, <2>2, <2>3 DEF Caches
<1>6. \A d \in Devices : Announced(d, cache'.devices[d])
  BY <1>3 DEF NoDevices, NewDevice, Announced
<1>7. Slots(cache')
  BY <1>3 DEF IInv, Good, Slots
<1>8. Seen(cache')
  BY <1>3 DEF Seen
<1> QED BY <1>1, <1>5, <1>6, <1>7, <1>8 DEF IInv, Good

LEMMA InitGood == Init => IInv
<1> SUFFICES ASSUME Init PROVE IInv
  OBVIOUS
<1>1. generation = 0 /\ generation \in 0 .. MaxClears
  BY CacheBounds DEF Init
<1>2. /\ cache.order = <<>> /\ cache.devices = NoDevices
      /\ cache.activeDevices = {} /\ cache.activeDownloads = 0
      /\ cache.downloads = {}
  BY DEF Init
<1>3. NoDevices \in [Devices -> DeviceStates(0)]
  BY CacheBounds DEF NoDevices, NewDevice, DeviceStates, Reasons
<1>4. cache \in Caches(0)
  BY <1>3 DEF Init, Caches
<1>5. \A d \in Devices : Announced(d, cache.devices[d])
  BY <1>2 DEF NoDevices, NewDevice, Announced
<1>6. Slots(cache)
  BY <1>2, FS_EmptySet DEF Slots, MaxDownloads
<1>7. Seen(cache)
  BY <1>2 DEF Seen
<1> QED BY <1>1, <1>4, <1>5, <1>6, <1>7 DEF IInv, Good

(* Whatever is observed, ends or is cleared, the invariant is kept.        *)
LEMMA NextGood == IInv /\ [Next]_vars => IInv'
<1> SUFFICES ASSUME IInv, [Next]_vars PROVE IInv'
  OBVIOUS
<1>0. generation \in Nat
  BY CacheBounds DEF IInv
<1>1. ASSUME NEW d \in Devices, Observe(d) PROVE IInv'
  <2> DEFINE n == cache.devices[d].nextSequence + 1
             q == Queued(d, n)
  <2>1. n \in 1 .. MaxUrls
    BY <1>1, CacheBounds DEF IInv, Good, Caches, DeviceStates, Observe
  <2>2. Good(q, generation)
    BY <2>1, QueuedGood
  <2>3. cache' = Pump(q) /\ generation' = generation
    BY <1>1 DEF Observe
  <2> HIDE DEF q
  <2> QED BY <1>0, <2>2, <2>3, PumpGood DEF IInv
<1>2. ASSUME NEW c \in cache.downloads, NEW result \in Results,
             Complete(c, result)
      PROVE  IInv'
  <2> DEFINE f == Freed(c, Concluded(c, result))
  <2>1. Good(f, generation)
    BY FreedGood
  <2>2. cache' = Pump(f) /\ generation' = generation
    BY <1>2 DEF Complete
  <2> HIDE DEF f
  <2> QED BY <1>0, <2>1, <2>2, PumpGood DEF IInv
<1>3. CASE Clear
  BY <1>3, ClearGood
<1>4. CASE UNCHANGED vars
  BY <1>4 DEF IInv, vars
<1> QED BY <1>1, <1>2, <1>3, <1>4 DEF Next, Downloads

-----------------------------------------------------------------------------
(* The cache is well-typed: no download ends that holds no slot, and no    *)
(* third one starts, for any number of devices, URLs and changes of        *)
(* account.                                                                *)
THEOREM TypeCorrect == Spec => []TypeOK
<1>1. IInv => TypeOK
  <2> SUFFICES ASSUME IInv PROVE TypeOK
    OBVIOUS
  <2>1. CandidatesOf(generation) = Candidates
    BY DEF CandidatesOf, Candidates
  <2>2. Reasons = (Results \ {"image"}) \cup {"not-observed"}
    BY DEF Reasons, Results
  <2>3. cache.activeDownloads \in 0 .. MaxDownloads
    BY DEF IInv, Good, Caches, Slots, MaxDownloads
  <2> QED BY <2>1, <2>2, <2>3 DEF IInv, Good, Caches, DeviceStates, TypeOK
<1> QED BY <1>1, InitGood, NextGood, PTL DEF Spec

(* The slots and the devices taken are those of the downloads that run,    *)
(* the ones clear() left behind included (stored-image-cache.ts:99-101).   *)
THEOREM SlotsCorrect == Spec => []SlotsMatch
<1>1. IInv => SlotsMatch
  BY DEF IInv, Good, Slots, SlotsMatch
<1> QED BY <1>1, InitGood, NextGood, PTL DEF Spec

(* A reader is told not-observed of devices that are not known only.       *)
THEOREM NotObservedCorrect == Spec => []NotObservedIsTrue
<1>1. IInv => NotObservedIsTrue
  BY DEF IInv, Good, Seen, Accounted, NotObservedIsTrue, Rejects, Reason, Known
<1> QED BY <1>1, InitGood, NextGood, PTL DEF Spec

-----------------------------------------------------------------------------
(* No device waits while a slot is free.  The loop of pump() ends when it  *)
(* finds nobody to start for, and it finds whoever there is because every  *)
(* device with something queued is listed in the order it runs through.    *)

Listed(c) ==
  \A d \in Devices :
    c.devices[d].queued # None => \E i \in DOMAIN c.order : c.order[i] = d

NoneWaits(c) ==
  c.activeDownloads < MaxDownloads => \A d \in Devices : ~Startable(c, d)

WInv == IInv /\ Listed(cache) /\ NoneWaits(cache)

(* A set of positions has a first one: those up to a position are finitely *)
(* many, and strict inclusion of finite sets is well-founded.              *)
LEMMA Least ==
  ASSUME NEW n \in Nat, NEW T \in SUBSET (1 .. n), T # {}
  PROVE  \E x \in T : \A y \in T : x <= y
<1> DEFINE S == 1 .. n
           Below(x) == {y \in T : y <= x}
           All == {Below(x) : x \in T}
<1>1. IsWellFoundedOn(StrictSubsetOrdering(S), FiniteSubsetsOf(S))
  BY FS_StrictSubsetOrderingWellFounded
<1>2. FiniteSubsetsOf(S) = SUBSET S
  <2>1. IsFiniteSet(S)
    BY FS_Interval
  <2> HIDE DEF S
  <2> QED BY <2>1, FS_FiniteSubsetsOfFinite
<1>3. All \subseteq FiniteSubsetsOf(S) /\ All # {}
  BY <1>2
<1>4. PICK B \in All : \A C \in All : ~(<<C, B>> \in StrictSubsetOrdering(S))
  BY <1>1, <1>3, WFMin
<1>5. PICK x \in T : B = Below(x)
  BY <1>4
<1>6. T \subseteq Int
  OBVIOUS
<1>7. ASSUME NEW y \in T, y < x PROVE FALSE
  <2>1. x \in Int /\ y \in Int
    BY <1>6
  <2>2. Below(y) \subseteq Below(x)
    <3> SUFFICES ASSUME NEW z \in T, z <= y PROVE z <= x
      OBVIOUS
    <3> QED BY <1>6, <1>7, <2>1
  <2>3. x \in Below(x) /\ x \notin Below(y)
    BY <1>7, <2>1
  <2>4. <<Below(y), Below(x)>> \in StrictSubsetOrdering(S)
    BY <2>2, <2>3 DEF StrictSubsetOrdering
  <2> QED BY <1>4, <1>5, <2>4
<1> QED BY <1>6, <1>7

(* So where a device can be started for, there is a first one.             *)
LEMMA SomeIsFirst ==
  ASSUME NEW g \in Nat, NEW c, Good(c, g), Listed(c),
         NEW d \in Devices, Startable(c, d)
  PROVE  \E i \in DOMAIN c.order : IsFirst(c, i)
<1> DEFINE n == Len(c.order)
           T == {i \in 1 .. n : Startable(c, c.order[i])}
<1>1. n \in Nat /\ DOMAIN c.order = 1 .. n
  BY DEF Good, Caches
<1>2. PICK i \in DOMAIN c.order : c.order[i] = d
  BY DEF Listed, Startable
<1>3. T \in SUBSET (1 .. n) /\ T # {}
  BY <1>1, <1>2
<1> HIDE DEF n, T
<1>4. PICK x \in T : \A y \in T : x <= y
  BY <1>1, <1>3, Least
<1>5. x \in 1 .. n /\ Startable(c, c.order[x])
  BY <1>4 DEF T
<1>6. ASSUME NEW j \in 1 .. x - 1 PROVE ~Startable(c, c.order[j])
  <2>1. j \in 1 .. n /\ ~(x <= j)
    BY <1>1, <1>5
  <2> QED BY <2>1, <1>4 DEF T
<1> QED BY <1>1, <1>5, <1>6 DEF IsFirst

(* A turn of the loop starts a download exactly where one should start.    *)
LEMMA PumpOnceWorks ==
  ASSUME NEW g \in Nat, NEW c, Good(c, g), Listed(c)
  PROVE  /\ Listed(PumpOnce(c))
         /\ NoneWaits(c) => PumpOnce(c) = c
         /\ ~NoneWaits(c) =>
              PumpOnce(c).activeDownloads = c.activeDownloads + 1
<1>1. \A i \in DOMAIN c.order : c.order[i] \in Devices
  BY DEF Good, Caches
<1>2. CASE NoneWaits(c)
  <2>1. PumpOnce(c) = c
    BY <1>1, <1>2 DEF NoneWaits, PumpOnce, IsFirst
  <2> QED BY <1>2, <2>1
<1>3. CASE ~NoneWaits(c)
  <2>1. c.activeDownloads < MaxDownloads /\ \E d \in Devices : Startable(c, d)
    BY <1>3 DEF NoneWaits
  <2>2. \E i \in DOMAIN c.order : IsFirst(c, i)
    BY <2>1, SomeIsFirst
  <2> DEFINE first == c.order[CHOOSE i \in DOMAIN c.order : IsFirst(c, i)]
  <2>3. PumpOnce(c) = Started(c, first)
    BY <2>1, <2>2 DEF PumpOnce
  <2>4. first \in Devices
    BY <1>1, <2>2
  <2> HIDE DEF first
  <2>5. /\ PumpOnce(c).activeDownloads = c.activeDownloads + 1
        /\ PumpOnce(c).order = c.order
        /\ PumpOnce(c).devices =
             [c.devices EXCEPT ![first] =
               [@ EXCEPT !.queued = None, !.inFlight = c.devices[first].queued]]
    BY <2>3 DEF Started
  <2>6. \A d \in Devices :
          PumpOnce(c).devices[d].queued # None => c.devices[d].queued # None
    BY <2>4, <2>5 DEF Good, Caches, DeviceStates
  <2> QED BY <1>3, <2>5, <2>6 DEF Listed
<1> QED BY <1>2, <1>3

(* Two turns are enough: after them nobody waits or both slots are taken.  *)
LEMMA PumpWorks ==
  ASSUME NEW g \in Nat, NEW c, Good(c, g), Listed(c)
  PROVE  Listed(Pump(c)) /\ NoneWaits(Pump(c))
<1> DEFINE p == PumpOnce(c)
           q == PumpOnce(p)
<1>1. /\ Good(p, g)
      /\ Listed(p)
      /\ NoneWaits(c) => p = c
      /\ ~NoneWaits(c) => p.activeDownloads = c.activeDownloads + 1
  BY PumpOnceGood, PumpOnceWorks
<1> HIDE DEF p
<1>2. /\ Listed(q)
      /\ NoneWaits(p) => q = p
      /\ ~NoneWaits(p) => q.activeDownloads = p.activeDownloads + 1
  BY <1>1, PumpOnceWorks
<1>3. Pump(c) = q
  BY DEF Pump, p
<1> HIDE DEF q
<1>4. c.activeDownloads \in Nat
  BY DEF Good, Caches
<1>5. CASE NoneWaits(p)
  BY <1>2, <1>3, <1>5
<1>6. CASE ~NoneWaits(p)
  <2>1. ~NoneWaits(c)
    BY <1>1, <1>6
  <2>2. q.activeDownloads = c.activeDownloads + 2
    BY <1>1, <1>2, <1>4, <1>6, <2>1
  <2> QED BY <1>2, <1>3, <1>4, <2>2 DEF NoneWaits, MaxDownloads
<1> QED BY <1>5, <1>6

(* A device a URL was observed for is listed.                              *)
LEMMA QueuedListed ==
  ASSUME IInv, Listed(cache), NEW d \in Devices, NEW n \in 1 .. MaxUrls,
         n = cache.devices[d].nextSequence + 1
  PROVE  Listed(Queued(d, n))
<1> DEFINE t == Queued(d, n)
<1>1. /\ t.order = IF Known(d) THEN cache.order ELSE Append(cache.order, d)
      /\ t.devices = [cache.devices EXCEPT ![d] =
                        Awaiting(@, Candidate(d, n, generation))]
  BY DEF Queued
<1> HIDE DEF t
<1>2. /\ cache.order \in Seq(Devices)
      /\ cache.devices \in [Devices -> DeviceStates(generation)]
  BY DEF IInv, Good, Caches
<1>3. \E i \in DOMAIN t.order : t.order[i] = d
  <2>1. CASE Known(d)
    BY <1>1, <2>1 DEF Known
  <2>2. CASE ~Known(d)
    <3>1. Len(t.order) \in DOMAIN t.order /\ t.order[Len(t.order)] = d
      BY <1>1, <1>2, <2>2
    <3> QED BY <3>1
  <2> QED BY <2>1, <2>2
<1>4. \A i \in DOMAIN cache.order :
        i \in DOMAIN t.order /\ t.order[i] = cache.order[i]
  BY <1>1, <1>2
<1>5. \A e \in Devices : e # d => t.devices[e] = cache.devices[e]
  BY <1>1, <1>2
<1>6. Listed(t)
  BY <1>3, <1>4, <1>5 DEF Listed
<1> QED BY <1>6 DEF t

(* What ends, queues nothing and takes nobody out of the order.            *)
LEMMA FreedListed ==
  ASSUME IInv, Listed(cache), NEW c \in cache.downloads, NEW result \in Results
  PROVE  Listed(Freed(c, Concluded(c, result)))
<1> DEFINE d == c.deviceKey
           s == cache.devices[d]
           u == Settled(s, c, result)
           t == Freed(c, Concluded(c, result))
<1>1. /\ generation \in Nat
      /\ cache.devices \in [Devices -> DeviceStates(generation)]
      /\ c \in CandidatesOf(generation)
      /\ d \in Devices
      /\ s \in DeviceStates(generation)
  BY CacheBounds DEF IInv, Good, Caches, CandidatesOf
<1>2. /\ t.order = cache.order
      /\ t.devices = IF Current(c) THEN [cache.devices EXCEPT ![d] = u]
                                   ELSE cache.devices
  BY DEF Freed, Concluded
<1>3. u.queued = s.queued
  <2> HIDE DEF s
  <2> QED BY <1>1, SettledState
<1> HIDE DEF t, u
<1>4. \A e \in Devices : t.devices[e].queued = cache.devices[e].queued
  BY <1>1, <1>2, <1>3
<1>5. Listed(t)
  BY <1>2, <1>4 DEF Listed
<1> QED BY <1>5 DEF t

LEMMA NextWorks == WInv /\ [Next]_vars => WInv'
<1> SUFFICES ASSUME WInv, [Next]_vars PROVE WInv'
  OBVIOUS
<1>1. IInv'
  BY NextGood DEF WInv
<1>2. generation \in Nat
  BY CacheBounds DEF WInv, IInv
<1>3. ASSUME NEW d \in Devices, Observe(d) PROVE Listed(cache') /\ NoneWaits(cache')
  <2> DEFINE n == cache.devices[d].nextSequence + 1
             q == Queued(d, n)
  <2>1. n \in 1 .. MaxUrls
    BY <1>3, CacheBounds DEF WInv, IInv, Good, Caches, DeviceStates, Observe
  <2>2. Good(q, generation) /\ Listed(q)
    BY <2>1, QueuedGood, QueuedListed DEF WInv
  <2>3. cache' = Pump(q)
    BY <1>3 DEF Observe
  <2> HIDE DEF q
  <2> QED BY <1>2, <2>2, <2>3, PumpWorks
<1>4. ASSUME NEW c \in cache.downloads, NEW result \in Results,
             Complete(c, result)
      PROVE  Listed(cache') /\ NoneWaits(cache')
  <2> DEFINE f == Freed(c, Concluded(c, result))
  <2>1. Good(f, generation) /\ Listed(f)
    BY FreedGood, FreedListed DEF WInv
  <2>2. cache' = Pump(f)
    BY <1>4 DEF Complete
  <2> HIDE DEF f
  <2> QED BY <1>2, <2>1, <2>2, PumpWorks
<1>5. CASE Clear
  <2>1. \A d \in Devices : cache'.devices[d].queued = None
    BY <1>5 DEF Clear, NoDevices, NewDevice
  <2> QED BY <1>1, <2>1 DEF WInv, Listed, NoneWaits, Startable
<1>6. CASE UNCHANGED vars
  BY <1>6 DEF WInv, IInv, vars, Listed, NoneWaits
<1> QED
  BY <1>1, <1>3, <1>4, <1>5, <1>6 DEF WInv, Next, Downloads, Listed, NoneWaits

(* No device waits while a slot is free for it, however downloads end and  *)
(* accounts change: pump() never stops short (stored-image-cache.ts:122).  *)
THEOREM NobodyWaits == Spec => []WorkConserving
<1>1. Init => WInv
  <2> SUFFICES ASSUME Init PROVE WInv
    OBVIOUS
  <2>1. \A d \in Devices : cache.devices[d].queued = None
    BY DEF Init, NoDevices, NewDevice
  <2> QED BY <2>1, InitGood DEF WInv, Listed, NoneWaits, Startable
<1>2. WInv => WorkConserving
  BY DEF WInv, NoneWaits, WorkConserving
<1> QED BY <1>1, <1>2, NextWorks, PTL DEF Spec

(* The cache implements StoredImages: an image shown is the account's,     *)
(* replaces an older one only and stays until it is replaced               *)
(* (stored-image-cache.ts:103, :116).                                      *)
THEOREM Refinement == Spec => Implements
<1>1. Init => Abs!Init
  BY DEF Init, NoDevices, NewDevice, Abs!Init, Abs!NoImage
<1>2. IInv /\ [Next]_vars => [Abs!Next]_Abs!vars
  <2> SUFFICES ASSUME IInv, [Next]_vars PROVE [Abs!Next]_Abs!vars
    OBVIOUS
  <2>0. generation \in Nat
    BY CacheBounds DEF IInv
  <2> DEFINE seqs(c) == [e \in Devices |-> c.devices[e].nextSequence]
             image(r) == IF r = None THEN <<>> ELSE <<r.generation, r.sequence>>
             imgs(c) == [e \in Devices |-> image(c.devices[e].retained)]
  <2>1. ASSUME NEW d \in Devices, Observe(d) PROVE Abs!Announce(d)
    <3> DEFINE n == cache.devices[d].nextSequence + 1
               q == Queued(d, n)
    <3>1. n \in 1 .. MaxUrls
      BY <2>1, CacheBounds DEF IInv, Good, Caches, DeviceStates, Observe
    <3>2. Good(q, generation)
      BY <3>1, QueuedGood
    <3>3. cache' = Pump(q) /\ generation' = generation
      BY <2>1 DEF Observe
    <3>4. \A e \in Devices :
            /\ q.devices[e].nextSequence =
                 IF e = d THEN n ELSE cache.devices[e].nextSequence
            /\ q.devices[e].retained = cache.devices[e].retained
      <4> DEFINE k == Candidate(d, n, generation)
                 s == cache.devices[d]
      <4>1. /\ s \in DeviceStates(generation)
            /\ k \in CandidatesOf(generation)
            /\ k.sequence = n
        BY <2>0, <3>1 DEF IInv, Good, Caches, Candidate, CandidatesOf
      <4>2. /\ Awaiting(s, k).nextSequence = n
            /\ Awaiting(s, k).retained = s.retained
        <5> HIDE DEF s, k, n
        <5> QED BY <3>1, <4>1, QueuedState
      <4>3. q.devices = [cache.devices EXCEPT ![d] = Awaiting(s, k)]
        BY DEF Queued
      <4> HIDE DEF q, k
      <4> QED BY <4>2, <4>3 DEF IInv, Good, Caches
    <3>5. SameView(cache', q)
      <4> HIDE DEF q
      <4> QED BY <2>0, <3>2, <3>3, PumpGood
    <3> HIDE DEF q
    <3>6. seqs(cache') = [seqs(cache) EXCEPT ![d] = @ + 1]
      BY <3>4, <3>5 DEF SameView
    <3>7. imgs(cache') = imgs(cache)
      BY <3>4, <3>5 DEF SameView
    <3> QED BY <3>3, <3>6, <3>7 DEF Abs!Announce
  <2>2. ASSUME NEW c \in cache.downloads, NEW result \in Results,
               Complete(c, result)
        PROVE  Abs!Show(c.deviceKey) \/ UNCHANGED Abs!vars
    <3> DEFINE d == c.deviceKey
               s == cache.devices[d]
               f == Freed(c, Concluded(c, result))
               u == Settled(s, c, result)
    <3>1. cache' = Pump(f) /\ generation' = generation
      BY <2>2 DEF Complete
    <3>2. SameView(cache', f)
      <4>1. Good(f, generation)
        BY FreedGood
      <4> HIDE DEF f
      <4> QED BY <2>0, <3>1, <4>1, PumpGood
    <3>3. /\ c \in CandidatesOf(generation)
          /\ d \in Devices
          /\ s \in DeviceStates(generation)
          /\ Announced(d, s)
          /\ cache.devices \in [Devices -> DeviceStates(generation)]
      BY DEF IInv, Good, Caches, CandidatesOf
    <3>4. f.devices = IF Current(c) THEN [cache.devices EXCEPT ![d] = u]
                                    ELSE cache.devices
      BY DEF Freed, Concluded
    <3>5. /\ u.nextSequence = s.nextSequence
          /\ \/ u.retained = s.retained
             \/ /\ u.retained = c
                /\ s.retained # None => c.sequence > s.retained.sequence
      <4> HIDE DEF s
      <4> QED BY <2>0, <3>3, SettledState
    <3> HIDE DEF f, u
    <3>6. seqs(cache') = seqs(cache)
      BY <3>2, <3>3, <3>4, <3>5 DEF SameView
    <3>7. CASE ~Current(c) \/ u.retained = s.retained
      <4>1. imgs(cache') = imgs(cache)
        BY <3>2, <3>3, <3>4, <3>7 DEF SameView
      <4> QED BY <3>1, <3>6, <4>1 DEF Abs!vars
    <3>8. CASE Current(c) /\ u.retained # s.retained
      <4>1. c # None
        BY <2>0, <3>3, NoneIsNoCandidate
      <4>2. c.generation = generation /\ s.inFlight = c
        BY <3>8 DEF Current
      <4>3. c.sequence <= s.nextSequence /\ c.sequence \in Nat \ {0}
        BY <3>3, <4>1, <4>2 DEF Announced, CandidatesOf
      <4>4. u.retained = c
        BY <3>5, <3>8
      <4>5. imgs(cache') = [imgs(cache) EXCEPT ![d] = <<generation, c.sequence>>]
        <5>1. \A e \in Devices :
                cache'.devices[e].retained =
                  IF e = d THEN c ELSE cache.devices[e].retained
          BY <3>2, <3>3, <3>4, <3>8, <4>4 DEF SameView
        <5>2. image(c) = <<generation, c.sequence>>
          BY <4>1, <4>2
        <5>3. \A e \in Devices :
                imgs(cache')[e] = IF e = d THEN <<generation, c.sequence>>
                                  ELSE imgs(cache)[e]
          <6> HIDE DEF image
          <6> QED BY <5>1, <5>2
        <5> HIDE DEF image
        <5> QED BY <5>3, <3>3
      <4>6. c.sequence \in Abs!Number(imgs(cache)[d]) + 1 .. seqs(cache)[d]
        <5>1. CASE s.retained = None
          BY <3>3, <4>3, <5>1 DEF Abs!Number, Abs!NoImage, DeviceStates
        <5>2. CASE s.retained # None
          <6>1. s.retained \in CandidatesOf(generation)
            BY <3>3, <5>2 DEF DeviceStates
          <6>2. c.sequence > s.retained.sequence
            BY <3>5, <3>8, <5>2
          <6>3. Abs!Number(imgs(cache)[d]) = s.retained.sequence
            BY <3>3, <5>2 DEF Abs!Number, Abs!NoImage
          <6>4. s.nextSequence \in Nat
            BY <3>3, CacheBounds DEF DeviceStates
          <6> QED BY <3>3, <4>3, <6>1, <6>2, <6>3, <6>4 DEF CandidatesOf
        <5> QED BY <5>1, <5>2
      <4> QED BY <3>1, <3>6, <4>5, <4>6 DEF Abs!Show
    <3> QED BY <3>7, <3>8
  <2>3. CASE Clear
    BY <2>3 DEF Clear, NoDevices, NewDevice, Abs!Next, Abs!Forget, Abs!NoImage
  <2>4. CASE UNCHANGED vars
    BY <2>4 DEF vars, Abs!vars
  <2>5. \A c \in cache.downloads : c.deviceKey \in Devices
    BY DEF IInv, Good, Caches, CandidatesOf
  <2> QED
    BY <2>1, <2>2, <2>3, <2>4, <2>5 DEF Next, Downloads, Abs!Next
<1> QED BY <1>1, <1>2, InitGood, NextGood, PTL DEF Spec, Implements, Abs!Spec
=============================================================================
