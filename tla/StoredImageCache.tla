-------------------------- MODULE StoredImageCache --------------------------
(***************************************************************************)
(* The store of push thumbnails (transport/stored-image-cache.ts): URLs    *)
(* observed per device, at most two downloads at a time and one per        *)
(* device, the newest URL waiting, and the image a reader gets.            *)
(*                                                                         *)
(* An image is known by the candidate it was downloaded for.  Downloads    *)
(* take any time and end in any order; the host clears the store when the  *)
(* account changes, downloads running or not.  Diagnostics are left out.   *)
(***************************************************************************)
EXTENDS Integers, Sequences, FiniteSets

CONSTANTS
  Devices,
  MaxUrls,     \* bound: URLs a device is observed with between two clears
  MaxClears,   \* bound: changes of account
  None         \* undefined: no candidate, no image

AnyCandidate == [deviceKey : Devices, sequence : Nat, generation : Nat]

ASSUME CacheBounds == {MaxUrls, MaxClears} \subseteq Nat /\ None \notin AnyCandidate

VARIABLES
  cache,       \* devices in order of insertion, their states, the slots
  generation   \* how often the store was cleared

vars == <<cache, generation>>

Candidate(d, n, g) == [deviceKey |-> d, sequence |-> n, generation |-> g]

NewDevice ==
  [nextSequence |-> 0, queued |-> None, inFlight |-> None,
   retained |-> None, reason |-> "not-observed"]

NoDevices == [d \in Devices |-> NewDevice]

\* downloads holds the promises of the downloader that are pending.
Init ==
  /\ cache = [order |-> <<>>, devices |-> NoDevices, activeDevices |-> {},
              activeDownloads |-> 0, downloads |-> {}]
  /\ generation = 0

-----------------------------------------------------------------------------
(* pump(): start what is first in order while a slot is free.              *)

Startable(c, d) == c.devices[d].queued # None /\ d \notin c.activeDevices

IsFirst(c, i) ==
  /\ Startable(c, c.order[i])
  /\ \A j \in 1 .. i - 1 : ~Startable(c, c.order[j])

Started(c, d) ==
  LET candidate == c.devices[d].queued
  IN [order           |-> c.order,
      devices         |-> [c.devices EXCEPT ![d] =
                            [@ EXCEPT !.queued = None, !.inFlight = candidate]],
      activeDevices   |-> c.activeDevices \cup {d},
      activeDownloads |-> c.activeDownloads + 1,
      downloads       |-> c.downloads \cup {candidate}]

MaxDownloads == 2

PumpOnce(c) ==
  IF c.activeDownloads < MaxDownloads /\ \E i \in DOMAIN c.order : IsFirst(c, i)
  THEN Started(c, c.order[CHOOSE i \in DOMAIN c.order : IsFirst(c, i)])
  ELSE c

\* The loop ends after as many turns as there are slots.
Pump(c) == PumpOnce(PumpOnce(c))

-----------------------------------------------------------------------------
Known(d) == \E i \in DOMAIN cache.order : cache.order[i] = d

Awaiting(s, c) == [s EXCEPT !.nextSequence = c.sequence, !.queued = c]

Queued(d, n) ==
  [order           |-> IF Known(d) THEN cache.order ELSE Append(cache.order, d),
   devices         |-> [cache.devices EXCEPT ![d] =
                          Awaiting(@, Candidate(d, n, generation))],
   activeDevices   |-> cache.activeDevices,
   activeDownloads |-> cache.activeDownloads,
   downloads       |-> cache.downloads]

\* A URL that was seen before is ignored, so a step is a new one; it replaces
\* what is queued.
Observe(d) ==
  LET n == cache.devices[d].nextSequence + 1
  IN /\ n <= MaxUrls
     /\ cache' = Pump(Queued(d, n))
     /\ UNCHANGED generation

\* What a completed download does to the state of its device.
Settled(s, c, result) ==
  LET t == [s EXCEPT !.inFlight = None]
  IN IF result # "image" THEN [t EXCEPT !.reason = result]
     ELSE IF s.retained = None \/ c.sequence > s.retained.sequence
     THEN [t EXCEPT !.retained = c, !.reason = "not-observed"]
     ELSE t

MutCurrent(c) == Known(c.deviceKey)

\* The download was started for the account and the device it ends in.
Current(c) ==
  c.generation = generation /\ cache.devices[c.deviceKey].inFlight = c

MutFreed(c, devices) ==
  IF c.generation = generation
  THEN [cache EXCEPT !.devices         = devices,
                     !.activeDownloads = @ - 1,
                     !.activeDevices   = @ \ {c.deviceKey},
                     !.downloads       = @ \ {c}]
  ELSE [cache EXCEPT !.downloads = @ \ {c}]

Freed(c, devices) ==
  [order           |-> cache.order,
   devices         |-> devices,
   activeDevices   |-> cache.activeDevices \ {c.deviceKey},
   activeDownloads |-> cache.activeDownloads - 1,
   downloads       |-> cache.downloads \ {c}]

Results == {"image", "download-failed", "invalid-image", "lifecycle"}

\* The devices after a download ended; one that is not current is dropped.
Concluded(c, result) ==
  IF Current(c)
  THEN [cache.devices EXCEPT ![c.deviceKey] = Settled(@, c, result)]
  ELSE cache.devices

MutComplete(c, result) ==
  /\ c \in cache.downloads
  /\ cache' = IF Current(c) THEN Pump(Freed(c, Concluded(c, result)))
                            ELSE Freed(c, cache.devices)
  /\ UNCHANGED generation

Complete(c, result) ==
  /\ c \in cache.downloads
  /\ \E freed \in {Freed(c, Concluded(c, result))} : cache' = Pump(freed)
  /\ UNCHANGED generation

\* clear() leaves the downloads running, and their slots taken.
Clear ==
  /\ generation < MaxClears
  /\ generation' = generation + 1
  /\ cache' = [order           |-> <<>>,
               devices         |-> NoDevices,
               activeDevices   |-> cache.activeDevices,
               activeDownloads |-> cache.activeDownloads,
               downloads       |-> cache.downloads]

Downloads == \E c \in cache.downloads, result \in Results : Complete(c, result)

Next ==
  \/ \E d \in Devices : Observe(d)
  \/ Downloads
  \/ Clear

Spec == Init /\ [][Next]_vars

\* A download ends: its request is aborted after 15 seconds.
FairSpec ==
  /\ Spec
  /\ \A d \in Devices :
       WF_vars(\E c \in cache.downloads, result \in Results :
                 c.deviceKey = d /\ Complete(c, result))

-----------------------------------------------------------------------------
(* What a reader gets: snapshotStored.                                     *)

Reason(d) ==
  LET s == cache.devices[d]
  IN IF s.queued # None \/ s.inFlight # None THEN "pending" ELSE s.reason

\* A session that expired outranks the image, unless a download is pending.
Rejects(d) == Reason(d) = "lifecycle" \/ cache.devices[d].retained = None

-----------------------------------------------------------------------------
(* Properties.                                                             *)

Candidates ==
  [deviceKey : Devices, sequence : Nat \ {0}, generation : 0 .. generation]

\* The cache is well-typed; no slot count goes below zero or over two.
TypeOK ==
  /\ generation \in 0 .. MaxClears
  /\ cache \in [order : Seq(Devices),
                devices : [Devices ->
                  [nextSequence : 0 .. MaxUrls,
                   queued : Candidates \cup {None},
                   inFlight : Candidates \cup {None},
                   retained : Candidates \cup {None},
                   reason : (Results \ {"image"}) \cup {"not-observed"}]],
                activeDevices : SUBSET Devices,
                activeDownloads : 0 .. MaxDownloads,
                downloads : SUBSET Candidates]

\* At most two downloads run and one per device, those of an account that is
\* gone included: activeDevices (stored-image-cache.ts:84) and the count of
\* slots (:82) say so of the downloads that really run, through clear().
SlotsMatch ==
  /\ cache.activeDownloads = Cardinality(cache.downloads)
  /\ cache.activeDevices = {c.deviceKey : c \in cache.downloads}
  /\ \A c1, c2 \in cache.downloads : c1.deviceKey = c2.deviceKey => c1 = c2

\* No device waits while a slot is free for it: every way a slot or a
\* candidate comes about, pump() (stored-image-cache.ts:63, :122) follows.
WorkConserving ==
  cache.activeDownloads < MaxDownloads =>
    \A d \in Devices : ~Startable(cache, d)

\* A reader is told "not-observed" only of a device no image was announced
\* for since the last clear() (docs/live-media.md:251), whatever became of the
\* downloads in between.
NotObservedIsTrue ==
  \A d \in Devices : Rejects(d) /\ Reason(d) = "not-observed" => ~Known(d)

\* The cache implements what a reader relies on: images are those of the
\* account, never go back to an older one and never disappear, however
\* downloads end (stored-image-cache.ts:103, :116).
Abs == INSTANCE StoredImages WITH
  account   <- generation,
  announced <- [d \in Devices |-> cache.devices[d].nextSequence],
  shown     <- [d \in Devices |->
                 LET r == cache.devices[d].retained
                 IN IF r = None THEN <<>> ELSE <<r.generation, r.sequence>>]

Implements == Abs!Spec

\* A device that is pending settles: its candidate gets a slot, those still
\* held by downloads of the previous account included, and an outcome.
PendingSettles == \A d \in Devices : Reason(d) = "pending" ~> Reason(d) # "pending"
=============================================================================
