# eufy-sdk: a TLA+ development

`eufy-sdk` talks to Eufy cameras, doorbells and hubs: over HTTPS to the cloud, over MQTT for realtime
state, over a push channel for notifications, and over a peer-to-peer UDP session per station for
commands, live video and talkback. This directory models the parts of it whose correctness depends on
the *order* in which callbacks, timers and awaited answers happen, checks the models with TLC on small
instances and proves the main invariants with TLAPS for every value of the constants.

All line numbers refer to the commit under `src/`; `PROJECT.json` ("map") gives the lines behind every
definition, and "hazards" lists what the properties are aimed at.

## 1. Inventory

The program is single-threaded TypeScript on an event loop. What interleaves is what runs *between* awaits:
timers, socket events, settled promises and calls of the host application. An action of a model is therefore
everything the code does between two awaits, with the callbacks it invokes synchronously.

| Component (source) | State it keeps | Operations | What makes it hard | What makes it correct |
|---|---|---|---|---|
| **P2P session manager** (`transport/p2p/session-manager.ts`) | one entry per station serial: retain count, hold timers, idle timer, in-flight open, session, deferred reset | `acquire`, `retain`, `release`, `hold`, `resetWhenUnused`, `close`, `closeAll`, `remove`; the idle timer | opens superseded while they await; timers of discarded entries; operations by serial, entries by identity | no session connected behind the manager; a reset waits for viewers and is always settled |
| **Shared live source** (`shared-live-source.ts`) | stream, consumers, five timers, watch state, retained keyframe | `attach`, `detach`, frames, stream end and error, warm-up deadline, `rewarm`, budget, grace, `dispose` | consumers that detach inside notifications; a stream joined while silent; the session replaced while it warms | every wait and every battery pull bounded; `onActive`/`onIdle` paired; nobody left on a dead stream without a word |
| **P2P command router: pulls** (`command-router.ts`) | cached sources and talkback claims by `station:channel`, the session manager | `resolveSession`, `sharedLiveSourceFor`, `openTalkback`, `prewarm`, tear-down, failed starts, replacement of a session nobody hears, sibling release | state read before an await and used after it; keys that outlive what they name | one camera of a HomeBase served at a time; no pull escapes the map that closes it; a viewer is counted |
| **P2P control commands** (`command-router.ts`) | listeners of queries; the session a call resolved | the senders and queries of `dispatchCommand` | a session that closes between two frames of a call | no success reported for what was not sent; no listener left behind |
| **P2P session** (`p2p-session.ts`) | socket, handshake, level-2 key and its waiters, pending starts and audio, sequence numbers | `connect`, `close`, `awaitLevel2Key`, `repromptLevel2Key`, live-start and audio retransmission, `onData` | lost, repeated, reordered datagrams; wrap-around and restarts of the numbering; a key that resolves after a close | frames handed on whole, in order, once; a start repeated until heard; waiters answered |
| **Live stream** (`live-stream.ts`) | listener, keep-alive, stall watch | `start`, `nudge`, `stop`, frames | keep-alive ticks against stalls and sibling starts | a stream that listens has the timer that brings its camera back |
| **Talkback** (`talkback.ts`) | frame queue, pacing cursor, encode chain, withheld writer | `start`, `write`, `end`, `stop`, the pacing tick | late ticks, failing sends, encodes that settle after a stop | never ahead of playback; the writer is released; the end is announced |
| **Facade: realtime** (`client/eufy-mega.ts`) | `realtimeEpoch`, the bring-up in flight, transports per scope, poll timer, push client | `login`, `disconnect`, `setPollInterval`, on-demand MQTT starts | a disconnect between the awaits of a bring-up, and the reverse | channels belong to the current epoch; ready means connected |
| **Facade: device state** (`client/eufy-mega.ts`, `model/device.ts`) | live devices, a queue of transitions per member, what was announced, availability per device | realtime reports, the poll, read-through refreshes, observed writes, `emitSemantic`, `noteState`, availability | reports, polls and refreshes that answer in any order; writes of one member behind each other | writes of a member take turns and end; the host is told last what was reported last |
| **Device registry** (`client/device-registry.ts`) | the device list, the poll's baseline, realtime values, capability caches | `getDevices`, `pollChanges`, `refreshedList`, `applyRealtimeParams`, `capabilitiesForDevice` | several fetches in flight; queries that fail in part | what is derived from the list follows it |
| **HTTP client** (`transport/http/mega-client.ts`) | login session, re-login in flight, hold-off | requests, `recoverRejectedSession`, `reauthenticate`, login | many requests rejected at once; a second client over the store | one re-login serves all; no honoured token is dropped |
| **Secure MQTT and its router** (`transport/mqtt/`, `transport/ff09.ts`) | a connection per command or scope, replies awaited by key time | lock commands, auto-lock read-modify-write, data-point publishes | a reply to somebody else's read; a preset that half goes out | a write restores only what the lock lately had; acknowledged means out whole |
| **Vacuum map store** (`model/vacuum-map-store.ts`, `biz-stream.ts`) | pieces of a map and their revisions | one `put` per kind of piece | pieces late, repeated, of two maps | the pieces held are of one map, each the newest received |
| **Push client** (`transport/push/push-client.ts`) | socket, heartbeat, back-off | `connect`, `close`, reconnect | a close event that arrives after `close()` | closed stays closed; until then it comes back |
| **Tuya transport** (`transport/tuya/`) | a login shared by calls, the binding | `bind`, `ensureLoggedIn`, calls | a login of the previous binding still on its way | one login per binding, two passwords at most |
| **Stored image cache** (`transport/stored-image-cache.ts`) | candidates per device, two download slots, a generation | `observe`, `clear`, `pump`, completion | downloads of a previous account completing late | no image of another account; work starts when it can |
| **Device model** (`model/`) | the tables of members per capability; per device its properties, getters and setters | classification, capability resolution, binding, `applyParams`, writes by name or setter | tables written apart that must agree on a device: id, polarity, scale, route | a getter shows what its parameters came with; a write reaches a router and reads back |
| **Egress** (`fmp4.ts`, `annexb.ts`, `adts.ts`, `video.ts`, `media.ts`) | muxer counters | parsing and muxing | byte-level boundaries | not modelled |

Interactions. The facade owns the routers and the registry; the P2P router owns the session manager and is called
back by it (`onAutoClose`) and by every session (`close`); a shared live source retains and releases its station
through two callbacks (`onActive`, `onIdle`) and asks the router for help through two more (`onStartFailed`,
`onSessionUnreachable`); a talkback rides a consumer of a shared source; every channel ends in `emitSemantic` and
`applyParams`. Stations, cameras and members are named by *serial, key or id*, while the state behind a name is
replaced when a session is closed, a list is fetched or a report arrives. That mismatch is where the interesting
behaviours of this code come from, and the models keep it.

## 2. The models

Conventions used by all of them. A handler is one action, with everything it calls synchronously. *Mutants*
(`Mut...`) are alternative definitions of one operator each, defined next to the original and used by nothing in
the specification: they record, for every property and for some of its conjuncts, a plausible bug of the code that
it detects. A
*history* variable is only written, never read by a guard; the comment of its declaration says so. Time is
abstracted: a pending timer may fire at any moment, except in `Talkback`, where pacing is what matters.

### SessionEntry and SessionManager

`SessionEntry` is the record the manager keeps per station (`interface SessionEntry`) and what each operation does to
one such record: `retained` is the count of that name, `holds` the size of `holdTimers`, `idle` whether the idle timer
is armed, `opening` how far the promise in `connecting` is, `session` the life of the P2P session, `reset` the
deferred promise of `resetWhenUnused`. `SessionManager` keeps the map from serials to entries (`entries`), gives
entries an identity, and adds the callers of `acquire` and the viewers that retain.

| Code | Actions |
|---|---|
| `acquire` and the factory of `openStation` | `AcquireCold`, `AcquireJoin`, `FactoryRefuses`, `FactoryConnects`, `Bound` |
| `retain` / `release` by a live source | `ViewerRetains`, `ViewerLeaves` |
| `hold` and its timer | `Hold`, `HoldExpires` |
| the idle timer | `IdleElapses` |
| `resetWhenUnused`, `close`, `closeAll` | `ResetWhenUnused`, `Close`, `CloseAll` |
| the session's own end and the router's `close` handler | `Connected`, `ConnectTimesOut`, `SocketClosed` |

The point of the model is that the code names stations by serial. `on` and `robbed` are history: which entry a
viewer retained, and which entries had a release taken from them that was earned on an earlier entry. That last
case is reachable (`Close` leaves the riders where they are, and their later release lands on the successor), so
`CountIsReasons` and `AutoCloseSparesViewers` are stated for the entries it did not happen to. Timers act on the entry
that is registered; that a discarded entry has none left to fire is `TimersAreOwned`, proved and not run.

### SharedLiveSource

One source: `state`, `stream`, `delivered` and the five timers are the fields of the class; `users` counts
`onActive` less `onIdle`; `fed` and `told` are history per consumer. A consumer may detach from inside a
notification: the actions that notify take the set `L` of those that do. A listener that throws is not modelled.
The owner answers `onSessionUnreachable` once per request (`owed`), by `rewarm` or with a failure; a second request
while the first is being answered is one request.

### Talkback

Time passes in frame durations (`Elapse`), and the pacing interval may fire up to `MaxLate` of them late. `due` is
`nextDueAt - now`, `chain` the promise chain of the encoder, `held` the withheld callback of `writable()`, which is
the only way the model writes. `lead` is history: frames sent less time elapsed.

### RealtimeBringUp

The facade's epochs. `task[e]`, `result[e]`, `wired[e]` and `push[e]` belong to the bring-up of epoch `e`, and run
on after `disconnect()` has bumped the epoch; `run[s][n]` is the n-th call of `startMqtt` for scope `s`, with the
epoch it captured; `memo` is `mqttReady`, `installed` is `transports`. `teardown[e]` is the tear-down that ended
epoch `e`, which runs through three awaits.

| Code | Actions |
|---|---|
| `login` and `ensureRealtimeGeneration` | `Login` |
| `startRealtimeGeneration` | `Listed`, `ListFails`, `Completes` |
| `ensureMqttStarted`, `subscribeMqttDevices` | `Connects`, `ConnectFails`, `Closed`, `Subscribed` |
| `sendRealtimeInit` through `publishSecure` after a disconnect | `InitFindsNone`, `InitSent` |
| an on-demand publish, `awaitFirstRealtimeState` | `Publish`, `AwaitFirstRealtimeState` (`OnDemand`) |
| `startPush`, `warmWiredP2P` | `PushRegistered`, `PushConnects`, `PushFails`, `WiredSettles` |
| `disconnect`, `closeMqttTransports`, `teardownRealtime` | `Disconnect`, `TransportsClosed`, `StationsClosed` |
| the poll loop, `setPollInterval` | `PollFires`, `PollEnds`, `SetPollInterval` |

The host awaits `disconnect()` before it disconnects again (`Rested`). What it began before runs on: a command that
awaits a preset reaches `publishSecure` at any point of the tear-down, so does a lookup or the login of another part
of the program, and no guard keeps them out. Two history variables name who came in that window: `late[e]` are the
scopes asked for in epoch `e` while `closeMqttTransports` awaits (`Closing`), `hasty` the epochs whose bring-up
completed before `disconnect()` resolved.

### LoginSession

The login session of the cloud client. `held` is the session (`auth_`, `sessionKey`, `pendingCaptchaId`,
`pending2fa`) with the store; `req[p]` is the `postSigned` of a process, with the token it sent (`sentToken`) and
its `SignedRetry`; the processes are the requests of the program, the login the host drives and the re-login of a
recovery (`reauthAttempt`). Tokens are numbered as the cloud issues them; the cloud may stop honouring one at any
moment, answers with an error that says nothing about the token, forgets the session key, or asks for a captcha or
a second factor. Everybody who waits for the re-login is answered in the step that ends it (`Ends`).

| Code | Actions |
|---|---|
| `postSigned`, `ensureSessionKey` | `CallStarts`, `Exchanged`, `ExchangeFails`, `Answered`, `Refused` |
| the identity error | `IdentityError`, `Reexchanged`, `ReexchangeFails` |
| a rejected token, `recoverRejectedSession` | `RejectedTwice`, `RejectedLate`, `RejectedJoins`, `Adopts`, `GivesUp`, `Reauthenticates` |
| `login`, `solveCaptcha`, `submitVerifyCode` | `HostLogsIn` |
| `loginRoundTrip` | `Accepted`, `Bound`, `BindFails`, `NeedsCode`, `CodeSent`, `NeedsCaptcha`, `CaptchaShown`, `CaptchaFails` |
| outside | `HostClears`, `RivalLogsIn` (another client over the store), `Expires` |

A request is one attempt: the two content types it probes are not told apart. The hosts with a key of their own,
the twelve hours a key lasts and `estimateDomain` are left out. Whether the hold-off after a replaced token is over
is a choice.

### StoredImages and StoredImageCache

`StoredImages` is what a reader of stored thumbnails relies on: an image belongs to the account that is signed in,
only a later announcement replaces it, and it stays. `StoredImageCache` is the code: `cache` holds the map of
devices (`order` is its order of insertion, which `pump` searches), the two counters of slots and the downloads
that run; `Observe`, `Complete` and `Clear` are `observe`, `complete` and `clear`, each with the `pump` it ends in.
`Abs` maps `generation` to the account, `nextSequence` to the announcements and `retained` to what is shown. A URL
that was observed before changes nothing, so `Observe` is a new one.

### StationPull

One station of the P2P router, over the entries of `SessionEntry`: `attached` says whether it is a HomeBase or its
own camera, `cache` is `liveSources`, `claim` is `talkbacks`, a source is reduced to what the router reads of it
(`held` is the `HeldSession` cell, `rides` the session its stream was built on). A call is a record with a program
counter; the two background recoveries (`onLiveStartFailed`, `replaceUnreachableSession`) run as callers of their
own. Between acquiring a source and attaching to it a call only gives way to promises that are due already
(`Quiet`). A control command ends where it would acquire, which is `GiveUp`.

| Code | Actions |
|---|---|
| `openStation`, `manager.acquire` | `Begin`, `OpenSettles` |
| `resolveSession` | `Resolve`, `ResolveEnds`, `Reopen`, `GiveUp` |
| `sharedLiveSourceFor` | `AcquireRefused`, `AcquireJoins`, `AcquireBuilds` |
| `openTalkback` | `TalkbackClaims`, `TalkbackRefused`, `AttachThrows` |
| consumers and the pull | `Attach`, `Detach`, `FirstKeyframe`, `PullStops` |
| recoveries | `StartFailsAttached`, `StartFailsOwn`, `DropFinally`, `Unacknowledged`, `ReplacementReady` |
| sessions and timers | `Connects`, `PathGoesSilent`, `SessionFails`, `SocketCloses`, `HoldExpires`, `IdleFires`, `CloseAll` |

### P2PSession and LiveStream

`P2PSession` is one session object: the lookup and connection (`Connect`, `Bound`, `OnConnected`, `Close`), the
one-shot level-2 negotiation with its waiters and its single second ask (`GatewayInfo`, `KeyResolves`,
`AwaitLevel2Key`, `WaitTimesOut`, `RepromptLevel2Key`), the live starts repeated until acknowledged
(`StartLiveMedia`, `StopLiveMedia`, `OnAck`, `SweepStarts`) and the audio frames repeated once (`SendAudioFrame`,
`SweepAudio`, `OnAudioAck`). The wire is a set that a receipt leaves as it is, so datagrams are lost, delayed and
repeated. `heard` is history: the starts the device received. `LiveStream` puts one stream per camera on the
session, with its keep-alive and stall watch, and a station that serves one camera or none (`OwnerChanges`).

### DatagramSequencing

`onData` for one data type. A datagram is named by its place in everything the device ever sent, which the receiver
does not see; `handled` is what was handed on. The device may restart its numbering (`PlainRestart`: far from the
number it replaces; one whose first arrival reads as a repeat, or as the very next number, breaks frames).

### ControlCommands and MqttCommands

`ControlCommands` sorts the commands by what they wait for, at which level they send, how often they repeat and what
they listen for (`Kinds`); sessions close and are replaced between any two frames. `MqttCommands` has the one-shot
connection of a lock command (broker discovery, connect, subscribe, publish, disconnect), the publishes over a
persistent connection, and the auto-lock read-modify-write, where the owner may change the lock in the app at any
time. A key time is a second with a nonce or-ed into it, so that two reads can share one: the model takes the operator
`KeyTime` as a constant, `MCLinks` gives it the bitwise or.

### PushClient, TuyaLogin, VacuumMapStore, Availability

Each is its class: one action per method, socket or timer event. `PushClient` opens the sockets of one client until
`close()`. `TuyaLogin` has the login that concurrent calls share, its second password, and `bind()` while it runs.
`VacuumMapStore` has a robot that revises pieces and switches maps, over frames that are lost, repeated and reordered;
a frame carries a lone piece or a backup with any of its pieces left out, each with its map id or without, which
`apply` takes in the order of `piecesOf`. `Availability` orders messages that carry a time, a number, both or neither.

### DeviceRegistry, DeviceState, EventFanout

`DeviceRegistry` follows one device through overlapping list fetches, of which one is the poll's (`Poll`), with the
poll's baseline (`snapshot`), the realtime values that outrank the cloud's (`reports`) and the capability caches; a
host applies the differences (`mirror`). `DeviceState` is what the facade makes of it: the `Device` a host holds
(`live`), what it was told (`told`), and the queue of transitions of one member, where a write stays until a re-read
shows its effect (`tx`, `tail`, `owner`). `EventFanout` tells one door over three transports: a frame, a push and a
poll; `noted` is `lastStateAnnounced`, cleared first by `disconnect()`, whose channels close one after another
and may still deliver.

### Links

`Links` puts ten of these side by side (`StationPull`, `DatagramSequencing`, `PushClient`, `TuyaLogin`,
`DeviceRegistry`, `ControlCommands`, `Availability`, `EventFanout`, `MqttCommands`, `VacuumMapStore`). They share no
state in the code, so a behaviour is one of one of them: `part` says which, its variables are the slots `s1` to `s11`,
and what it does not need is `Off`. The bounds and the assumptions on them are named here, the properties are stated
here, and `LinksProofs` proves them of `LinksSpec`. `MCLinks` gives the constants their values and adds the device
surface, whose tables no proof reaches.

### Live

`Live` does the same for the parts that must come to an end: `Talkback` with its own variables, `LiveStream` over
`P2PSession`, `DeviceState` and `LoginSession` in the slots `s1` to `s22`. The fairness of a part is asked for in its
own behaviours. `LiveProofs` proves its invariants.

### The device surface

`Members` is the vocabulary of `members.ts` and `access.ts`; `CameraMembers`, `SecurityMembers`, `DeviceMembers` and
`CleanMembers` are the tables of value members, row for row; `DeviceFamilies` is classification, capability
detection and every gate a member names (`Holds`). `DeviceSurface` is what the SDK makes of them on one device: one
member (`focus`) and the parameters that can matter to it, `owner` the property each parameter is stored under
(`specByParam`), `store` the properties, `bcaps` and `ids` what the members were bound with. Properties are resolved
from the record alone and members bound from the record and the reports, at different moments (`PollReports`,
`RealtimeReports`, `RebindReads`); writes go out and come back as a report (`Write`, `WriteStep`, `WriteQuality`).
Values are integers, texts and documents standing for what they decode to.

## 3. What the runs show

Each run is exhaustive within its bounds. Several components share no state with each other; two runs check many of
them at once, each part on its own instance (`part` says which, and the parts' variables share slots), so a behaviour
is one of one part and the state spaces add up instead of multiplying. `links` is `Links` and the device
surface that `MCLinks` adds; `live` is `Live`.

| Run | Instance | What it shows |
|---|---|---|
| `session_manager` | 1 battery station, 2 callers, 2 viewers, 2 entries, counts to 3 | every interleaving of opens, holds, viewers, resets and closes over the succession of two entries |
| `shared_source` | battery camera, 3 consumers, one listening for `stop` only | joins, leaves, frames, failures, replacement and every timer of one source |
| `bringup` | 1 scope with devices that are sent a first command, 1 disconnect, 2 starts, 1 poll | a disconnect at any point of a bring-up, calls that run on during it, and a complete epoch after it |
| `login_session` | 2 requests, 2 tokens, a store shared with another client | rejections, recovery, host login, captcha, second factor and expiry in any order |
| `stored_images` | 3 devices, 2 URLs each, 1 change of account | downloads that end in any order, before and after `clear()`; the refinement |
| `links` | eleven parts, below | safety of the connection, state and device layers |
| `live` | four parts, below | what must come to an end, and the invariants of the same parts |
| `source_false_failure`, `bringup_reconnects`, `login_self_join`, `station_uncounted`, `robot_reads` | small | findings |

Parts of `links`: *station*, one HomeBase of two cameras or one stand-alone camera, two calls, two sessions and two
sources; *datagrams*, sixteen sequence numbers, frames of two parts, 36 datagrams, so that the numbering wraps twice
and restarts; *push*, four sockets; *tuya*, two calls, four logins, two bindings; *registry*, one parameter, the
poll and one other fetcher, three changes; *control*, two calls, two sessions, two sends; *mqtt*, two locks, one
command, two messages on the way, two broker instances; *map*, two kinds of piece, two maps, two revisions, three
frames; *availability*, three messages; *events*, three moves of a door, one new login; *surface*, one device of
each of fifteen kinds, every member of each, one report. Parts of `live`: *talkback*, high-water mark 2, idle window
3, interval up to 2 late; *stream*, two cameras, one caller of the key, two starts of two sends; *state*, two writes
and an event of one member, one disconnect; *login*, one request, two tokens, its own store.

Why these bounds. *Manager*: the hazards are about an entry and the one that replaces it; a third would repeat the
relation of the first two. A count of three is two viewers and a hold. Stations share no state; the proofs cover any
number. *Source*: what an operation does depends on whether nobody, somebody or only the actor is attached.
*Bring-up*: epochs interact only through the shared memo, the installed channels and the poll, and a tear-down only
meets the epoch before it and the one after; the proof has any number. One poll runs at a time, so that two polls of
one epoch overlap is not seen here (nor does `ChannelsAreCurrent` say anything of it). *Login*: two requests are the one that
recovers and one that joins it, or comes late. *Station*: two calls are an owner and one that overtakes it, or a call
and a recovery; two sources are a camera's and its sibling's, or a source and its successor. *Datagrams*: a space of
sixteen with a lookback of eight keeps the ratio of 2^16 and 2^15. *Map*, *availability*, *events*: a late message
needs one before and one after it; of the pieces of a map all name it or none does (the proof has any mix). *Surface*:
members of different rows meet only in the parameters they share, so one member at a time with the owners of its
parameters is enough; fifteen kinds reach every branch of the gates that a row of the tables names.

### Properties

Each line of `links` and `live` joins the invariants of one part; where a conjunct has a plausible bug of its own, a
second mutant stands next to the definition it changes.

*Manager.* `NoOrphanSession`, `CountIsReasons`; `AutoCloseSparesViewers` (a step never detaches a station under a
viewer it still counts); `DiscardedEntryFinishes` (superseded opens close, callers of a reset are answered).
*Source.* `UserIsCounted`, `LiveHasPicture`; `EndIsTold`; `NoSilentHang` (liveness).
*Bring-up.* `NoStrandedTransport`, `ChannelsAreCurrent`; `ReadyIsTrue` (a generation that settles "ready" has its
push socket and transports connected); `BringUpEnds` (it settles, and its push socket is installed or closed). Scopes
asked for while a `disconnect()` awaits its transports are excepted from the first and the third, a push socket
replaced by the next bring-up during the tear-down from the last: the code breaks them there (remarks below).
*Login.* `HonouredTokenKept` (no request drops a token the cloud still honours; three exceptions are named in it: a
failed key re-exchange, whose `clearSession` asks nobody, and a request refused with the very token that is held,
because the token is limited and refused as if it were a session, or because its freshly exchanged key was refused
again); `RetryIsReplaced` (a request is told to retry only while a token is held, and a new one unless the re-login it
joined got the one it sent; what is held once a retry has exchanged a key of its own is not claimed); `CallsEnd`
(liveness; unless the re-login waits for itself, finding 3).
*Stored images.* `WorkConserving`; `Implements` (refinement of `StoredImages`); `PendingSettles` (announcements are
bounded: while two devices that come first in order are announced without end, a third one waits).
*Station.* `OneCameraServed` (open pulls that are watched are of one camera of a HomeBase); `PullsAreReachable` (a
source that streams is the one its key names, and whoever talks holds the claim).
*Session, stream.* `FramesIntact`; `KeysFollowConnection` (a key belongs to a connection that is up, and nobody waits
for a negotiation that is over); `StartedIsHeard` (a channel that counts as started was heard or is being repeated);
`ListeningIsWatched`; `StartsResolve` (liveness).
*Talkback.* `FeedNeverAhead`; `HeldWriterResumes`, `DeclaredEndIsAnswered` (liveness).
*Commands.* `CommandsAreHonest`; `LockTruth` (what an auto-lock write restores the lock still had when it was asked,
give or take the width of the nonce; an acknowledged preset is out whole; no connection is left open).
*State.* `DerivedFollows` (capability caches and a host that applies the poll's differences follow the list);
`WritesInTurn`, `WritesEnd`; `ToldIsLatest` (the host was told last what was reported last);
`NewestIsKept` (of messages with comparable evidence the newest is kept and told).
*Push, Tuya, map.* `PushUpOrClosed`, `LoginIsShared`, `MapIsCoherent` (pieces that name no map may be of any).
*Surface.* `SurfaceReads` (an installed getter shows a value its own parameters came with: no other member's
parameter is stored under its name); `SurfaceWrites` (a command reaches a router that has the device and knows the
command, the write by name is the same command, and what was written reads back).

### Fairness

Pending timers fire, awaited promises settle one way or another, and closed sockets report; weak fairness of the
respective actions says no more than that. A choice between outcomes is one fair action (`WF(FactoryRefuses \/
FactoryConnects)`), so no outcome is assumed. Nothing the host, a viewer, a device or the network does is fair. The
manager's `WF(Bound)` assumes that a live socket finishes binding; one closed while it binds never does, and callers
of that open wait for ever - the model shows the behaviour, but no document promises otherwise. The bring-up assumes
the broker, the push service and the cloud to answer or fail: their clients carry timeouts of their own. So do the
requests of `LoginSession` (20 s, `mega-client.ts:448`) and the downloads of `StoredImageCache` (15 s,
`media-download.ts:118`). `StartsResolve` needs only the retransmission timers (`Sweeps`); `WritesEnd` the progress
of each transition, whose every await carries a deadline.

### Findings

1. **A stream that worked is reported as a failed start** (`source_false_failure`, `shared-live-source.ts:653`).
   A join clears the record of what was delivered; if only delta frames follow and everybody leaves, the linger
   reports a failed start, and the router closes the station's session.
2. **`disconnect()` is undone by the bring-up it superseded** (`bringup_reconnects`, `eufy-mega.ts:1820`). A
   device's first command awaits its context; after a disconnect in between it finds no transport and starts one
   that belongs to the new epoch.
3. **The re-login waits for itself** (`login_self_join`, `mega-client.ts:1014`). A request of the re-login that is
   rejected joins the attempt it is part of; the attempt and everybody waiting for it never answer.
4. **A replaced session does not count its viewer** (`station_uncounted`, `command-router.ts:935`). The viewer was
   retained on the entry that `close()` discarded; the source rewarms on the new session without retaining it, and
   the idle window of the new entry may close it under the stream.
5. **A robot's first report makes getters that read nothing** (`robot_reads`, `eufy-mega.ts:614`). Binding again
   installs the getter, but the property it reads was resolved from the record before the report, so what was
   reported is stored nowhere it looks.

### Remarks met while modelling, without a run of their own

*Media.* "finished" is announced for audio that a stop dropped (`talkback.ts:267-268`, `:333`). A consumer that
listens for `stop` only is told nothing when a stream fails by its deadline or a decoding error
(`shared-live-source.ts:336`); `EndIsTold` is stated for those that listen for both. Where a source another caller
just created is released as lingering (`command-router.ts:787`), that caller's `attach()` throws. A path found silent
is closed (`:1246-1252`) under the cached source and the talkback that ride it, because a close the router makes is
not one it hears of. A live stream never hears of its session's close. A restart of the numbering near the number it
replaces cannot be told from a repeat.

*Session and commands.* A socket closed while it binds leaves `connect()` pending (`p2p-session.ts:641`). Level-1
sends on a closed session succeed in silence; the privacy burst and `set-json` ignore what a send reports. A query is
matched by its command only. `p2pControlQuery` listens on the session it resolved first and sends on the one it
resolved second (`command-router.ts:1037`, `:1059`). Two auto-lock writes of different callers lose one update. Key
times of neighbouring seconds can coincide.

*Calls that run on during `disconnect()`.* A publish, a lookup or a first command that reaches `ensureMqttStarted` while
`closeMqttTransports` awaits another scope (`eufy-mega.ts:2200`) starts a transport of the new epoch; it is installed,
then both maps are cleared and it stays connected in nobody's hands. A bring-up of the new epoch in that window may
share a start that was just told to disconnect, and settles "ready" over it. A bring-up that completes before the
stations are closed puts its push client in the place of the one `teardownRealtime` has yet to close (`:2218`), which
stays open, and has its own closed instead.

*Login and channels.* A key exchanged again and refused again counts as a finished token (`mega-client.ts:631-633`) and
clears the session though the cloud may honour the token. A retry whose key has to be exchanged first reads the token
after it (`:537-540`): cleared meanwhile, the retry is posted with none. A joiner that was rejected with the token the
re-login just obtained retries with the same one. A request refused while a code is outstanding clears the half-finished login
(`mega-client.ts:638`). A failed key re-exchange clears whatever session it finds (`:622`). `setPollInterval` arms a
timer whether or not a poll is running (`eufy-mega.ts:1447`). `SecureMqtt.connect` never settles when the stream
closes before the broker answers. A Tuya login pending across `bind()` installs a client of the previous user
(`tuya/command-router.ts:97-103`). A generation whose device list failed settles "partial" and `login()` does not try
again in the same epoch.

*State.* A removal that a fetch other than the poll's absorbs is not announced (`device-registry.ts:381-387`,
`:326`). A write settles on the list's value only (`eufy-mega.ts:716`), where the comment says that a value the device
volunteered settles it. A report outranks the cloud for as long as the cloud moves and moves back between two polls.
A poll is never edge-triggered, so a frame, a push and a poll may announce one change twice. A piece of the map
repeated at its revision counts as new (`vacuum-map-store.ts:171-178`). Availability evidence of different kinds does
not order transitively; `NewestIsKept` is stated for evidence that does. What was announced is forgotten at the start
of `disconnect()` (`eufy-mega.ts:2215`), and channels that close later may still write it.

*Device tables.* `enabled` is read inverted at 1035 and written with the other polarity on some types; it holds
because those types report 2001. The dictionary's name shadows a member on indoor pan-tilt cameras (1011, 1298), and
`charging` on keypads (1102). A vacuum that reports after it was opened is not granted `vacuum_dock`. Hints of
capabilities match the name a user gave a device.

## 4. What is proved

TLAPS proves the following of `Spec` for every value of the constants, under the named assumptions of the modules
(`StationsAssumption`, `ViewersAssumption`, `BoundsAssumption`; `ConsumersAssumption`, `BatteryAssumption`;
`ScopesAssumption`, `BringUpBounds`; `LoginConstants`; `CacheBounds`; of `Links`, `BoundsAssumption`,
`PollAssumption`, `DatagramAssumption`, `OwnAssumption`, `OffAssumption`, `LockAssumption`, `MapAssumption`; of
`Live`, `TalkbackBounds`, `SendsAssumption`, `WritesAssumption`). `DatagramAssumption` says what the constants of
`onData` say: the lookback is half the numbering, and a repeat is nearer than that; `OwnAssumption` that a station has
the channel of its own camera; `OffAssumption` and `MapAssumption` that a placeholder is no value; `LockAssumption`
that there is a lock, and that a nonce takes a key time no further from its second than it is wide, which the bitwise
or does; `WritesAssumption` that the observed writes are finitely many, none of them a re-read, and that the
placeholder is none of them. No fairness is used.

* `SessionManagerProofs`: `TypeOK`, `TimersAreOwned`, `DeferredResetHasViewer`, `NoOrphanSession`. None is
  inductive alone: that no session is orphaned depends on how far the open of a discarded entry is, and all of
  them on a serial naming one entry. The inductive invariant is `ManagerOK /\ UsersOK`: `Wiring` (serials name
  distinct, issued entries; entries not issued are fresh) and `Sound` (what holds of one entry, in one form while
  it is named and in another once it is not). Every operation changes one entry and whether it is named, so the
  proof has a lemma per operator of `SessionEntry` (`RetainedSound`, `ReleasedSound`, `ClosedSound`, ...), three
  lemmas that lift a change of one entry to the manager (`KeepStep`, `UnnamedStep`, `GiveUpStep`) and one case per
  action.
* `SessionManagerProofs` also proves `CountIsReasons` and the action property `AutoCloseSparesViewers`. `CountInv`
  adds to the above that a viewer has retained an entry only while it is at a station, and that an entry in use is of
  the station its viewers are at (`Tied`): `release()` names a serial, so the count can only be right as long as a
  serial and the entry a viewer retained mean the same. Entries that took a release earned on another one are
  excepted (`robbed`), in the run as here. `CountGivenUp` is the case in which an entry goes and others stay.
* `SharedLiveSourceProofs`: `TypeOK`, `WarmupIsBounded`, `BatteryIsBounded`, `UserIsCounted`, `TimersHaveStream`,
  `LiveHasPicture` and the action property `EndIsTold`. The inductive invariant is `TypeOK /\ Coherent /\ Safe`;
  `Coherent` relates the watch, the retained keyframe, the state and the timers.
* `RealtimeBringUpProofs`: `TypeOK` and `ChannelsAreCurrent` for any constants, the second inductive with the types;
  `NoStrandedTransport` and the action property `ReadyIsTrue` likewise of every behaviour, whatever runs on during a
  tear-down and however often the host disconnects. The inductive invariant is `TransportsOK`, which speaks of the
  scopes nobody asked for in the window of their epoch (`Clean`): until the transports are gone no start of the current
  epoch is theirs (`Quiet`), afterwards a start of the current epoch is the one its scope memoises until it fails and
  is installed once it got through (`CurrentOK`), links, memos and installed transports belong to the current epoch
  (`LinkOK`, `MemoOK`), and a bring-up awaits starts of its own epoch (`AwaitsOK`). Scopes do not touch each other's
  starts, so one that was asked for too early leaves the others clean. Unlike that of `ChannelsAreCurrent`, the proof of
  these two does not use that the host awaits `disconnect()` before the next one.
* `LoginSessionProofs`: `TypeOK` and the action properties `HonouredTokenKept` and `RetryIsReplaced`. The inductive
  invariant adds to the types that tokens in use were issued (`IssuedOK`), that requests are where their login says
  (`FlowOK`), and `JoinersRejected`: whoever waits for the re-login was rejected with a token that does not serve it and
  never will again, or under a key it had exchanged again. The last is why only those can clear the session when the
  re-login fails: a joiner clears it where what it sent is what is held.
* `StoredImageCacheProofs`: `TypeOK`, `SlotsMatch`, `NotObservedIsTrue`, `WorkConserving` and the refinement
  `Implements`. `Good` says of any cache record that slots match downloads, that what is queued or in flight was
  announced for its device, and that a known device has work, an image or a reason; a turn of `pump` preserves it and
  changes nothing a reader sees (`PumpGood`), so each action is a lemma about the record before its `pump`.
  `WorkConserving` holds because whoever has something queued is `Listed` in the order that `pump` runs through:
  of the listed devices that can start there is a first one (`SomeIsFirst`, from `Least`: strict inclusion of finite
  sets is well-founded), so a turn that starts nobody proves that nobody waits, and after two turns that each started
  somebody both slots are taken (`PumpWorks`).
* `StationPullProofs` has the lemmas of the station, `LinksProofs` states their results of `LinksSpec`:
  `OneCameraServed` and `PullsAreReachable` (no orphaned pull, no unreachable talkback), for any channels, calls,
  sessions and sources. The inductive invariant is `PullInv`. A source that is not disposed is the one its key names
  (`KeysNameSources`), hence whoever acquires another camera of the HomeBase finds it, and drops it or is refused
  (`OneChannel`); a call that acquired a source attaches to it before anything but other calls can run (`Quiet`), so
  what it has in hand is still what it found, or disposed, and then `attach()` throws (`HandsOnSources`); a
  talking call holds the claim of its channel (`TalkbackIsReachable`).
* `LinksProofs` also proves, each with the invariant of its part:
  `PushUpOrClosed`, inductive with the types (`PushInv`);
  `LoginIsShared`, where of the present binding only the login that the router holds is not over (`HeldIsCurrent`);
  `DerivedFollows`, where a poll whose list came out partial and without the device is remembered as a gap
  (`GapIsNoted`);
  `CommandsAreHonest`, where what each call has sent, heard and listens for follows from where it is (`Sound`), and
  the steps of one call leave the others sound;
  `NewestIsKept`, inductive with the types (`AvInv`);
  `ToldIsLatest` (`EventsInv`: what is noted, what was told and what was reported last are one);
  and `FramesIntact` (`FramesInv`): the receiver's number is that of the newest arrival and the parts it holds are the
  run that ends there (`FramesHeld`); the device is never a whole numbering ahead of it, less the depth of a repeat
  (`NumbersAgree`), so comparing numbers modulo the numbering is comparing places (`StaleIsOld`). It is proved
  under the condition `PlainRestart`, which the run has too: when the first datagram after a restart has a number no
  further back than a repeat may be, or the very next one, no receiver can tell that the numbering is a new one;
  `LockTruth` (`MqInv`): what a reply on the way says, and what a command took from one, the lock still had when it
  was asked, less the width of the nonce (`AirIsRecent`, `Recent`), and a value it had lately is never had less lately
  for what happens after (`HeldLater`), so a reply that comes late, again or under a key time of somebody else's is
  as good as the command's own; where a command is says which connection it holds and when it was acknowledged
  (`Fits`);
  `MapIsCoherent` (`MapInv`): what was seen of a kind is the revision of the piece held and of the newest received
  (`StoreOK`), which every piece taken keeps (`PutKeeps`) and so the five of a backup, in whatever order and of
  whichever map.

* `LiveProofs` proves of `LiveSpec`, again with an invariant per part:
  `FeedNeverAhead` (`TalkInv`): what was sent ahead is at most what `nextDueAt` is ahead of now, less one frame; that
  the queue stays within the bound of the type needs `RoomToWrite`, that a writer which is not withheld leaves room
  for everything the chain may still yield, since `writable()` looks at the queue only and jobs under way come on top;
  `KeysFollowConnection`, `StartedIsHeard` and `ListeningIsWatched` (`StreamInv`): a start on the wire has a number
  below the next one, and while a start of that number is retained it is that channel's (`StartsOK`), so an
  acknowledgement takes a start off the retained ones only for the channel that was heard; a resolution that is
  awaited is of a connection that was made (`ConnectionOK`), so one that finds the session open finds it connected;
  and `WritesInTurn` (`StateInv`): the transactions that are not over and were queued since the last `disconnect()`
  have an order in which each but the first waits for the one before it and `tail` is the last (`InTurn`). The code
  keeps no such list, only who was newest when each was queued; the proof carries it as a witness. Only the first may
  run (`FirstRuns`), and a write that ends is taken off the owner of its own epoch (`Ends`).

`TimersAreOwned`, `DeferredResetHasViewer`, `WarmupIsBounded`, `BatteryIsBounded`, `TimersHaveStream`, `SlotsMatch`
and `NotObservedIsTrue` are proved and no longer run.

Only model-checked: all liveness properties, which are out of this prover's reach under fairness, and `SurfaceReads`
and `SurfaceWrites` (they speak of tables of hundreds of rows, and proof would be evaluation).

## 5. Plan

The frames a recording or a snapshot reads over a shared source; the event pages of person detection.

## 6. What is not modelled

Byte-level formats (muxing, parsing, protobuf, encryption), decoders per device line, HTTP request signing and the
content of cloud lists: sequential code with unit tests. The pre-buffer ring and the queues per consumer of a shared
source (data only). The actions of capabilities that are functions of their own (calendars, presets, scenes,
snapshots), and the names of the parameter dictionary beyond those a member reads. LAN discovery and candidate
addresses. The endpoints of the cloud client beyond the login session. `register()` of the session manager, which
the code names a seam for tests.

Within the modules: a host awaits `disconnect()` before it disconnects again, and a bring-up is asked for by a login
that succeeded; two logins at once are not explored. One poll runs at a time in `DeviceRegistry`; `pollChanges`
reads its baseline before it awaits the list (`device-registry.ts:360`), and polls that overlap
(`eufy-mega.ts:1447`) would compare with a baseline that is no longer the last. Listeners of the host do not throw.
`PROJECT.json` ("components") says per component what its modules leave out, and "hazards" which hazard no property
covers: a report that outranks a cloud value which moved and moved back between two polls.
