----------------------------- MODULE DeviceState -----------------------------
(***************************************************************************)
(* What the facade (src/src/client/eufy-mega.ts) makes of one device: the  *)
(* Device handed to a host (src/src/model/device.ts) and the announcements *)
(* about it, kept current by realtime reports, the poll and read-through   *)
(* refreshes, and the writes whose effect is observed before the next      *)
(* write of the same member may start.                                     *)
(***************************************************************************)
EXTENDS Integers, FiniteSets

CONSTANTS
  Params,     \* param ids of the device
  Values,     \* their values
  Absent,     \* no Device, no report, no transaction
  Writes,     \* writes of the observed member
  Events,     \* valueless transition events that ask for a re-read
  Observed,   \* the param the observed member reads
  MaxEpochs   \* bound: disconnect() calls

VARIABLES
  list,       \* the registry's cached cloud record of the device
  base,       \* the record of the last poll pass
  reports,    \* dpParams: what the device reported, apart from the list
  live,       \* the Device's state: [Params -> Values], or Absent before getDevice
  told,       \* the value the host last learned of each id
  refresh,    \* the record a read-through refresh will land, or Absent
  tx,         \* [Writes \cup Events -> transaction]
  tail,       \* stateTransitions: the newest unfinished transaction, or Absent
  owner,      \* commandRefreshes: [epoch, count], or Absent
  epoch       \* realtimeEpoch

values   == <<list, base, reports, live, told, refresh>>
vars     == <<values, tx, tail, owner, epoch>>

Records  == [Params -> Values]
NoReport == [p \in Params |-> Absent]
Txs      == Writes \cup Events
Idle     == [pc |-> "idle", epoch |-> 0, after |-> Absent, want |-> Absent]

Init ==
  /\ list \in Records /\ base = list /\ reports = NoReport
  /\ live = Absent /\ told = Absent /\ refresh = Absent
  /\ tx = [t \in Txs |-> Idle] /\ tail = Absent /\ owner = Absent /\ epoch = 0

-----------------------------------------------------------------------------
(* Inbound paths.                                                          *)

\* record() joined with its report: the report outranks the cloud half.
Joined(rec) == [p \in Params |-> IF reports[p] # Absent THEN reports[p] ELSE rec[p]]

\* applyAndAnnounce: the ids are applied to the Device and each one that
\* moved is announced with the value the Device now reads.
ApplyAndAnnounce(ids, rec) ==
  IF live = Absent THEN UNCHANGED <<live, told>>
  ELSE /\ live' = [p \in Params |-> IF p \in ids THEN rec[p] ELSE live[p]]
       /\ told' = [p \in Params |-> IF live'[p] # live[p] THEN live'[p] ELSE told[p]]

\* Any caller's fetch replaces the list, with a newer or an older record.
ListLands ==
  /\ list' \in Records \ {list}
  /\ UNCHANGED <<base, reports, live, told, refresh, tx, tail, owner, epoch>>

\* getDevice: the list's params, overlaid by the per-device list where the
\* account is entitled to it and the call succeeds, under the reports.
GetDevice ==
  /\ live = Absent
  /\ \E rec \in Records : live' = Joined(rec) /\ told' = live'
  /\ UNCHANGED <<list, base, reports, refresh, tx, tail, owner, epoch>>

\* A read of a stale value starts one refresh; what it lands is as old as
\* its answer, under the reports as they are when it lands.
ScheduleRefresh ==
  /\ live # Absent /\ refresh = Absent
  /\ refresh' \in Records
  /\ UNCHANGED <<list, base, reports, live, told, tx, tail, owner, epoch>>

RefreshLands ==
  /\ refresh # Absent
  /\ ApplyAndAnnounce(Params, Joined(refresh))
  /\ refresh' = Absent
  /\ UNCHANGED <<list, base, reports, tx, tail, owner, epoch>>

\* applyRealtimeState: a frame or an MQTT report of one id, into the
\* registry's reports and the Device, never into the list.
ApplyRealtimeState(p, v) ==
  /\ reports' = [reports EXCEPT ![p] = v]
  /\ ApplyAndAnnounce({p}, [q \in {p} |-> v])
  /\ UNCHANGED <<list, base, refresh, tx, tail, owner, epoch>>

\* pollOnce: the ids that moved since the last pass are retired from the
\* reports and applied to the Device; the rest of the record is not.
PollOnce ==
  \E rec \in Records :
    LET moved == {p \in Params : base[p] # rec[p]} IN
    /\ list' = rec /\ base' = rec
    /\ reports' = [p \in Params |-> IF p \in moved THEN Absent ELSE reports[p]]
    /\ ApplyAndAnnounce(moved, rec)
    /\ UNCHANGED <<refresh, tx, tail, owner, epoch>>

-----------------------------------------------------------------------------
(* Observed writes and re-reads, one transaction at a time per member.     *)

MutEnded(t) == tx[t].pc = "idle"
Ended(t)    == tx[t].pc \in {"idle", "done"}

\* enqueueStateTransition: behind the transaction that is in the map now.
MutPredecessor == Absent
Predecessor    == tail

\* release(): only from the owner this write was counted in.
MutReleased(w) == owner
Released(w) == IF owner # Absent /\ owner.epoch = tx[w].epoch
               THEN IF owner.count = 1 THEN Absent ELSE [owner EXCEPT !.count = @ - 1]
               ELSE owner

End(t) ==
  /\ tx' = [tx EXCEPT ![t] = [Idle EXCEPT !.pc = "done"]]
  /\ tail' = IF tail = t THEN Absent ELSE tail
  /\ owner' = IF t \in Writes THEN Released(t) ELSE owner

Dispatch(w, v) ==
  /\ tx[w].pc = "idle"
  /\ owner' = IF owner # Absent /\ owner.epoch = epoch THEN [owner EXCEPT !.count = @ + 1]
              ELSE [epoch |-> epoch, count |-> 1]
  /\ tx' = [tx EXCEPT ![w] = [pc |-> "queued", epoch |-> epoch, after |-> Predecessor,
                              want |-> v]]
  /\ tail' = w
  /\ UNCHANGED <<values, epoch>>

\* emitSemantic with a refresh: dropped while a write of the member is open,
\* emitted at once when no Device is held, else the re-read goes first.
Suppressed == owner # Absent /\ owner.epoch = epoch

EmitSemantic(e) ==
  /\ tx[e].pc = "idle" /\ ~Suppressed /\ live # Absent
  /\ tx' = [tx EXCEPT ![e] = [pc |-> "queued", epoch |-> epoch, after |-> Predecessor,
                              want |-> Absent]]
  /\ tail' = e
  /\ UNCHANGED <<values, owner, epoch>>

\* The predecessor is gone: a write is routed, unless disconnect() came in
\* between; a re-read notes what the Device reads and starts.
Begin(t) ==
  /\ tx[t].pc = "queued"
  /\ tx[t].after # Absent => Ended(tx[t].after)
  /\ IF t \in Events
     THEN /\ tx' = [tx EXCEPT ![t] = [@ EXCEPT !.pc = "refreshing", !.epoch = epoch, !.after = Absent,
                      !.want = IF live = Absent THEN Absent ELSE live[Observed]]]
          /\ UNCHANGED <<tail, owner>>
     ELSE IF tx[t].epoch = epoch
     THEN tx' = [tx EXCEPT ![t].pc = "routing", ![t].after = Absent] /\ UNCHANGED <<tail, owner>>
     ELSE End(t)
  /\ UNCHANGED <<values, epoch>>

Routed(w) ==
  /\ w \in Writes /\ tx[w].pc = "routing"
  /\ tx' = [tx EXCEPT ![w].pc = "refreshing"]
  /\ UNCHANGED <<values, tail, owner, epoch>>

RouteFails(w) ==
  /\ w \in Writes /\ tx[w].pc = "routing"
  /\ End(w)
  /\ UNCHANGED <<values, epoch>>

\* settled(): the list's value is the wanted one, or for a re-read another
\* than before.  It is the LIST's value: what the device reported is not read.
Converged(t) ==
  IF t \in Writes THEN list[Observed] = tx[t].want ELSE list[Observed] # tx[t].want

\* The whole list record is applied and nothing of it announced; the
\* member's own transition event follows.  A write may then wait, for a
\* bounded time, for the session to be recycled.
Settles(t) ==
  /\ tx[t].pc = "refreshing" /\ tx[t].epoch = epoch /\ Converged(t)
  /\ IF live = Absent THEN UNCHANGED <<live, told>>
     ELSE live' = list /\ told' = [told EXCEPT ![Observed] = list[Observed]]
  /\ \/ t \in Writes /\ tx' = [tx EXCEPT ![t].pc = "recycling"] /\ UNCHANGED <<tail, owner>>
     \/ End(t)
  /\ UNCHANGED <<list, base, reports, refresh, epoch>>

Recycled(w) ==
  /\ tx[w].pc = "recycling"
  /\ End(w)
  /\ UNCHANGED <<values, epoch>>

\* The deadline (commandUnconfirmed), a device gone from the list, or a loop
\* turn after a disconnect().
GivesUp(t) ==
  /\ tx[t].pc = "refreshing"
  /\ End(t)
  /\ UNCHANGED <<values, epoch>>

Disconnect ==
  /\ epoch < MaxEpochs
  /\ epoch' = epoch + 1 /\ tail' = Absent /\ owner' = Absent
  /\ UNCHANGED <<values, tx>>

-----------------------------------------------------------------------------
Progress(t) == Begin(t) \/ Routed(t) \/ RouteFails(t) \/ Settles(t) \/ Recycled(t) \/ GivesUp(t)

Next ==
  \/ ListLands \/ GetDevice \/ ScheduleRefresh \/ RefreshLands \/ PollOnce \/ Disconnect
  \/ \E p \in Params, v \in Values : ApplyRealtimeState(p, v)
  \/ \E w \in Writes, v \in Values : Dispatch(w, v)
  \/ \E e \in Events : EmitSemantic(e)
  \/ \E t \in Txs : Progress(t)

\* Routing, the convergence deadline and the bounded recycle all end.
Spec == Init /\ [][Next]_vars /\ \A t \in Txs : WF_vars(Progress(t))

-----------------------------------------------------------------------------
\* The type of the facade's state.
TypeOK ==
  /\ list \in Records /\ base \in Records /\ reports \in [Params -> Values \cup {Absent}]
  /\ live \in Records \cup {Absent} /\ told \in Records \cup {Absent}
  /\ refresh \in Records \cup {Absent} /\ tail \in Txs \cup {Absent}
  /\ owner = Absent \/ owner \in [epoch : 0 .. MaxEpochs, count : 1 .. Cardinality(Writes)]

Open == {w \in Writes : ~Ended(w) /\ tx[w].epoch = epoch}

\* Transition events of the member are held back exactly as long as a write
\* of this connection is open: no path out of a write leaves it counted.
OwnerIsOpenWrite == Cardinality(Open) = IF owner # Absent /\ owner.epoch = epoch THEN owner.count ELSE 0

\* Two writes of one member never overlap on one connection: the second is
\* routed when the first has converged, failed or been given up.
OneWriteAtATime == \A v, w \in Open : tx[v].pc # "queued" /\ tx[w].pc # "queued" => v = w

\* Every observed write comes to an end, also across disconnect().
WritesEnd == \A w \in Writes : tx[w].pc = "queued" ~> tx[w].pc = "done"
=============================================================================
