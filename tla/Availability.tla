---------------------------- MODULE Availability -----------------------------
(***************************************************************************)
(* The availability a light reports over MQTT                              *)
(* (processAvailabilityMessage and applyAvailabilityObservation of         *)
(* src/client/eufy-mega.ts, parseStateInfoSignal of                        *)
(* src/transport/mqtt/availability.ts).  The broker may repeat a message   *)
(* and deliver it after a later one; a message carries a time in seconds,  *)
(* a sequence number, both or neither, and the numbers of a device start   *)
(* again when it does.                                                     *)
(***************************************************************************)
EXTENDS Integers, Sequences

CONSTANTS
  Missing,    \* a part of the evidence the message does not carry
  MaxSent     \* bound: messages the device sends

VARIABLES
  timed,      \* whether the device's messages carry the time
  counted,    \* whether they carry the number
  sent,       \* the messages, in the order the device sent them: [status, at, sequence]
  heard,      \* those the client has received, at least once
  kept,       \* availabilityObservations: which of them it retains, 0 before the first
  told        \* the last availability event, Missing before the first

vars == <<timed, counted, sent, heard, kept, told>>

Init ==
  /\ timed \in BOOLEAN /\ counted \in BOOLEAN
  /\ sent = <<>> /\ heard = {} /\ kept = 0 /\ told = Missing

\* The device's clock and counter behind the next message: the same second or
\* a later one, the next number, the same one, or 1 after a restart.
LastAt == IF sent = <<>> THEN 0 ELSE sent[Len(sent)].clock
LastNo == IF sent = <<>> THEN 0 ELSE sent[Len(sent)].count
Sends ==
  /\ Len(sent) < MaxSent
  /\ \E up \in BOOLEAN, t \in {LastAt, LastAt + 1}, n \in {1, LastNo, LastNo + 1} :
       /\ n > LastNo \/ (n = LastNo /\ t = LastAt /\ n > 0) \/ (n = 1 /\ timed /\ t > LastAt)
       /\ sent' = Append(sent, [status |-> up, clock |-> t, count |-> n])
  /\ UNCHANGED <<timed, counted, heard, kept, told>>

\* parseStateInfoSignal.
observedAt(i) == IF timed THEN sent[i].clock ELSE Missing
sequence(i)   == IF counted THEN sent[i].count ELSE Missing

(***************************************************************************)
(* Whether an observation is turned down in favour of the retained one: it *)
(* is of an earlier time, or of the same time (or of no known one) with an *)
(* earlier number, or with the same number and the other answer.           *)
(***************************************************************************)
MutTurnedDown(i) ==
  kept # 0 /\ sequence(kept) # Missing /\ sequence(i) < sequence(kept)
TurnedDown(i) ==
  LET bothTimed == observedAt(kept) # Missing /\ observedAt(i) # Missing
      bothCounted == sequence(kept) # Missing /\ sequence(i) # Missing
  IN  /\ kept # 0
      /\ \/ bothTimed /\ observedAt(i) < observedAt(kept)
         \/ /\ ~bothTimed \/ observedAt(i) = observedAt(kept)
            /\ bothCounted
            /\ \/ sequence(i) < sequence(kept)
               \/ sequence(i) = sequence(kept) /\ sent[i].status # sent[kept].status

\* A message arrives, for the first time or again.
ApplyObservation(i) ==
  /\ heard' = heard \cup {i}
  /\ IF TurnedDown(i) THEN UNCHANGED <<kept, told>>
     ELSE kept' = i /\ told' = sent[i].status
  /\ UNCHANGED <<timed, counted, sent>>

Next == Sends \/ \E i \in 1 .. Len(sent) : ApplyObservation(i)

-----------------------------------------------------------------------------
\* The type of the state; nothing is retained only while nothing was received.
Observation == [status : BOOLEAN, clock : Nat, count : Nat]
TypeOK ==
  /\ timed \in BOOLEAN /\ counted \in BOOLEAN
  /\ sent \in Seq(Observation) /\ heard \subseteq 1 .. Len(sent)
  /\ kept \in 0 .. Len(sent) /\ (kept = 0 => heard = {})

\* Of the messages received, none is known to be later than the one retained,
\* however they were repeated and reordered, also across a restart of the
\* device's numbers; and the host was told what is retained
\* (applyAvailabilityObservation: "an older message cannot overwrite newer
\* device truth").
Later(i, j) ==
  IF timed /\ observedAt(i) # observedAt(j) THEN observedAt(i) > observedAt(j)
  ELSE counted /\ sequence(i) > sequence(j)
NewestIsKept ==
  kept # 0 => told = sent[kept].status /\ \A i \in heard : ~Later(i, kept)
=============================================================================
