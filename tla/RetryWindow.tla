---------------------------- MODULE RetryWindow ----------------------------
(***************************************************************************)
(* One hop of the data link against the clock.  DataLink lets a key of     *)
(* Redis expire at any moment; here time is counted, to tell whether the   *)
(* TTLs the backend chose (dedupTTL, ackSenderTTL) outlast the retry       *)
(* schedule the ships follow (AckTimeout per spreading factor, plus the    *)
(* 500 ms of transmitWithRetry).  One tick is 500 ms: every timeout of     *)
(* domain/lora.go and both TTLs are whole numbers of ticks.                *)
(*                                                                         *)
(* The spreading factor may change between two attempts (env:sync_params), *)
(* any frame and any acknowledgement may be lost in the air.               *)
(***************************************************************************)
EXTENDS Integers

CONSTANTS
  SpreadingFactors,  \* those the session may be set to
  MaxRetries,        \* nodesim's maxRetries
  Latency,           \* bound, in ticks, from a ship's write to the dedup check
  Slack              \* bound, in ticks, on how late a timer fires

ASSUME RetryWindowAssumption ==
  /\ SpreadingFactors \subseteq 7 .. 12
  /\ MaxRetries \in Nat
  /\ Latency \in Nat
  /\ Slack \in Nat

VARIABLES
  now,       \* the clock, in ticks
  pc,        \* the sender: "idle", "wait", "acked", "dead"
  attempt,   \* attempt of transmitWithRetry
  timer,     \* when its select times out
  frames,    \* attempts in the air or the job queue, with their deadline
  seenUntil, \* when the dedup key expires, 0 when it was never set
  handed,    \* how often the receiver was handed the packet
  replies,   \* node:ack frames of the receiver on their way
  route,     \* when the ack-sender key expires, 0 when there is none
  acks       \* mesh:ack frames on their way to the sender

vars == <<now, pc, attempt, timer, frames, seenUntil, handed, replies, route, acks>>

(* domain.ackTimeouts in ticks; transmitWithRetry waits 500 ms longer.     *)
AckTimeout == [sf \in 7 .. 12 |->
  CASE sf = 7 -> 2 [] sf = 8 -> 3 [] sf = 9 -> 5
    [] sf = 10 -> 8 [] sf = 11 -> 13 [] sf = 12 -> 20]
Wait(sf) == AckTimeout[sf] + 1

(* dedupTTL is 30 s, ackSenderTTL is 2 minutes.  Mutants: a dedup key that *)
(* lasts one SF11 timeout, an ack-sender key that lasts no longer.         *)
DedupUntilShort(t) == t + AckTimeout[11]
DedupUntil(t) == t + 60
RouteUntilShort(t) == t + AckTimeout[11]
RouteUntil(t) == t + 240

Init ==
  /\ now = 0 /\ pc = "idle" /\ attempt = 0 /\ timer = 0
  /\ frames = {} /\ seenUntil = 0 /\ handed = 0
  /\ replies = 0 /\ route = 0 /\ acks = 0

(* One attempt of transmitWithRetry, with the timeout in force just then.  *)
Transmit(n) ==
  /\ pc' = "wait"
  /\ attempt' = n
  /\ frames' = frames \cup {[attempt |-> n, by |-> now + Latency]}
  /\ \E sf \in SpreadingFactors : timer' = now + Wait(sf)
  /\ UNCHANGED <<now, seenUntil, handed, replies, route, acks>>

Originate == pc = "idle" /\ Transmit(0)

(* Mutant of Retry: attempts are not counted against maxRetries.           *)
RetryUnbounded ==
  /\ pc = "wait" /\ now >= timer
  /\ Transmit(attempt + 1)

Retry ==
  /\ pc = "wait" /\ now >= timer
  /\ attempt < MaxRetries
  /\ Transmit(attempt + 1)

GiveUp ==
  /\ pc = "wait" /\ now >= timer
  /\ attempt = MaxRetries
  /\ pc' = "dead"
  /\ UNCHANGED <<now, attempt, timer, frames, seenUntil, handed, replies, route, acks>>

Lose(f) ==
  /\ frames' = frames \ {f}
  /\ UNCHANGED <<now, pc, attempt, timer, seenUntil, handed, replies, route, acks>>

(* MarkPacketSeen finds no live key: the frame is handed over, and its     *)
(* receiver will answer.                                                   *)
HandOver(f) ==
  /\ now >= seenUntil
  /\ frames' = frames \ {f}
  /\ seenUntil' = DedupUntil(now)
  /\ handed' = handed + 1
  /\ route' = RouteUntil(now)
  /\ replies' = replies + 1
  /\ UNCHANGED <<now, pc, attempt, timer, acks>>

(* It finds one: the duplicate is acknowledged, or that ACK is lost.       *)
FilterDuplicate(f) ==
  /\ now < seenUntil
  /\ frames' = frames \ {f}
  /\ acks' \in {acks, acks + 1}
  /\ UNCHANGED <<now, pc, attempt, timer, seenUntil, handed, replies, route>>

(* HandleAck: the sender is still remembered, or the ACK is stale.         *)
RelayAck ==
  /\ replies > 0
  /\ replies' = replies - 1
  /\ route' = 0
  /\ acks' \in IF now < route THEN {acks, acks + 1} ELSE {acks}
  /\ UNCHANGED <<now, pc, attempt, timer, frames, seenUntil, handed>>

HearAck ==
  /\ acks > 0
  /\ acks' = acks - 1
  /\ pc' = IF pc = "wait" THEN "acked" ELSE pc
  /\ UNCHANGED <<now, attempt, timer, frames, seenUntil, handed, replies, route>>

(* Time passes while the sender waits or a frame is under way; neither a   *)
(* frame nor a timer is later than its bound.                              *)
Tick ==
  /\ pc = "wait" \/ frames # {}
  /\ \A f \in frames : now < f.by
  /\ pc = "wait" => now < timer + Slack
  /\ now' = now + 1
  /\ UNCHANGED <<pc, attempt, timer, frames, seenUntil, handed, replies, route, acks>>

Next ==
  \/ Originate \/ Retry \/ GiveUp \/ RelayAck \/ HearAck \/ Tick
  \/ \E f \in frames : Lose(f) \/ HandOver(f) \/ FilterDuplicate(f)

Spec == Init /\ [][Next]_vars

-----------------------------------------------------------------------------
(* Every variable has its type.                                            *)
TypeOK ==
  /\ {now, attempt, timer, seenUntil, handed, replies, route, acks} \subseteq Nat
  /\ pc \in {"idle", "wait", "acked", "dead"}
  /\ attempt \in 0 .. MaxRetries
  /\ frames \subseteq [attempt: 0 .. MaxRetries, by: Nat]

(* dedupTTL's comment, "retried duplicates arrive within seconds": the     *)
(* dedup key outlasts the retry schedule, so the receiver is handed the    *)
(* packet, and an edge stores its telemetry row, once.                     *)
HandedOnce == handed <= 1

(* ackSenderTTL's comment, it "covers the worst case wait": as long as the *)
(* sender waits, an answer of the receiver can still find its way back.    *)
RouteOutlivesWait == pc = "wait" /\ replies > 0 /\ handed = replies => now < route
=============================================================================
