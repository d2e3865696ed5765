------------------------- MODULE RetryWindow_proofs -------------------------
(* Proofs about RetryWindow: the conditions on the retry schedule under    *)
(* which the TTLs of the backend outlast it, for every schedule.           *)
EXTENDS RetryWindow, TLAPS

(* An attempt's timeout is a whole number of ticks.                        *)
LEMMA WaitType == \A sf \in SpreadingFactors : Wait(sf) \in Nat
<1> SUFFICES ASSUME NEW sf \in SpreadingFactors PROVE Wait(sf) \in Nat
  OBVIOUS
<1>1. sf \in 7 .. 12
  BY RetryWindowAssumption
<1>2. sf = 7 \/ sf = 8 \/ sf = 9 \/ sf = 10 \/ sf = 11 \/ sf = 12
  BY <1>1
<1> QED BY <1>1, <1>2 DEF Wait, AckTimeout

(* Every reachable state is well typed, and attempts stay within           *)
(* maxRetries: an answer that comes late restarts nothing.                 *)
THEOREM TypeCorrect == Spec => []TypeOK
<1>1. Init => TypeOK
  BY RetryWindowAssumption DEF Init, TypeOK
<1>2. TypeOK /\ [Next]_vars => TypeOK'
  <2> SUFFICES ASSUME TypeOK, [Next]_vars PROVE TypeOK'
    OBVIOUS
  <2> USE RetryWindowAssumption DEF TypeOK
  <2>1. ASSUME NEW n \in 0 .. MaxRetries, Transmit(n) PROVE TypeOK'
    <3>1. timer' \in Nat
      BY <2>1, WaitType DEF Transmit
    <3>2. [attempt |-> n, by |-> now + Latency] \in [attempt: 0 .. MaxRetries, by: Nat]
      OBVIOUS
    <3> QED BY <2>1, <3>1, <3>2 DEF Transmit
  <2>2. CASE Originate
    BY <2>1, <2>2 DEF Originate
  <2>3. CASE Retry
    BY <2>1, <2>3 DEF Retry
  <2>4. CASE GiveUp
    BY <2>4 DEF GiveUp
  <2>5. CASE RelayAck
    BY <2>5 DEF RelayAck
  <2>6. CASE HearAck
    BY <2>6 DEF HearAck
  <2>7. CASE Tick
    BY <2>7 DEF Tick
  <2>8. ASSUME NEW f \in frames, Lose(f) \/ HandOver(f) \/ FilterDuplicate(f) PROVE TypeOK'
    BY <2>8 DEF Lose, HandOver, FilterDuplicate, DedupUntil, RouteUntil
  <2>9. CASE UNCHANGED vars
    BY <2>9 DEF vars
  <2> QED BY <2>2, <2>3, <2>4, <2>5, <2>6, <2>7, <2>8, <2>9 DEF Next
<1> QED BY <1>1, <1>2, PTL DEF Spec

-----------------------------------------------------------------------------
(* The schedule.  Left(d, n) is the time n attempts before the last may    *)
(* still take, d ticks each.                                               *)
Left(d, n) == (MaxRetries - n) * d

LEMMA LeftFacts ==
  ASSUME NEW d \in Nat
  PROVE  /\ \A n \in 0 .. MaxRetries : Left(d, n) \in Nat /\ Left(d, n) <= MaxRetries * d
         /\ \A n \in 0 .. MaxRetries : n < MaxRetries => Left(d, n) = d + Left(d, n + 1)
<1> USE RetryWindowAssumption
<1>1. \A m, n \in Nat : m <= n => m * d \in Nat /\ m * d <= n * d
  OBVIOUS
<1>2. ASSUME NEW n \in 0 .. MaxRetries
      PROVE  MaxRetries - n \in Nat /\ MaxRetries - n <= MaxRetries
  OBVIOUS
<1>3. ASSUME NEW n \in 0 .. MaxRetries, n < MaxRetries PROVE Left(d, n) = d + Left(d, n + 1)
  BY DEF Left
<1> QED BY <1>1, <1>2, <1>3 DEF Left

(* No frame and no timer is ever later than its bound.                     *)
OnTime(w) ==
  /\ \A f \in frames : now <= f.by /\ f.by <= now + Latency
  /\ pc = "wait" => now <= timer + Slack /\ timer <= now + w

LEMMA OnTimeStep ==
  ASSUME NEW w \in Nat, \A sf \in SpreadingFactors : Wait(sf) <= w,
         TypeOK, OnTime(w), [Next]_vars
  PROVE  OnTime(w)'
<1> USE RetryWindowAssumption DEF TypeOK, OnTime
<1>1. ASSUME NEW n, Transmit(n) PROVE OnTime(w)'
  <2>1. timer' \in now .. now + w
    BY <1>1, WaitType DEF Transmit
  <2>2. \A f \in frames' : now <= f.by /\ f.by <= now + Latency
    BY <1>1 DEF Transmit
  <2> QED BY <1>1, <2>1, <2>2 DEF Transmit
<1>2. CASE Originate \/ Retry
  BY <1>1, <1>2 DEF Originate, Retry
<1>3. CASE GiveUp \/ RelayAck \/ HearAck
  BY <1>3 DEF GiveUp, RelayAck, HearAck
<1>4. CASE Tick
  BY <1>4 DEF Tick
<1>5. ASSUME NEW f \in frames, Lose(f) \/ HandOver(f) \/ FilterDuplicate(f) PROVE OnTime(w)'
  BY <1>5 DEF Lose, HandOver, FilterDuplicate
<1>6. CASE UNCHANGED vars
  BY <1>6 DEF vars
<1> QED BY <1>2, <1>3, <1>4, <1>5, <1>6 DEF Next

(* Once the packet was handed over, what is in the air arrives while the   *)
(* dedup key lives, and what may still be sent will too.                   *)
KeyLasts(w) ==
  handed > 0 =>
    /\ \A f \in frames : f.by < seenUntil
    /\ pc = "wait" =>
         timer + Slack + Left(w + Slack, attempt) + Latency < seenUntil + w + Slack
    /\ pc # "idle"

LEMMA KeyStep ==
  ASSUME NEW w \in Nat, \A sf \in SpreadingFactors : Wait(sf) <= w,
         MaxRetries * (w + Slack) + Latency < DedupUntil(0),
         TypeOK, OnTime(w), KeyLasts(w), HandedOnce, (frames # {} => pc # "idle"), [Next]_vars
  PROVE  KeyLasts(w)' /\ HandedOnce' /\ (frames # {} => pc # "idle")'
<1> DEFINE d == w + Slack
<1>0. d \in Nat /\ MaxRetries * d + Latency < 60 /\ MaxRetries * d \in Nat
  BY RetryWindowAssumption DEF DedupUntil
<1> HIDE DEF d
<1>1. /\ \A n \in 0 .. MaxRetries : Left(d, n) \in Nat /\ Left(d, n) <= MaxRetries * d
      /\ \A n \in 0 .. MaxRetries : n < MaxRetries => Left(d, n) = d + Left(d, n + 1)
  BY <1>0, LeftFacts
<1> USE RetryWindowAssumption, <1>0 DEF TypeOK, OnTime, KeyLasts, HandedOnce
<1>2. CASE Originate
  BY <1>2 DEF Originate, Transmit
<1>3. CASE Retry
  <2>1. PICK l \in Nat, l1 \in Nat :
          l = Left(d, attempt) /\ l1 = Left(d, attempt + 1) /\ l = d + l1
    BY <1>1, <1>3 DEF Retry
  <2>2. timer' \in now .. now + w /\ attempt' = attempt + 1 /\ pc' = "wait"
    BY <1>3, WaitType DEF Retry, Transmit
  <2>3. \A f \in frames' : f \in frames \/ f.by = now + Latency
    BY <1>3 DEF Retry, Transmit
  <2>4. pc = "wait" /\ UNCHANGED <<handed, seenUntil>>
    BY <1>3 DEF Retry, Transmit
  <2> HIDE DEF HandedOnce
  <2>5. ASSUME handed > 0
        PROVE  /\ \A f \in frames' : f.by < seenUntil
               /\ timer' + Slack + l1 + Latency < seenUntil + w + Slack
    <3>1. timer + Slack + l + Latency < seenUntil + d
      BY <2>1, <2>4, <2>5 DEF d
    <3>2. now + Latency < seenUntil
      BY <2>1, <2>4, <3>1
    <3>3. timer' + Slack + l1 + Latency < seenUntil + w + Slack
      BY <2>1, <2>2, <2>4, <3>1 DEF d
    <3> QED BY <2>3, <2>5, <3>2, <3>3
  <2> QED BY <2>1, <2>2, <2>4, <2>5 DEF d, HandedOnce
<1>4. CASE GiveUp \/ RelayAck \/ HearAck
  BY <1>4 DEF GiveUp, RelayAck, HearAck
<1>5. CASE Tick
  BY <1>5 DEF Tick
<1>6. ASSUME NEW f \in frames, Lose(f) \/ FilterDuplicate(f)
      PROVE  KeyLasts(w)' /\ HandedOnce' /\ (frames # {} => pc # "idle")'
  BY <1>6 DEF Lose, FilterDuplicate
<1>7. ASSUME NEW f \in frames, HandOver(f)
      PROVE  KeyLasts(w)' /\ HandedOnce' /\ (frames # {} => pc # "idle")'
  <2>1. handed = 0
    BY <1>7 DEF HandOver
  <2>2. PICK l \in Nat : l = Left(d, attempt) /\ l <= MaxRetries * d
    BY <1>1
  <2>3. seenUntil' = now + 60 /\ handed' = 1 /\ frames' \subseteq frames
        /\ UNCHANGED <<now, pc, attempt, timer>>
    BY <1>7, <2>1 DEF HandOver, DedupUntil
  <2>4. \A g \in frames' : g.by < seenUntil'
    BY <2>3
  <2>5. pc = "wait" => timer + Slack + l + Latency < seenUntil' + w + Slack
    BY <2>2, <2>3
  <2> QED BY <2>2, <2>3, <2>4, <2>5 DEF d
<1>8. CASE UNCHANGED vars
  BY <1>8 DEF vars
<1> QED BY <1>2, <1>3, <1>4, <1>5, <1>6, <1>7, <1>8 DEF Next

(* Whatever spreading factors a session is set to and whatever is lost, a  *)
(* packet is handed over once if MaxRetries waits, each as late as timers  *)
(* run, and the latency of the last frame fit into the dedup TTL: a time   *)
(* the code chose without reference to maxRetries or to the spreading      *)
(* factor.                                                                 *)
THEOREM DedupOutlastsRetries ==
  ASSUME NEW w \in Nat, \A sf \in SpreadingFactors : Wait(sf) <= w,
         MaxRetries * (w + Slack) + Latency < DedupUntil(0)
  PROVE  Spec => []HandedOnce
<1> DEFINE Inv == OnTime(w) /\ KeyLasts(w) /\ HandedOnce /\ (frames # {} => pc # "idle")
<1>1. Init => Inv
  BY RetryWindowAssumption DEF Init, OnTime, KeyLasts, HandedOnce
<1>2. TypeOK /\ Inv /\ [Next]_vars => Inv'
  BY OnTimeStep, KeyStep
<1>3. Inv => HandedOnce
  OBVIOUS
<1> HIDE DEF Inv
<1> QED BY <1>1, <1>2, <1>3, TypeCorrect, PTL DEF Spec

(* The code's own numbers: with maxRetries = 3 a session kept below SF12   *)
(* hands a packet over once, as long as lateness stays within 18 ticks (9  *)
(* seconds) in all, three times a timer's and once a frame's.              *)
THEOREM HandedOnceBelowSF12 ==
  ASSUME MaxRetries = 3, SpreadingFactors \subseteq 7 .. 11, 3 * Slack + Latency < 18
  PROVE  Spec => []HandedOnce
<1>1. \A sf \in SpreadingFactors : Wait(sf) <= 14
  <2> SUFFICES ASSUME NEW sf \in SpreadingFactors PROVE Wait(sf) <= 14
    OBVIOUS
  <2>1. sf = 7 \/ sf = 8 \/ sf = 9 \/ sf = 10 \/ sf = 11
    OBVIOUS
  <2> QED BY <2>1 DEF Wait, AckTimeout
<1>2. MaxRetries * (14 + Slack) + Latency < DedupUntil(0)
  BY RetryWindowAssumption DEF DedupUntil
<1>3. 14 \in Nat
  OBVIOUS
<1> QED BY <1>1, <1>2, <1>3, DedupOutlastsRetries

-----------------------------------------------------------------------------
(* The way back.                                                           *)

(* While no answer has been relayed, the route dates from the last time    *)
(* the packet was handed over, and the sender stops waiting soon after.    *)
RouteLasts(w) ==
  /\ replies <= handed
  /\ handed > 0 =>
       /\ pc # "idle"
       /\ replies = handed /\ pc = "wait" =>
            timer + Slack + Left(w + Slack, attempt) < route

LEMMA RouteStep ==
  ASSUME NEW w \in Nat, \A sf \in SpreadingFactors : Wait(sf) <= w,
         (MaxRetries + 1) * (w + Slack) < RouteUntil(0),
         TypeOK, OnTime(w), RouteLasts(w), (frames # {} => pc # "idle"), [Next]_vars
  PROVE  RouteLasts(w)' /\ (frames # {} => pc # "idle")'
<1> DEFINE d == w + Slack
<1>0. d \in Nat /\ MaxRetries * d \in Nat /\ MaxRetries * d + d < 240
  BY RetryWindowAssumption DEF RouteUntil
<1> HIDE DEF d
<1>1. /\ \A n \in 0 .. MaxRetries : Left(d, n) \in Nat /\ Left(d, n) <= MaxRetries * d
      /\ \A n \in 0 .. MaxRetries : n < MaxRetries => Left(d, n) = d + Left(d, n + 1)
  BY <1>0, LeftFacts
<1> USE RetryWindowAssumption, <1>0 DEF TypeOK, OnTime, RouteLasts
<1>2. CASE Originate
  BY <1>2 DEF Originate, Transmit
<1>3. CASE Retry
  <2>1. PICK l \in Nat, l1 \in Nat :
          l = Left(d, attempt) /\ l1 = Left(d, attempt + 1) /\ l = d + l1
    BY <1>1, <1>3 DEF Retry
  <2>2. timer' \in now .. now + w /\ attempt' = attempt + 1 /\ pc' = "wait" /\ pc = "wait"
    BY <1>3, WaitType DEF Retry, Transmit
  <2>3. UNCHANGED <<handed, replies, route>>
    BY <1>3 DEF Retry, Transmit
  <2>4. ASSUME handed > 0, replies = handed PROVE timer' + Slack + l1 < route
    <3>1. timer + Slack + l < route
      BY <2>1, <2>2, <2>4 DEF d
    <3> QED BY <2>1, <2>2, <3>1 DEF d
  <2> QED BY <2>1, <2>2, <2>3, <2>4 DEF d
<1>4. CASE GiveUp \/ HearAck
  BY <1>4 DEF GiveUp, HearAck
<1>5. CASE RelayAck
  BY <1>5 DEF RelayAck
<1>6. CASE Tick
  BY <1>6 DEF Tick
<1>7. ASSUME NEW f \in frames, Lose(f) \/ FilterDuplicate(f)
      PROVE  RouteLasts(w)' /\ (frames # {} => pc # "idle")'
  BY <1>7 DEF Lose, FilterDuplicate
<1>8. ASSUME NEW f \in frames, HandOver(f)
      PROVE  RouteLasts(w)' /\ (frames # {} => pc # "idle")'
  <2>1. PICK l \in Nat : l = Left(d, attempt) /\ l <= MaxRetries * d
    BY <1>1
  <2>2. route' = now + 240 /\ handed' = handed + 1 /\ replies' = replies + 1
        /\ frames' \subseteq frames /\ UNCHANGED <<now, pc, attempt, timer>>
    BY <1>8 DEF HandOver, RouteUntil
  <2>3. pc = "wait" => timer + Slack + l < route'
    BY <2>1, <2>2 DEF d
  <2> QED BY <2>1, <2>2, <2>3 DEF d
<1>9. CASE UNCHANGED vars
  BY <1>9 DEF vars
<1> QED BY <1>2, <1>3, <1>4, <1>5, <1>6, <1>7, <1>8, <1>9 DEF Next

(* As long as a ship waits, the engine still knows to whom the first       *)
(* answer of the receiver goes, if the whole schedule, the last wait       *)
(* included, fits into the ack-sender TTL: handed over once or, the dedup  *)
(* key having expired, again.                                              *)
THEOREM RouteOutlastsWait ==
  ASSUME NEW w \in Nat, \A sf \in SpreadingFactors : Wait(sf) <= w,
         (MaxRetries + 1) * (w + Slack) < RouteUntil(0)
  PROVE  Spec => []RouteOutlivesWait
<1> DEFINE Inv == OnTime(w) /\ RouteLasts(w) /\ (frames # {} => pc # "idle")
<1>1. Init => Inv
  BY RetryWindowAssumption DEF Init, OnTime, RouteLasts
<1>2. TypeOK /\ Inv /\ [Next]_vars => Inv'
  BY OnTimeStep, RouteStep
<1>3. TypeOK /\ Inv => RouteOutlivesWait
  <2> SUFFICES ASSUME TypeOK, Inv, pc = "wait", replies > 0, handed = replies
               PROVE  now < route
    BY DEF RouteOutlivesWait
  <2>1. w + Slack \in Nat /\ attempt \in 0 .. MaxRetries
    BY RetryWindowAssumption DEF TypeOK
  <2>2. Left(w + Slack, attempt) \in Nat
    BY <2>1, LeftFacts
  <2>3. timer + Slack + Left(w + Slack, attempt) < route
    BY DEF RouteLasts, TypeOK
  <2>4. timer + Slack < route
    BY <2>2, <2>3, RetryWindowAssumption DEF TypeOK
  <2> QED BY <2>4, RetryWindowAssumption DEF OnTime, TypeOK
<1> HIDE DEF Inv
<1> QED BY <1>1, <1>2, <1>3, TypeCorrect, PTL DEF Spec

(* With maxRetries = 3 it does at every spreading factor, SF12 included,   *)
(* while a timer is less than 39 ticks (19.5 seconds) late.                *)
THEOREM RouteLastsAtEverySF ==
  ASSUME MaxRetries = 3, Slack < 39
  PROVE  Spec => []RouteOutlivesWait
<1>1. \A sf \in SpreadingFactors : Wait(sf) <= 21
  <2> SUFFICES ASSUME NEW sf \in SpreadingFactors PROVE Wait(sf) <= 21
    OBVIOUS
  <2>1. sf = 7 \/ sf = 8 \/ sf = 9 \/ sf = 10 \/ sf = 11 \/ sf = 12
    BY RetryWindowAssumption
  <2> QED BY <2>1 DEF Wait, AckTimeout
<1>2. (MaxRetries + 1) * (21 + Slack) < RouteUntil(0)
  BY RetryWindowAssumption DEF RouteUntil
<1>3. 21 \in Nat
  OBVIOUS
<1> QED BY <1>1, <1>2, <1>3, RouteOutlastsWait
=============================================================================
