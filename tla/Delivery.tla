------------------------------ MODULE Delivery ------------------------------
(***************************************************************************)
(* What one hop of the data link promises, with no word of sockets, jobs,  *)
(* retries or keys that expire: a receiver is handed a packet at most once *)
(* in a window of its deduplication, and the verdict of a sender that was  *)
(* told "acknowledged" is never wrong about the packet having been heard.  *)
(* DataLink implements it.                                                 *)
(***************************************************************************)
EXTENDS Naturals

CONSTANTS
  Nodes, Packets, Roles, Targets,
  Rcv(_),      \* Rcv(f): the packet and the receiver of a frame f
  NoNode       \* the target of a sender that has not started

Hops == Packets \X Targets
Senders == Nodes \X Packets \X Roles

VARIABLES
  window,      \* window[x]: how many windows of hop x have closed
  taken,       \* taken[x]: whether a frame has claimed the one that is open
  handed,      \* the frames handed over, each with the window it claimed
  verdict,     \* verdict[k]: "none", "pending", "acked" or "dead"
  target       \* target[k]: to whom sender k transmits

vars == <<window, taken, handed, verdict, target>>

Init ==
  /\ window = [x \in Hops |-> 0]
  /\ taken = [x \in Hops |-> FALSE]
  /\ handed = {}
  /\ verdict = [k \in Senders |-> "none"]
  /\ target = [k \in Senders |-> NoNode]

Heard(x) == taken[x] \/ window[x] > 0

(* The first frame of a window claims it ...                               *)
Claim(x) ==
  /\ ~ taken[x]
  /\ taken' = [taken EXCEPT ![x] = TRUE]
  /\ UNCHANGED <<window, handed, verdict, target>>

(* ... until the receiver forgets.                                         *)
Forget(x) ==
  /\ taken[x]
  /\ taken' = [taken EXCEPT ![x] = FALSE]
  /\ window' = [window EXCEPT ![x] = @ + 1]
  /\ UNCHANGED <<handed, verdict, target>>

(* A window that was claimed, perhaps long closed, yields one frame.       *)
Hand ==
  \E h \in handed' \ handed : LET x == Rcv(h.frame) IN
    /\ h.win < window[x] \/ (h.win = window[x] /\ taken[x])
    /\ \A g \in handed : Rcv(g.frame) = x => g.win # h.win
    /\ handed' = handed \cup {h}
    /\ UNCHANGED <<window, taken, verdict, target>>

(* A sender starts, or finds its own link closed at once.                  *)
Start(k) ==
  /\ verdict[k] = "none"
  /\ verdict' \in {[verdict EXCEPT ![k] = v] : v \in {"pending", "dead"}}
  /\ \E t \in Targets : target' = [target EXCEPT ![k] = t]
  /\ UNCHANGED <<window, taken, handed>>

(* "Acknowledged": a receiver this ship sent the packet to has heard it.   *)
Acknowledge(k) ==
  /\ verdict[k] = "pending"
  /\ \E role \in Roles : LET s == <<k[1], k[2], role>> IN
       verdict[s] # "none" /\ Heard(<<k[2], target[s]>>)
  /\ verdict' = [verdict EXCEPT ![k] = "acked"]
  /\ UNCHANGED <<window, taken, handed, target>>

(* "Link dead" promises nothing: the packet may have been handed over.     *)
Abandon(k) ==
  /\ verdict[k] = "pending"
  /\ verdict' = [verdict EXCEPT ![k] = "dead"]
  /\ UNCHANGED <<window, taken, handed, target>>

(* What has changed is named first: most steps of a detailed specification *)
(* show nothing here, and are told at once.                                *)
Next ==
  \/ taken' # taken /\ \E x \in Hops : Claim(x) \/ Forget(x)
  \/ Hand
  \/ verdict' # verdict /\ \E k \in Senders : Acknowledge(k) \/ Abandon(k) \/ Start(k)

Spec == Init /\ [][Next]_vars
=============================================================================
