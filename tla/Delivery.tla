------------------------------ MODULE Delivery -----------------------------
(***************************************************************************)
(* What the exchange service's message cache promises to its readers,      *)
(* without saying how it keeps its messages.  A message is posted to all   *)
(* clients of one type.  A reader gets only messages that were posted to   *)
(* its type, each at most once, and never an older one after a newer one.  *)
(* Nothing is promised about completeness: a reader may miss messages.     *)
(***************************************************************************)
EXTENDS Clients, Sequences

CONSTANTS Message,      \* the texts that are posted
          ClientID      \* the ids of the readers

VARIABLES posted,       \* every message posted so far, in the order of posting
          received      \* received[id]: positions in posted that reader id got

Post(msg, ct) ==
  /\ posted' = Append(posted, [msg |-> msg, target |-> ct])
  /\ UNCHANGED received

Deliver(id, i) ==
  /\ i \in 1 .. Len(posted)
  /\ posted[i].target = TypeOf(id)
  /\ \A j \in received[id] : j < i
  /\ received' = [received EXCEPT ![id] = @ \union {i}]
  /\ UNCHANGED posted

Init ==
  /\ posted = << >>
  /\ received = [id \in ClientID |-> {}]

Next ==
  \/ \E msg \in Message, ct \in ClientType : Post(msg, ct)
  \/ \E id \in ClientID : \E i \in 1 .. Len(posted) : Deliver(id, i)

Spec == Init /\ [][Next]_<<posted, received>>
=============================================================================
