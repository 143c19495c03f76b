------------------------------- MODULE Relay --------------------------------
(***************************************************************************)
(* What an outbox promises, whatever replicas, leases and crashes are      *)
(* behind it: a message that was posted is carried at least once unless    *)
(* somebody closes it first; it is closed once, as CONFIRMED if it is a    *)
(* command that was answered, as DEAD if its time is over.                 *)
(***************************************************************************)
CONSTANTS
    Messages, \* message IDs
    Commands  \* those of them that may be confirmed

VARIABLES
    fate,    \* "absent", "open", "CONFIRMED" or "DEAD", per message
    late,    \* messages whose time is over
    carried  \* messages NATS has carried at least once

vars == <<fate, late, carried>>

Init ==
    /\ fate = [i \in Messages |-> "absent"]
    /\ late = {}
    /\ carried = {}

Post(i) ==
    /\ fate[i] = "absent"
    /\ fate' = [fate EXCEPT ![i] = "open"]
    /\ UNCHANGED <<late, carried>>

\* A copy may also go out after the message was closed.
Carry(i) ==
    /\ fate[i] # "absent"
    /\ carried' = carried \cup {i}
    /\ UNCHANGED <<fate, late>>

Confirm(i) ==
    /\ i \in Commands
    /\ fate[i] = "open"
    /\ fate' = [fate EXCEPT ![i] = "CONFIRMED"]
    /\ UNCHANGED <<late, carried>>

Lapse(i) ==
    /\ fate[i] # "absent"
    /\ late' = late \cup {i}
    /\ UNCHANGED <<fate, carried>>

\* All of the open messages whose time is over at once.
Die ==
    /\ fate' = [i \in Messages |->
                   IF fate[i] = "open" /\ i \in late THEN "DEAD" ELSE fate[i]]
    /\ UNCHANGED <<late, carried>>

Next ==
    \/ \E i \in Messages : Post(i) \/ Carry(i) \/ Confirm(i) \/ Lapse(i)
    \/ Die

Spec == Init /\ [][Next]_vars

\* An open message is not held back for ever.
FairSpec ==
    /\ Spec
    /\ \A i \in Messages :
          WF_vars(fate[i] = "open" /\ i \notin carried /\ Carry(i))
=============================================================================
