------------------------------- MODULE Watch -------------------------------
(***************************************************************************)
(* What the engine takes for granted of the Kubernetes adapter: the        *)
(* listers and the channels of events agree.  view[k] is what the lister   *)
(* has of key k (Absent: nothing that is managed), stream[c] the events on *)
(* their way in channel c, seen[k] what the handlers of the engine have    *)
(* made of them.  These are the notices by which Controller changes its    *)
(* caches.                                                                 *)
(***************************************************************************)
EXTENDS Integers, Sequences

CONSTANTS Keys, Absent,
          Channels, channel,    \* the channels, and the one of each key
          MayGain               \* keys that may become managed by an Update

VARIABLES view, stream, seen, alive

vars == <<view, stream, seen, alive>>

Init == /\ view = [k \in Keys |-> Absent]
        /\ stream = [c \in Channels |-> << >>]
        /\ seen = [k \in Keys |-> Absent]
        /\ alive = TRUE

\* The events that may announce that the lister goes from o to n.
Notices(k, o, n) ==
    IF n = Absent THEN IF o = Absent THEN {} ELSE {[key |-> k, type |-> "Delete", obj |-> o]}
    ELSE IF o # Absent THEN {[key |-> k, type |-> "Update", obj |-> n]}
    ELSE {[key |-> k, type |-> t, obj |-> n] :
            t \in {"Add"} \cup IF k \in MayGain THEN {"Update"} ELSE {}}

\* Every key whose entry changes is announced, once, in the same step, and goes
\* to its channel.
Announce(c) ==
    LET new == SubSeq(stream'[c], Len(stream[c]) + 1, Len(stream'[c]))
    IN  /\ view' = [k \in Keys |-> view'[k]]
        /\ stream' = [stream EXCEPT ![c] = @ \o new]
        /\ \A i \in DOMAIN new :
             LET k == new[i].key
             IN  /\ k \in Keys /\ channel[k] = c /\ new[i] \in Notices(k, view[k], view'[k])
                 /\ \A j \in DOMAIN new : new[j].key = k => i = j
        /\ \A k \in Keys : view'[k] # view[k] => \E i \in DOMAIN new : new[i].key = k
        /\ UNCHANGED <<seen, alive>>

Handle(c) ==
    /\ alive /\ stream[c] # << >>
    /\ LET e == Head(stream[c])
       IN  seen' = [seen EXCEPT ![e.key] = IF e.type = "Delete" THEN Absent ELSE e.obj]
    /\ stream' = [stream EXCEPT ![c] = Tail(@)]
    /\ UNCHANGED <<view, alive>>

\* Events are lost only when the engine is at its end.
End == alive /\ alive' = FALSE /\ UNCHANGED <<view, stream, seen>>
Lose(c) == /\ ~alive /\ stream[c] # << >>
           /\ \E i \in DOMAIN stream[c] :
                stream' = [stream EXCEPT ![c] = SubSeq(@, 1, i - 1) \o SubSeq(@, i + 1, Len(@))]
           /\ UNCHANGED <<view, seen, alive>>

Next == End \/ \E c \in Channels : Announce(c) \/ Handle(c) \/ Lose(c)

Spec == Init /\ [][Next]_vars
=============================================================================
