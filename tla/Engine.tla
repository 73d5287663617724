------------------------------- MODULE Engine -------------------------------
(***************************************************************************)
(* What the event driven half of the controller promises, without events,  *)
(* queue, backoff or registries: a follower that is told of changes and    *)
(* works on one key at a time.  now[s] is what the cluster holds for key   *)
(* s, known[s] what the follower has acted on last.  Controller implements *)
(* it (Controller!EngineRefined).                                          *)
(***************************************************************************)
CONSTANTS Keys, Values, Nothing

VARIABLES
    now,        \* the object of each key in the cluster
    known,      \* the object of each key the follower has acted on
    todo,       \* keys with work that is still to be taken
    running     \* keys that are being worked on

vars == <<now, known, todo, running>>

Init == /\ now = [s \in Keys |-> Nothing]
        /\ known = now
        /\ todo = {} /\ running = {}

\* A key changes in the cluster: it is due.
Change(s) ==
    /\ \E v \in Values \cup {Nothing} : now' = [now EXCEPT ![s] = v]
    /\ todo' = todo \cup {s}
    /\ UNCHANGED <<known, running>>

\* Something a key depends on has changed.
Touch(S) == todo' = todo \cup S /\ UNCHANGED <<now, known, running>>

\* A key that is due is taken by one worker only; it stays due when it changed
\* more than once.
Take(s) ==
    /\ s \in todo \ running
    /\ todo' \in {todo, todo \ {s}}
    /\ running' = running \cup {s}
    /\ UNCHANGED <<now, known>>

\* Knowledge changes only for keys that are due or being worked on.
Learn(s) ==
    /\ s \in todo \cup running
    /\ \E v \in Values \cup {Nothing} : known' = [known EXCEPT ![s] = v]
    /\ UNCHANGED <<now, todo, running>>

\* Work on a key succeeds only if it leaves nothing to do for it: another change
\* is due, or the follower knows what the cluster holds.
Succeed(s) ==
    /\ s \in running
    /\ s \in todo \/ known[s] = now[s]
    /\ running' = running \ {s}
    /\ UNCHANGED <<now, known, todo>>

Fail(s) ==
    /\ s \in running
    /\ running' = running \ {s}
    /\ todo' = todo \cup {s}
    /\ UNCHANGED <<now, known>>

\* A new process knows nothing and finds everything due that exists.
Restart ==
    /\ known' = [s \in Keys |-> Nothing]
    /\ todo' = {s \in Keys : now[s] # Nothing}
    /\ running' = {}
    /\ UNCHANGED now

Next == \/ \E s \in Keys : Change(s) \/ Take(s) \/ Learn(s) \/ Succeed(s) \/ Fail(s)
        \/ \E S \in SUBSET Keys : Touch(S)
        \/ Restart

Spec == Init /\ [][Next]_vars

\* What is due is taken, and work ends.
Fairness == \A s \in Keys : /\ SF_vars(Take(s))
                            /\ WF_vars(Succeed(s) \/ Fail(s))

FairSpec == Spec /\ Fairness
=============================================================================
