---------------------------- MODULE AtomicObject ----------------------------
(***************************************************************************)
(* What a thread-safe container promises its callers: each call takes      *)
(* effect in one instant between its invocation and its return, and its    *)
(* answer is the one the object gives at that instant (linearizability).   *)
(* The object's meaning is a parameter: Effect(s, c) is the state and      *)
(* Answer(s, c) the value that call c yields in state s.                   *)
(***************************************************************************)
CONSTANTS Thread, Call, NoCall, NoAnswer, Initial, Effect(_, _), Answer(_, _)

VARIABLES
    object,     \* the abstract state of the container
    phase,      \* phase[t] \in {"idle", "called", "done"}
    call,       \* the call thread t made last
    answer      \* what that call answered

vars == <<object, phase, call, answer>>

Init ==
    /\ object \in Initial
    /\ phase = [t \in Thread |-> "idle"]
    /\ call = [t \in Thread |-> NoCall]
    /\ answer = [t \in Thread |-> NoAnswer]

Invoke(t) ==
    /\ phase[t] = "idle"
    /\ phase' = [phase EXCEPT ![t] = "called"]
    /\ \E c \in Call : call' = [call EXCEPT ![t] = c]
    /\ answer' = [answer EXCEPT ![t] = NoAnswer]
    /\ UNCHANGED object

Commit(t) ==
    /\ phase[t] = "called"
    /\ phase' = [phase EXCEPT ![t] = "done"]
    /\ object' = Effect(object, call[t])
    /\ answer' = [answer EXCEPT ![t] = Answer(object, call[t])]
    /\ UNCHANGED call

Return(t) ==
    /\ phase[t] = "done"
    /\ phase' = [phase EXCEPT ![t] = "idle"]
    /\ UNCHANGED <<object, call, answer>>

Next == \E t \in Thread : Invoke(t) \/ Commit(t) \/ Return(t)

Spec == Init /\ [][Next]_vars
=============================================================================
