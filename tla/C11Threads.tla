----------------------------- MODULE C11Threads ------------------------------
(***************************************************************************)
(* What a program expects of thrd_create and thrd_join (psx.c, 266 and     *)
(* 308): a created thread runs its function once, and joining it waits for *)
(* the function and returns what it returned.  An attempt may fail without *)
(* an effect.                                                              *)
(***************************************************************************)
CONSTANTS Threads, Funcs, Results, NULL

VARIABLES
    state,      \* of each thread
    function,   \* it was created for
    result      \* what its function returned

Init ==
    /\ state = [t \in Threads |-> "none"]
    /\ function = [t \in Threads |-> NULL]
    /\ result = [t \in Threads |-> NULL]

Create(t) ==
    /\ state[t] = "none"
    /\ state' = [state EXCEPT ![t] = "running"]
    /\ \E func \in Funcs : function' = [function EXCEPT ![t] = func]
    /\ UNCHANGED result

Return(t) ==
    /\ state[t] = "running"
    /\ state' = [state EXCEPT ![t] = "ended"]
    /\ \E r \in Results : result' = [result EXCEPT ![t] = r]
    /\ UNCHANGED function

Join(t) ==
    /\ state[t] = "ended"
    /\ state' = [state EXCEPT ![t] = "joined"]
    /\ UNCHANGED <<function, result>>

Next == \E t \in Threads : Create(t) \/ Return(t) \/ Join(t)

Spec == Init /\ [][Next]_<<state, function, result>>
==============================================================================
