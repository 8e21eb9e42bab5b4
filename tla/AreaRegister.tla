---------------------------- MODULE AreaRegister ----------------------------
(***************************************************************************)
(* What a shared memory area promises the tasks that use it: a register    *)
(* whose reads and writes take effect at one instant between call and      *)
(* return, with a mark, fresh, that every write raises and every read that *)
(* is not silent takes down.  SharedMemory is shown to implement it.       *)
(***************************************************************************)
EXTENDS AreaContents

CONSTANT Task           \* the FreeRTOS tasks that call the area

VARIABLES
    content,    \* what the last write that took effect stored
    fresh,      \* no consuming read took effect since
    phase,      \* how far each task's call has got
    call,       \* the call itself
    copy        \* what a read that took effect delivers

vars == <<content, fresh, phase, call, copy>>

Idle == [op |-> "none"]

TypeOK ==
    /\ content \in Content
    /\ fresh \in BOOLEAN
    /\ phase \in [Task -> {"idle", "pending", "done"}]
    /\ call \in [Task -> Call \cup {Idle}]
    /\ copy \in [Task -> Content]

Init ==
    /\ content = Blank
    /\ fresh = FALSE
    /\ phase = [t \in Task |-> "idle"]
    /\ call = [t \in Task |-> Idle]
    /\ copy = [t \in Task |-> Blank]

Invoke(t, c) ==
    /\ phase[t] = "idle"
    /\ phase' = [phase EXCEPT ![t] = IF Admitted(c) THEN "pending" ELSE "done"]
    /\ call' = [call EXCEPT ![t] = c]
    /\ UNCHANGED <<content, fresh, copy>>

WriteEffect(t) ==
    /\ phase[t] = "pending"
    /\ IsWrite(call[t])
    /\ content' = Encoded(call[t])
    /\ fresh' = TRUE
    /\ phase' = [phase EXCEPT ![t] = "done"]
    /\ UNCHANGED <<call, copy>>

ReadEffect(t) ==
    /\ phase[t] = "pending"
    /\ IsRead(call[t])
    /\ copy' = [copy EXCEPT ![t] = content]
    /\ fresh' = (fresh /\ call[t].silent)
    /\ phase' = [phase EXCEPT ![t] = "done"]
    /\ UNCHANGED <<content, call>>

Return(t) ==
    /\ phase[t] = "done"
    /\ phase' = [phase EXCEPT ![t] = "idle"]
    /\ call' = [call EXCEPT ![t] = Idle]
    /\ copy' = [copy EXCEPT ![t] = Blank]
    /\ UNCHANGED <<content, fresh>>

Next == \E t \in Task :
    \/ \E c \in Call : Invoke(t, c)
    \/ WriteEffect(t)
    \/ ReadEffect(t)
    \/ Return(t)

Fairness == \A t \in Task :
    /\ WF_vars(WriteEffect(t))
    /\ WF_vars(ReadEffect(t))
    /\ WF_vars(Return(t))

Spec == Init /\ [][Next]_vars

FairSpec == Spec /\ Fairness
=============================================================================
