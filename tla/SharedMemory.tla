---------------------------- MODULE SharedMemory ----------------------------
(***************************************************************************)
(* One shared memory area as HAL/memory/SharedMemory.h implements it and   *)
(* SharedMemoryManager.h calls it: a buffer, an update flag and a length   *)
(* behind a FreeRTOS mutex.  Every access to a member is a step of its own, *)
(* so that the tasks interleave as the scheduler may interleave them; the  *)
(* reads of _has_update and _written_bytes that the code does outside the  *)
(* mutex are outside it here.                                              *)
(***************************************************************************)
EXTENDS AreaContents

CONSTANTS
    Task,       \* the FreeRTOS tasks that call the area
    Free        \* the mutex when nobody holds it

ASSUME TaskAssumption == Free \notin Task

VARIABLES
    data,           \* _data
    has_update,     \* _has_update
    written_bytes,  \* _written_bytes
    mutex,          \* the task that holds _mutex, or Free
    pc,             \* where each task is in its call
    call,           \* the call a task is making
    copy,           \* what its Read took out of the area
    answer          \* the number its call returned; 0 stands for any error

area  == <<data, has_update, written_bytes>>
local == <<call, copy, answer>>
vars  == <<data, has_update, written_bytes, mutex, pc, call, copy, answer>>

Idle == [op |-> "none"]

Location == {"idle", "take", "w_clear", "w_encode", "w_flag", "w_length",
             "w_give", "r_decode", "r_flag", "r_give", "result", "returned"}

(* The locations from which a task goes on without taking the mutex first. *)
Inside == {"w_clear", "w_encode", "w_flag", "w_length", "w_give",
           "r_decode", "r_flag", "r_give"}

Init ==
    /\ data = Zeroed
    /\ has_update = FALSE
    /\ written_bytes = 0
    /\ mutex = Free
    /\ pc = [t \in Task |-> "idle"]
    /\ call = [t \in Task |-> Idle]
    /\ copy = [t \in Task |-> Blank]
    /\ answer = [t \in Task |-> 0]

Goto(t, from, to) ==
    /\ pc[t] = from
    /\ pc' = [pc EXCEPT ![t] = to]

-----------------------------------------------------------------------------
(* A task calls the manager; a call that is not admitted answers at once.  *)
Invoke(t, c) ==
    /\ c.op # "poll"
    /\ Goto(t, "idle", IF Admitted(c) THEN "take" ELSE "returned")
    /\ call' = [call EXCEPT ![t] = c]
    /\ UNCHANGED <<area, mutex, copy, answer>>

(* IsAreaDataUpdated looks at the flag without the mutex.                  *)
Poll(t) ==
    /\ Goto(t, "idle", "returned")
    /\ call' = [call EXCEPT ![t] = [op |-> "poll"]]
    /\ answer' = [answer EXCEPT ![t] = IF has_update THEN 1 ELSE 0]
    /\ UNCHANGED <<area, mutex, copy>>

(* Mutant: Read does not wait for the mutex.                               *)
TakeForWritesOnly(t) ==
    /\ mutex = Free \/ IsRead(call[t])
    /\ Goto(t, "take", IF IsWrite(call[t]) THEN "w_clear" ELSE "r_decode")
    /\ mutex' = IF IsRead(call[t]) THEN mutex ELSE t
    /\ UNCHANGED <<area, local>>

(* xSemaphoreTake(_mutex, portMAX_DELAY)                                   *)
Take(t) ==
    /\ mutex = Free
    /\ Goto(t, "take", IF IsWrite(call[t]) THEN "w_clear" ELSE "r_decode")
    /\ mutex' = t
    /\ UNCHANGED <<area, local>>

(* xSemaphoreGive(_mutex)                                                  *)
Give(t, from, to) ==
    /\ Goto(t, from, to)
    /\ mutex' = Free
    /\ UNCHANGED <<area, local>>

-----------------------------------------------------------------------------
(* Write, inside the mutex.                                                *)

Clear(t) ==             \* memset_s(_data, 0, _size)
    /\ Goto(t, "w_clear", "w_encode")
    /\ data' = Zeroed
    /\ UNCHANGED <<has_update, written_bytes, mutex, local>>

Encode(t) ==            \* pb_encode, or memcpy
    /\ Goto(t, "w_encode", "w_flag")
    /\ data' = EncodedBody(call[t])
    /\ UNCHANGED <<has_update, written_bytes, mutex, local>>

(* Mutant: the mutex is given before the length is stored.                 *)
RaiseFlagAndGive(t) ==
    /\ Goto(t, "w_flag", "w_length")
    /\ has_update' = TRUE
    /\ mutex' = Free
    /\ UNCHANGED <<data, written_bytes, local>>

RaiseFlag(t) ==
    /\ Goto(t, "w_flag", "w_length")
    /\ has_update' = TRUE
    /\ UNCHANGED <<data, written_bytes, mutex, local>>

SetLength(t) ==
    /\ Goto(t, "w_length", "w_give")
    /\ written_bytes' = EncodedLength(call[t])
    /\ UNCHANGED <<data, has_update, mutex, local>>

(* Mutant: a Write that failed to encode returns early, with the mutex.    *)
GiveAfterGoodWrite(t) ==
    /\ Goto(t, "w_give", "result")
    /\ mutex' = IF EncodeFails(call[t]) THEN mutex ELSE Free
    /\ UNCHANGED <<area, local>>

GiveAfterWrite(t) == Give(t, "w_give", "result")

-----------------------------------------------------------------------------
(* Read, inside the mutex.                                                 *)

(* Mutant: the mutex is given before the flag goes down.                   *)
DecodeAndGive(t) ==
    /\ Goto(t, "r_decode", "r_flag")
    /\ copy' = [copy EXCEPT ![t] = [body |-> data, length |-> written_bytes]]
    /\ mutex' = Free
    /\ UNCHANGED <<area, call, answer>>

Decode(t) ==            \* pb_decode, or memcpy_s
    /\ Goto(t, "r_decode", "r_flag")
    /\ copy' = [copy EXCEPT ![t] = [body |-> data, length |-> written_bytes]]
    /\ UNCHANGED <<area, mutex, call, answer>>

(* Mutant: a silent Read takes the flag down too.                          *)
LowerFlagAlways(t) ==
    /\ Goto(t, "r_flag", "r_give")
    /\ has_update' = FALSE
    /\ UNCHANGED <<data, written_bytes, mutex, local>>

LowerFlag(t) ==         \* if (!silent), and whether or not decoding failed
    /\ Goto(t, "r_flag", "r_give")
    /\ has_update' = (has_update /\ call[t].silent)
    /\ UNCHANGED <<data, written_bytes, mutex, local>>

(* Mutant: a Read that failed to decode returns early, with the mutex.     *)
GiveAfterGoodRead(t) ==
    /\ Goto(t, "r_give",
            IF Delivers(call[t].form, copy[t]) THEN "result" ELSE "returned")
    /\ mutex' = IF Delivers(call[t].form, copy[t]) THEN Free ELSE mutex
    /\ UNCHANGED <<area, local>>

(* The manager asks for the length only after a Read that succeeded.       *)
GiveAfterRead(t) ==
    Give(t, "r_give",
         IF Delivers(call[t].form, copy[t]) THEN "result" ELSE "returned")

-----------------------------------------------------------------------------
(* The result: both Write (its last line) and the manager's Read           *)
(* (GetWrittenBytes) look at _written_bytes after the mutex was given.     *)
Result(t) ==
    /\ Goto(t, "result", "returned")
    /\ answer' = [answer EXCEPT ![t] = written_bytes]
    /\ UNCHANGED <<area, mutex, call, copy>>

(* The caller has used the result and forgets the call.                    *)
Return(t) ==
    /\ Goto(t, "returned", "idle")
    /\ call' = [call EXCEPT ![t] = Idle]
    /\ copy' = [copy EXCEPT ![t] = Blank]
    /\ answer' = [answer EXCEPT ![t] = 0]
    /\ UNCHANGED <<area, mutex>>

(* What a task does once it has called, without waiting for anyone.        *)
Proceed(t) ==
    \/ Clear(t)
    \/ Encode(t)
    \/ RaiseFlag(t)
    \/ SetLength(t)
    \/ GiveAfterWrite(t)
    \/ Decode(t)
    \/ LowerFlag(t)
    \/ GiveAfterRead(t)
    \/ Result(t)
    \/ Return(t)

Next == \E t \in Task :
    \/ \E c \in Call : Invoke(t, c)
    \/ Poll(t)
    \/ Take(t)
    \/ Proceed(t)

Spec == Init /\ [][Next]_vars

(* A task inside a call is ready to run or blocked on the mutex, and no    *)
(* task spins: each one sleeps (vTaskDelay) between two rounds, so a ready *)
(* task runs.  FreeRTOS hands a mutex that is given to a waiter, and the   *)
(* sleeping leaves every waiter its turn.                                  *)
Fairness == \A t \in Task : WF_vars(Proceed(t)) /\ SF_vars(Take(t))

FairSpec == Spec /\ Fairness

-----------------------------------------------------------------------------
TypeOK ==
    /\ data \in Body
    /\ has_update \in BOOLEAN
    /\ written_bytes \in 0 .. ByteRange - 1
    /\ mutex \in Task \cup {Free}
    /\ pc \in [Task -> Location]
    /\ call \in [Task -> Call \cup {Idle}]
    /\ copy \in [Task -> Content]
    /\ answer \in [Task -> 0 .. ByteRange - 1]

(* The mutex does its work: a task between xSemaphoreTake and              *)
(* xSemaphoreGive is the one that holds it, and whoever holds it is there  *)
(* (no path of Write or Read returns with the mutex).                      *)
Exclusion == \A t \in Task : pc[t] \in Inside <=> mutex = t

(* Whenever nobody is inside, _data and _written_bytes belong to the same  *)
(* Write: no caller finds the bytes of one and the length of another.      *)
WholeWhenFree ==
    mutex = Free => [body |-> data, length |-> written_bytes] \in WholeContent

(* What a Read took out of the area is the work of one Write, whole.       *)
NoTornRead == \A t \in Task : copy[t] \in WholeContent

(* An update is never lost: the flag goes down only in the hands of a      *)
(* consuming Read that carries away the very content the flag stood for.   *)
ConsumedWithContent(t) ==
    /\ pc[t] = "r_flag"
    /\ ~call[t].silent
    /\ copy[t] = [body |-> data, length |-> written_bytes]

UpdateNeverLost ==
    [][has_update /\ ~has_update' => \E t \in Task : ConsumedWithContent(t)]_vars

(* Every call comes back, however the tasks contend for the mutex.         *)
CallsReturn == \A t \in Task : pc[t] # "idle" ~> pc[t] = "idle"

(* SharedMemoryManager.h:43-45 says of Write that it returns ESP_OK if the *)
(* write operation was successful and an error if it failed: its answer    *)
(* is about its own bytes.                                                 *)
WriteAnswersOwnOutcome ==
    \A t \in Task :
        pc[t] = "returned" /\ IsWrite(call[t]) /\ Admitted(call[t])
            => (answer[t] > 0 <=> EncodedLength(call[t]) > 0)

-----------------------------------------------------------------------------
(* The refinement.  A Write takes effect when it clears the buffer: from   *)
(* there on the holder of the mutex alone decides what the area holds.  A  *)
(* Read takes effect when it copies.                                       *)

Writing  == {"w_encode", "w_flag", "w_length"}
Flagging == {"w_encode", "w_flag"}

HolderAt(locations) == mutex # Free /\ pc[mutex] \in locations

AbsContent ==
    IF HolderAt(Writing)
    THEN Encoded(call[mutex])
    ELSE [body |-> data, length |-> written_bytes]

AbsFresh ==
    CASE HolderAt(Flagging) -> TRUE
      [] HolderAt({"r_flag"}) -> has_update /\ call[mutex].silent
      [] OTHER -> has_update

AbsPhase ==
    [t \in Task |->
        CASE pc[t] = "idle" -> "idle"
          [] pc[t] \in {"take", "w_clear", "r_decode"} -> "pending"
          [] OTHER -> "done"]

(* The area is the atomic register AreaRegister describes.                 *)
Register == INSTANCE AreaRegister
                WITH content <- AbsContent, fresh <- AbsFresh, phase <- AbsPhase

IsRegister == Register!FairSpec
=============================================================================
