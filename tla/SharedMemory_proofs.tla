------------------------ MODULE SharedMemory_proofs ------------------------
(***************************************************************************)
(* Theorems about SharedMemory, for any set of tasks, any values and any   *)
(* sizes: type correctness, mutual exclusion, the consistency of bytes and *)
(* length, that no update is lost, and that every step of the area is a    *)
(* step of the atomic register AreaRegister or leaves it unchanged.        *)
(***************************************************************************)
EXTENDS SharedMemory, TLAPS

Pair == [body |-> data, length |-> written_bytes]

(* A task is where its call can have brought it.                           *)
AtOwnCall ==
    \A t \in Task :
        /\ pc[t] = "take" => IsWrite(call[t]) \/ IsRead(call[t])
        /\ pc[t] \in {"w_clear", "w_encode", "w_flag", "w_length", "w_give"}
               => call[t] \in WriteCall
        /\ pc[t] \in {"r_decode", "r_flag", "r_give"} => call[t] \in ReadCall

(* What the holder of the mutex has already put in place.                  *)
Progress ==
    \A t \in Task :
        /\ pc[t] \in {"w_flag", "w_length", "w_give"} => data = EncodedBody(call[t])
        /\ pc[t] = "w_give" => written_bytes = EncodedLength(call[t])
        /\ pc[t] = "w_length" => has_update
        /\ pc[t] = "r_flag" => copy[t] = Pair

WholeUnlessWriting == ~HolderAt(Writing) => Pair \in WholeContent

IInv ==
    /\ TypeOK
    /\ Exclusion
    /\ AtOwnCall
    /\ Progress
    /\ WholeUnlessWriting
    /\ NoTornRead

-----------------------------------------------------------------------------
(* What a Write leaves is a content of the area's type.                    *)
LEMMA EncodedInContent ==
    ASSUME NEW c \in WriteCall
    PROVE  /\ EncodedBody(c) \in Body
           /\ EncodedLength(c) \in 0 .. ByteRange - 1
           /\ Encoded(c) \in WholeContent
<1>1. c.value \in Value
    BY ContentsAssumption DEF WriteCall
<1>2. Size[c.value] \in Nat
    BY <1>1, ContentsAssumption
<1>3. EncodedBody(c) \in Body
    BY <1>1 DEF EncodedBody, Body
<1>4. EncodedLength(c) \in 0 .. ByteRange - 1
    BY ONLY <1>2 DEF EncodedLength, Wrap, ByteRange
<1>5. Encoded(c) \in WholeContent
    BY DEF WholeContent
<1> QED BY <1>3, <1>4, <1>5

(* The initial content is whole and well typed.                            *)
LEMMA BlankInContent == Blank \in Content /\ Blank \in WholeContent
BY DEF Blank, Content, Body, WholeContent, ByteRange

(* A fresh area: empty, whole, and in nobody's hands.                      *)
LEMMA InitInv == Init => IInv
<1> SUFFICES ASSUME Init PROVE IInv
    OBVIOUS
<1>1. TypeOK
  <2>1. data \in Body /\ has_update \in BOOLEAN
    BY DEF Init, Body
  <2>2. written_bytes \in 0 .. ByteRange - 1 /\ mutex \in Task \cup {Free}
    BY DEF Init, ByteRange
  <2>3. pc \in [Task -> Location]
    BY DEF Init, Location
  <2>4. call \in [Task -> Call \cup {Idle}]
    BY DEF Init
  <2>5. copy \in [Task -> Content]
    BY BlankInContent DEF Init
  <2>6. answer \in [Task -> 0 .. ByteRange - 1]
    BY DEF Init, ByteRange
  <2> QED BY <2>1, <2>2, <2>3, <2>4, <2>5, <2>6 DEF TypeOK
<1>2. Exclusion
    BY TaskAssumption DEF Init, Exclusion, Inside
<1>3. AtOwnCall /\ Progress
    BY DEF Init, AtOwnCall, Progress
<1>4. WholeUnlessWriting
    BY BlankInContent DEF Init, WholeUnlessWriting, Pair, Blank
<1>5. NoTornRead
    BY BlankInContent DEF Init, NoTornRead
<1> QED BY <1>1, <1>2, <1>3, <1>4, <1>5 DEF IInv

(* A call brings the task to the mutex, or answers at once.                *)
LEMMA InvokeInv ==
    ASSUME NEW t \in Task, NEW c \in Call, IInv, Invoke(t, c)
    PROVE  IInv'
<1> USE DEF IInv, Invoke, Goto, area, local
<1>1. TypeOK'
    BY DEF TypeOK, Location
<1>2. Exclusion'
    BY TaskAssumption DEF TypeOK, Exclusion, Inside
<1>3. AtOwnCall'
    BY DEF TypeOK, AtOwnCall, Admitted
<1>4. Progress'
    BY TaskAssumption DEF TypeOK, Exclusion, Inside, AtOwnCall, Progress, Pair
<1>5. WholeUnlessWriting'
    BY TaskAssumption DEF TypeOK, Exclusion, Inside, AtOwnCall, WholeUnlessWriting, HolderAt, Writing, Pair
<1>6. NoTornRead'
    BY DEF TypeOK, NoTornRead
<1> QED BY <1>1, <1>2, <1>3, <1>4, <1>5, <1>6

(* A poll only looks.                                                      *)
LEMMA PollInv ==
    ASSUME NEW t \in Task, IInv, Poll(t)
    PROVE  IInv'
<1> USE DEF IInv, Poll, Goto, area, local
<1>1. TypeOK'
  <2>1. [op |-> "poll"] \in Call
    BY DEF Call, PollCall
  <2> QED BY <2>1 DEF TypeOK, Location, ByteRange
<1>2. Exclusion'
    BY TaskAssumption DEF TypeOK, Exclusion, Inside
<1>3. AtOwnCall'
    BY DEF TypeOK, AtOwnCall
<1>4. Progress'
    BY TaskAssumption DEF TypeOK, Exclusion, Inside, AtOwnCall, Progress, Pair
<1>5. WholeUnlessWriting'
    BY TaskAssumption DEF TypeOK, Exclusion, Inside, AtOwnCall, WholeUnlessWriting, HolderAt, Writing, Pair
<1>6. NoTornRead'
    BY DEF TypeOK, NoTornRead
<1> QED BY <1>1, <1>2, <1>3, <1>4, <1>5, <1>6

(* The mutex was free, so nobody else is inside, and the area is whole.    *)
LEMMA TakeInv ==
    ASSUME NEW t \in Task, IInv, Take(t)
    PROVE  IInv'
<1> USE DEF IInv, Take, Goto, area, local
<1>1. TypeOK'
    BY DEF TypeOK, Location
<1>2. Exclusion'
    BY TaskAssumption DEF TypeOK, Exclusion, Inside
<1>3. AtOwnCall'
  <2>1. IsWrite(call[t]) \/ IsRead(call[t])
    BY DEF AtOwnCall
  <2>2. call[t] \in Call \cup {Idle}
    BY DEF TypeOK
  <2>3. CASE IsWrite(call[t])
    <3>1. call[t] \in WriteCall
        BY <2>2, <2>3 DEF Call, ReadCall, PollCall, IsWrite, Idle
    <3> QED BY <2>3, <3>1 DEF TypeOK, AtOwnCall
  <2>4. CASE ~IsWrite(call[t])
    <3>1. call[t] \in ReadCall
        BY <2>1, <2>2, <2>4 DEF Call, PollCall, IsWrite, IsRead, Idle, WriteCall
    <3> QED BY <2>4, <3>1 DEF TypeOK, AtOwnCall
  <2> QED BY <2>3, <2>4
<1>4. Progress'
    BY TaskAssumption DEF TypeOK, Exclusion, Inside, AtOwnCall, Progress, Pair
<1>5. WholeUnlessWriting'
    BY TaskAssumption DEF TypeOK, Exclusion, Inside, AtOwnCall, WholeUnlessWriting, HolderAt, Writing, Pair
<1>6. NoTornRead'
    BY DEF TypeOK, NoTornRead
<1> QED BY <1>1, <1>2, <1>3, <1>4, <1>5, <1>6

(* From here to the length the area is not whole, and t holds the mutex.   *)
LEMMA ClearInv ==
    ASSUME NEW t \in Task, IInv, Clear(t)
    PROVE  IInv'
<1> USE DEF IInv, Clear, Goto, area, local
<1>1. TypeOK'
    BY DEF TypeOK, Location, Body
<1>2. Exclusion'
    BY TaskAssumption DEF TypeOK, Exclusion, Inside
<1>3. AtOwnCall'
    BY DEF TypeOK, AtOwnCall
<1>4. Progress'
    BY TaskAssumption DEF TypeOK, Exclusion, Inside, AtOwnCall, Progress, Pair
<1>5. WholeUnlessWriting'
    BY TaskAssumption DEF TypeOK, Exclusion, Inside, AtOwnCall, WholeUnlessWriting, HolderAt, Writing, Pair
<1>6. NoTornRead'
    BY DEF TypeOK, NoTornRead
<1> QED BY <1>1, <1>2, <1>3, <1>4, <1>5, <1>6

(* The bytes of the call are in place.                                     *)
LEMMA EncodeInv ==
    ASSUME NEW t \in Task, IInv, Encode(t)
    PROVE  IInv'
<1> USE DEF IInv, Encode, Goto, area, local
<1>1. TypeOK'
  <2>1. EncodedBody(call[t]) \in Body
    BY EncodedInContent DEF AtOwnCall
  <2> QED BY <2>1 DEF TypeOK, Location
<1>2. Exclusion'
    BY TaskAssumption DEF TypeOK, Exclusion, Inside
<1>3. AtOwnCall'
    BY DEF TypeOK, AtOwnCall
<1>4. Progress'
    BY TaskAssumption DEF TypeOK, Exclusion, Inside, AtOwnCall, Progress, Pair
<1>5. WholeUnlessWriting'
    BY TaskAssumption DEF TypeOK, Exclusion, Inside, AtOwnCall, WholeUnlessWriting, HolderAt, Writing, Pair
<1>6. NoTornRead'
    BY DEF TypeOK, NoTornRead
<1> QED BY <1>1, <1>2, <1>3, <1>4, <1>5, <1>6

(* The flag goes up while the old length is still stored.                  *)
LEMMA RaiseFlagInv ==
    ASSUME NEW t \in Task, IInv, RaiseFlag(t)
    PROVE  IInv'
<1> USE DEF IInv, RaiseFlag, Goto, area, local
<1>1. TypeOK'
    BY DEF TypeOK, Location
<1>2. Exclusion'
    BY TaskAssumption DEF TypeOK, Exclusion, Inside
<1>3. AtOwnCall'
    BY DEF TypeOK, AtOwnCall
<1>4. Progress'
    BY TaskAssumption DEF TypeOK, Exclusion, Inside, AtOwnCall, Progress, Pair
<1>5. WholeUnlessWriting'
    BY TaskAssumption DEF TypeOK, Exclusion, Inside, AtOwnCall, WholeUnlessWriting, HolderAt, Writing, Pair
<1>6. NoTornRead'
    BY DEF TypeOK, NoTornRead
<1> QED BY <1>1, <1>2, <1>3, <1>4, <1>5, <1>6

(* With the length the area is whole again, as this Write's content.       *)
LEMMA SetLengthInv ==
    ASSUME NEW t \in Task, IInv, SetLength(t)
    PROVE  IInv'
<1> USE DEF IInv, SetLength, Goto, area, local
<1>1. TypeOK'
  <2>1. EncodedLength(call[t]) \in 0 .. ByteRange - 1
    BY EncodedInContent DEF AtOwnCall
  <2> QED BY <2>1 DEF TypeOK, Location
<1>2. Exclusion'
    BY TaskAssumption DEF TypeOK, Exclusion, Inside
<1>3. AtOwnCall'
    BY DEF TypeOK, AtOwnCall
<1>4. Progress'
    BY TaskAssumption DEF TypeOK, Exclusion, Inside, AtOwnCall, Progress, Pair
<1>5. WholeUnlessWriting'
  <2>1. Pair' = Encoded(call[t])
    BY DEF Progress, Pair, Encoded
  <2>2. Encoded(call[t]) \in WholeContent
    BY EncodedInContent DEF AtOwnCall
  <2> QED BY <2>1, <2>2 DEF WholeUnlessWriting, WholeContent
<1>6. NoTornRead'
    BY DEF TypeOK, NoTornRead
<1> QED BY <1>1, <1>2, <1>3, <1>4, <1>5, <1>6

(* A writer leaves the area whole.                                         *)
LEMMA GiveAfterWriteInv ==
    ASSUME NEW t \in Task, IInv, GiveAfterWrite(t)
    PROVE  IInv'
<1> USE DEF IInv, GiveAfterWrite, Give, Goto, area, local
<1>1. TypeOK'
    BY DEF TypeOK, Location
<1>2. Exclusion'
    BY TaskAssumption DEF TypeOK, Exclusion, Inside
<1>3. AtOwnCall'
    BY DEF TypeOK, AtOwnCall
<1>4. Progress'
    BY TaskAssumption DEF TypeOK, Exclusion, Inside, AtOwnCall, Progress, Pair
<1>5. WholeUnlessWriting'
    BY TaskAssumption DEF TypeOK, Exclusion, Inside, AtOwnCall, WholeUnlessWriting, HolderAt, Writing, Pair
<1>6. NoTornRead'
    BY DEF TypeOK, NoTornRead
<1> QED BY <1>1, <1>2, <1>3, <1>4, <1>5, <1>6

(* What t copies is whole: nobody is writing, t holds the mutex.           *)
LEMMA DecodeInv ==
    ASSUME NEW t \in Task, IInv, Decode(t)
    PROVE  IInv'
<1> USE DEF IInv, Decode, Goto, area, local
<1>1. TypeOK'
  <2>1. Pair \in Content
    BY DEF TypeOK, Content, Pair
  <2> QED BY <2>1 DEF TypeOK, Location, Pair
<1>2. Exclusion'
    BY TaskAssumption DEF TypeOK, Exclusion, Inside
<1>3. AtOwnCall'
    BY DEF TypeOK, AtOwnCall
<1>4. Progress'
    BY TaskAssumption DEF TypeOK, Exclusion, Inside, AtOwnCall, Progress, Pair
<1>5. WholeUnlessWriting'
    BY TaskAssumption DEF TypeOK, Exclusion, Inside, AtOwnCall, WholeUnlessWriting, HolderAt, Writing, Pair
<1>6. NoTornRead'
  <2>1. ~HolderAt(Writing)
    BY DEF TypeOK, Exclusion, Inside, HolderAt, Writing
  <2>2. Pair \in WholeContent
    BY <2>1 DEF WholeUnlessWriting
  <2> QED BY <2>2 DEF TypeOK, NoTornRead, Pair, WholeContent
<1> QED BY <1>1, <1>2, <1>3, <1>4, <1>5, <1>6

(* The flag goes down in the hands of t.                                   *)
LEMMA LowerFlagInv ==
    ASSUME NEW t \in Task, IInv, LowerFlag(t)
    PROVE  IInv'
<1> USE DEF IInv, LowerFlag, Goto, area, local
<1>1. TypeOK'
    BY DEF TypeOK, Location
<1>2. Exclusion'
    BY TaskAssumption DEF TypeOK, Exclusion, Inside
<1>3. AtOwnCall'
    BY DEF TypeOK, AtOwnCall
<1>4. Progress'
    BY TaskAssumption DEF TypeOK, Exclusion, Inside, AtOwnCall, Progress, Pair
<1>5. WholeUnlessWriting'
    BY TaskAssumption DEF TypeOK, Exclusion, Inside, AtOwnCall, WholeUnlessWriting, HolderAt, Writing, Pair
<1>6. NoTornRead'
    BY DEF TypeOK, NoTornRead
<1> QED BY <1>1, <1>2, <1>3, <1>4, <1>5, <1>6

(* A reader leaves the area as it found it.                                *)
LEMMA GiveAfterReadInv ==
    ASSUME NEW t \in Task, IInv, GiveAfterRead(t)
    PROVE  IInv'
<1> USE DEF IInv, GiveAfterRead, Give, Goto, area, local
<1>1. TypeOK'
    BY DEF TypeOK, Location
<1>2. Exclusion'
    BY TaskAssumption DEF TypeOK, Exclusion, Inside
<1>3. AtOwnCall'
    BY DEF TypeOK, AtOwnCall
<1>4. Progress'
    BY TaskAssumption DEF TypeOK, Exclusion, Inside, AtOwnCall, Progress, Pair
<1>5. WholeUnlessWriting'
    BY TaskAssumption DEF TypeOK, Exclusion, Inside, AtOwnCall, WholeUnlessWriting, HolderAt, Writing, Pair
<1>6. NoTornRead'
    BY DEF TypeOK, NoTornRead
<1> QED BY <1>1, <1>2, <1>3, <1>4, <1>5, <1>6

(* The late look at the length changes only the answer.                    *)
LEMMA ResultInv ==
    ASSUME NEW t \in Task, IInv, Result(t)
    PROVE  IInv'
<1> USE DEF IInv, Result, Goto, area, local
<1>1. TypeOK'
    BY DEF TypeOK, Location
<1>2. Exclusion'
    BY TaskAssumption DEF TypeOK, Exclusion, Inside
<1>3. AtOwnCall'
    BY DEF TypeOK, AtOwnCall
<1>4. Progress'
    BY TaskAssumption DEF TypeOK, Exclusion, Inside, AtOwnCall, Progress, Pair
<1>5. WholeUnlessWriting'
    BY TaskAssumption DEF TypeOK, Exclusion, Inside, AtOwnCall, WholeUnlessWriting, HolderAt, Writing, Pair
<1>6. NoTornRead'
    BY DEF TypeOK, NoTornRead
<1> QED BY <1>1, <1>2, <1>3, <1>4, <1>5, <1>6

(* A task that is done forgets its call.                                   *)
LEMMA ReturnInv ==
    ASSUME NEW t \in Task, IInv, Return(t)
    PROVE  IInv'
<1> USE DEF IInv, Return, Goto, area, local
<1>1. TypeOK'
    BY BlankInContent DEF TypeOK, Location, ByteRange
<1>2. Exclusion'
    BY TaskAssumption DEF TypeOK, Exclusion, Inside
<1>3. AtOwnCall'
    BY DEF TypeOK, AtOwnCall
<1>4. Progress'
    BY TaskAssumption DEF TypeOK, Exclusion, Inside, AtOwnCall, Progress, Pair
<1>5. WholeUnlessWriting'
    BY TaskAssumption DEF TypeOK, Exclusion, Inside, AtOwnCall, WholeUnlessWriting, HolderAt, Writing, Pair
<1>6. NoTornRead'
    BY BlankInContent DEF TypeOK, NoTornRead, WholeContent
<1> QED BY <1>1, <1>2, <1>3, <1>4, <1>5, <1>6

(* Every step keeps the invariant.                                         *)
LEMMA NextInv == IInv /\ [Next]_vars => IInv'
<1> SUFFICES ASSUME IInv, [Next]_vars PROVE IInv'
    OBVIOUS
<1>1. CASE UNCHANGED vars
    BY <1>1 DEF vars, IInv, TypeOK, Exclusion, AtOwnCall, Progress, Pair,
                WholeUnlessWriting, HolderAt, NoTornRead
<1>2. ASSUME NEW t \in Task, NEW c \in Call, Invoke(t, c) PROVE IInv'
    BY <1>2, InvokeInv
<1>3. ASSUME NEW t \in Task, Poll(t) PROVE IInv'
    BY <1>3, PollInv
<1>4. ASSUME NEW t \in Task, Take(t) PROVE IInv'
    BY <1>4, TakeInv
<1>5. ASSUME NEW t \in Task, Proceed(t) PROVE IInv'
    BY <1>5, ClearInv, EncodeInv, RaiseFlagInv, SetLengthInv, GiveAfterWriteInv,
       DecodeInv, LowerFlagInv, GiveAfterReadInv, ResultInv, ReturnInv DEF Proceed
<1> QED BY <1>1, <1>2, <1>3, <1>4, <1>5 DEF Next

(* IInv holds in every reachable state, whatever the tasks call.           *)
THEOREM Invariant == Spec => []IInv
<1>1. Init => IInv
    BY InitInv
<1>2. IInv /\ [Next]_vars => IInv'
    BY NextInv
<1> QED BY <1>1, <1>2, PTL DEF Spec

(* The variables keep their types: in particular the length stays within a *)
(* byte, since every store into _written_bytes wraps.                      *)
THEOREM TypeCorrect == Spec => []TypeOK
<1>1. IInv => TypeOK
    BY DEF IInv
<1> QED BY <1>1, Invariant, PTL

(* The mutex of an area excludes: exactly its holder is inside.            *)
THEOREM MutualExclusion == Spec => []Exclusion
<1>1. IInv => Exclusion
    BY DEF IInv
<1> QED BY <1>1, Invariant, PTL

(* Bytes and length agree whenever the mutex of the area is free.          *)
THEOREM Consistency == Spec => []WholeWhenFree
<1>1. IInv => WholeWhenFree
    BY DEF IInv, WholeUnlessWriting, HolderAt, WholeWhenFree, Pair
<1> QED BY <1>1, Invariant, PTL

(* No Read mixes the bytes or the length of two Writes.                    *)
THEOREM WholeReads == Spec => []NoTornRead
<1>1. IInv => NoTornRead
    BY DEF IInv
<1> QED BY <1>1, Invariant, PTL

(* The update flag goes down only with the content it announces in the     *)
(* hands of a consuming Read.                                              *)
THEOREM NoLostUpdate == Spec => UpdateNeverLost
<1> DEFINE Kept == has_update /\ ~has_update' => \E t \in Task : ConsumedWithContent(t)
<1>1. IInv /\ [Next]_vars => [Kept]_vars
  <2> SUFFICES ASSUME IInv, Next, has_update, ~has_update'
               PROVE  \E t \in Task : ConsumedWithContent(t)
    OBVIOUS
  <2>1. PICK t \in Task : LowerFlag(t)
    BY DEF Next, Proceed, Invoke, Poll, Take, Give, Clear, Encode, RaiseFlag,
           SetLength, GiveAfterWrite, Decode, GiveAfterRead, Result, Return,
           area, IInv, TypeOK
  <2>2. ConsumedWithContent(t)
    BY <2>1 DEF LowerFlag, Goto, IInv, Progress, Pair, ConsumedWithContent
  <2> QED BY <2>2
<1> QED BY <1>1, Invariant, PTL DEF Spec, UpdateNeverLost

-----------------------------------------------------------------------------
(* The refinement.                                                         *)

(* AreaRegister extends AreaContents too: the instance's calls and contents *)
(* are this module's.                                                      *)
LEMMA SameContents ==
    /\ Register!Blank = Blank
    /\ Register!Idle = Idle
    /\ Register!Call = Call
    /\ \A c : Register!IsWrite(c) = IsWrite(c)
    /\ \A c : Register!IsRead(c) = IsRead(c)
    /\ \A c : Register!Admitted(c) = Admitted(c)
    /\ \A c : Register!Encoded(c) = Encoded(c)
<1>1. Register!Blank = Blank /\ Register!Idle = Idle
    BY DEF Register!Blank, Blank, Register!Idle, Idle
<1>2. Register!Call = Call
    BY DEF Register!Call, Call, Register!WriteCall, WriteCall, Register!ReadCall,
           ReadCall, Register!Form, Form, Register!PollCall, PollCall
<1>3. /\ \A c : Register!IsWrite(c) = IsWrite(c)
      /\ \A c : Register!IsRead(c) = IsRead(c)
    BY DEF Register!IsWrite, IsWrite, Register!IsRead, IsRead
<1>4. \A c : Register!Admitted(c) = Admitted(c)
    BY DEF Register!Admitted, Admitted, Register!IsWrite, IsWrite, Register!IsRead, IsRead
<1>5. \A c : Register!Encoded(c) = Encoded(c)
    BY DEF Register!Encoded, Encoded, Register!EncodedBody, EncodedBody,
           Register!EncodedLength, EncodedLength, Register!EncodeFails, EncodeFails,
           Register!Wrap, Wrap, Register!ByteRange, ByteRange
<1> QED BY <1>1, <1>2, <1>3, <1>4, <1>5

(* The fresh area is the fresh register.                                   *)
LEMMA InitRefines == Init => Register!Init
<1> SUFFICES ASSUME Init PROVE Register!Init
    OBVIOUS
<1>1. AbsContent = Blank
    BY DEF Init, AbsContent, HolderAt, Blank
<1>2. AbsFresh = FALSE
    BY DEF Init, AbsFresh, HolderAt
<1>3. AbsPhase = [t \in Task |-> "idle"]
    BY DEF Init, AbsPhase
<1> QED BY SameContents, <1>1, <1>2, <1>3 DEF Init, Register!Init, Idle, Register!Idle

(* Taking the mutex is invisible: the call stays pending.                  *)
LEMMA TakeRefines ==
    ASSUME NEW t \in Task, IInv, IInv', Take(t)
    PROVE  UNCHANGED Register!vars
<1> USE DEF IInv, TypeOK, Take, Goto, area, local
<1>1. AbsPhase' = AbsPhase
    BY DEF AbsPhase
<1>2. AbsContent' = AbsContent
    BY TaskAssumption DEF Exclusion, Inside, AtOwnCall, Progress, AbsContent, HolderAt, Writing, Encoded
<1>3. AbsFresh' = AbsFresh
    BY TaskAssumption DEF Exclusion, Inside, AtOwnCall, Progress, AbsFresh, HolderAt, Flagging
<1> QED BY <1>1, <1>2, <1>3 DEF Register!vars

(* The register holds the call's content since Clear.                      *)
LEMMA EncodeRefines ==
    ASSUME NEW t \in Task, IInv, IInv', Encode(t)
    PROVE  UNCHANGED Register!vars
<1> USE DEF IInv, TypeOK, Encode, Goto, area, local
<1>1. AbsPhase' = AbsPhase
    BY DEF AbsPhase
<1>2. AbsContent' = AbsContent
    BY TaskAssumption DEF Exclusion, Inside, AtOwnCall, Progress, AbsContent, HolderAt, Writing, Encoded
<1>3. AbsFresh' = AbsFresh
    BY TaskAssumption DEF Exclusion, Inside, AtOwnCall, Progress, AbsFresh, HolderAt, Flagging
<1> QED BY <1>1, <1>2, <1>3 DEF Register!vars

(* The register is fresh since Clear.                                      *)
LEMMA RaiseFlagRefines ==
    ASSUME NEW t \in Task, IInv, IInv', RaiseFlag(t)
    PROVE  UNCHANGED Register!vars
<1> USE DEF IInv, TypeOK, RaiseFlag, Goto, area, local
<1>1. AbsPhase' = AbsPhase
    BY DEF AbsPhase
<1>2. AbsContent' = AbsContent
    BY TaskAssumption DEF Exclusion, Inside, AtOwnCall, Progress, AbsContent, HolderAt, Writing, Encoded
<1>3. AbsFresh' = AbsFresh
    BY TaskAssumption DEF Exclusion, Inside, AtOwnCall, Progress, AbsFresh, HolderAt, Flagging
<1> QED BY <1>1, <1>2, <1>3 DEF Register!vars

(* The length completes what the register holds since Clear.               *)
LEMMA SetLengthRefines ==
    ASSUME NEW t \in Task, IInv, IInv', SetLength(t)
    PROVE  UNCHANGED Register!vars
<1> USE DEF IInv, TypeOK, SetLength, Goto, area, local
<1>1. AbsPhase' = AbsPhase
    BY DEF AbsPhase
<1>2. AbsContent' = AbsContent
    BY TaskAssumption DEF Exclusion, Inside, AtOwnCall, Progress, AbsContent, HolderAt, Writing, Encoded
<1>3. AbsFresh' = AbsFresh
    BY TaskAssumption DEF Exclusion, Inside, AtOwnCall, Progress, AbsFresh, HolderAt, Flagging
<1> QED BY <1>1, <1>2, <1>3 DEF Register!vars

(* Giving the mutex after a Write is invisible.                            *)
LEMMA GiveAfterWriteRefines ==
    ASSUME NEW t \in Task, IInv, IInv', GiveAfterWrite(t)
    PROVE  UNCHANGED Register!vars
<1> USE DEF IInv, TypeOK, GiveAfterWrite, Give, Goto, area, local
<1>1. AbsPhase' = AbsPhase
    BY DEF AbsPhase
<1>2. AbsContent' = AbsContent
    BY TaskAssumption DEF Exclusion, Inside, AtOwnCall, Progress, AbsContent, HolderAt, Writing, Encoded
<1>3. AbsFresh' = AbsFresh
    BY TaskAssumption DEF Exclusion, Inside, AtOwnCall, Progress, AbsFresh, HolderAt, Flagging
<1> QED BY <1>1, <1>2, <1>3 DEF Register!vars

(* The register is not fresh any more since Decode.                        *)
LEMMA LowerFlagRefines ==
    ASSUME NEW t \in Task, IInv, IInv', LowerFlag(t)
    PROVE  UNCHANGED Register!vars
<1> USE DEF IInv, TypeOK, LowerFlag, Goto, area, local
<1>1. AbsPhase' = AbsPhase
    BY DEF AbsPhase
<1>2. AbsContent' = AbsContent
    BY TaskAssumption DEF Exclusion, Inside, AtOwnCall, Progress, AbsContent, HolderAt, Writing, Encoded
<1>3. AbsFresh' = AbsFresh
    BY TaskAssumption DEF Exclusion, Inside, AtOwnCall, Progress, AbsFresh, HolderAt, Flagging
<1> QED BY <1>1, <1>2, <1>3 DEF Register!vars

(* Giving the mutex after a Read is invisible.                             *)
LEMMA GiveAfterReadRefines ==
    ASSUME NEW t \in Task, IInv, IInv', GiveAfterRead(t)
    PROVE  UNCHANGED Register!vars
<1> USE DEF IInv, TypeOK, GiveAfterRead, Give, Goto, area, local
<1>1. AbsPhase' = AbsPhase
    BY DEF AbsPhase
<1>2. AbsContent' = AbsContent
    BY TaskAssumption DEF Exclusion, Inside, AtOwnCall, Progress, AbsContent, HolderAt, Writing, Encoded
<1>3. AbsFresh' = AbsFresh
    BY TaskAssumption DEF Exclusion, Inside, AtOwnCall, Progress, AbsFresh, HolderAt, Flagging
<1> QED BY <1>1, <1>2, <1>3 DEF Register!vars

(* The answer is no part of the register.                                  *)
LEMMA ResultRefines ==
    ASSUME NEW t \in Task, IInv, IInv', Result(t)
    PROVE  UNCHANGED Register!vars
<1> USE DEF IInv, TypeOK, Result, Goto, area, local
<1>1. AbsPhase' = AbsPhase
    BY DEF AbsPhase
<1>2. AbsContent' = AbsContent
    BY TaskAssumption DEF Exclusion, Inside, AtOwnCall, Progress, AbsContent, HolderAt, Writing, Encoded
<1>3. AbsFresh' = AbsFresh
    BY TaskAssumption DEF Exclusion, Inside, AtOwnCall, Progress, AbsFresh, HolderAt, Flagging
<1> QED BY <1>1, <1>2, <1>3 DEF Register!vars

(* A call is a call of the register.                                       *)
LEMMA InvokeRefines ==
    ASSUME NEW t \in Task, NEW c \in Call, IInv, IInv', Invoke(t, c)
    PROVE  Register!Invoke(t, c)
<1> USE DEF IInv, TypeOK, Invoke, Goto, area, local
<1>1. AbsPhase' = [AbsPhase EXCEPT ![t] = IF Admitted(c) THEN "pending" ELSE "done"]
    BY DEF AbsPhase
<1>2. AbsContent' = AbsContent
    BY TaskAssumption DEF Exclusion, Inside, AtOwnCall, Progress, AbsContent, HolderAt, Writing, Encoded
<1>3. AbsFresh' = AbsFresh
    BY TaskAssumption DEF Exclusion, Inside, AtOwnCall, Progress, AbsFresh, HolderAt, Flagging
<1> QED BY SameContents, <1>1, <1>2, <1>3 DEF Register!Invoke, AbsPhase

(* A poll is a call of the register that is done at once.                  *)
LEMMA PollRefines ==
    ASSUME NEW t \in Task, IInv, IInv', Poll(t)
    PROVE  Register!Invoke(t, [op |-> "poll"])
<1> USE DEF IInv, TypeOK, Poll, Goto, area, local
<1>1. AbsPhase' = [AbsPhase EXCEPT ![t] = "done"]
    BY DEF AbsPhase
<1>2. AbsContent' = AbsContent
    BY TaskAssumption DEF Exclusion, Inside, AtOwnCall, Progress, AbsContent, HolderAt, Writing, Encoded
<1>3. AbsFresh' = AbsFresh
    BY TaskAssumption DEF Exclusion, Inside, AtOwnCall, Progress, AbsFresh, HolderAt, Flagging
<1>4. ~Admitted([op |-> "poll"])
    BY DEF Admitted, IsWrite, IsRead
<1> QED BY SameContents, <1>1, <1>2, <1>3, <1>4 DEF Register!Invoke, AbsPhase

(* A Write takes effect as it clears the buffer.                           *)
LEMMA ClearRefines ==
    ASSUME NEW t \in Task, IInv, IInv', Clear(t)
    PROVE  Register!WriteEffect(t)
<1> USE DEF IInv, TypeOK, Clear, Goto, area, local
<1>1. AbsPhase' = [AbsPhase EXCEPT ![t] = "done"]
    BY DEF AbsPhase
<1>2. AbsContent' = Encoded(call[t])
    BY TaskAssumption DEF Exclusion, Inside, AtOwnCall, Progress, AbsContent, HolderAt, Writing, Encoded
<1>3. AbsFresh' = TRUE
    BY TaskAssumption DEF Exclusion, Inside, AtOwnCall, Progress, AbsFresh, HolderAt, Flagging
<1> QED BY SameContents, <1>1, <1>2, <1>3 DEF AtOwnCall, WriteCall, IsWrite, AbsPhase, Register!WriteEffect

(* A Read takes effect as it copies.                                       *)
LEMMA DecodeRefines ==
    ASSUME NEW t \in Task, IInv, IInv', Decode(t)
    PROVE  Register!ReadEffect(t)
<1> USE DEF IInv, TypeOK, Decode, Goto, area, local
<1>1. AbsPhase' = [AbsPhase EXCEPT ![t] = "done"]
    BY DEF AbsPhase
<1>2. AbsContent' = AbsContent
    BY TaskAssumption DEF Exclusion, Inside, AtOwnCall, Progress, AbsContent, HolderAt, Writing, Encoded
<1>3. AbsFresh' = (AbsFresh /\ call[t].silent)
    BY TaskAssumption DEF Exclusion, Inside, AtOwnCall, Progress, AbsFresh, HolderAt, Flagging
<1>4. AbsContent = Pair
    BY TaskAssumption DEF Exclusion, Inside, AbsContent, HolderAt, Writing, Pair
<1>5. IsRead(call[t])
    BY DEF AtOwnCall, ReadCall, IsRead
<1> QED BY SameContents, <1>1, <1>2, <1>3, <1>4, <1>5 DEF Register!ReadEffect, Pair, AbsPhase

(* A return is a return of the register.                                   *)
LEMMA ReturnRefines ==
    ASSUME NEW t \in Task, IInv, IInv', Return(t)
    PROVE  Register!Return(t)
<1> USE DEF IInv, TypeOK, Return, Goto, area, local
<1>1. AbsPhase' = [AbsPhase EXCEPT ![t] = "idle"]
    BY DEF AbsPhase
<1>2. AbsContent' = AbsContent
    BY TaskAssumption DEF Exclusion, Inside, AtOwnCall, Progress, AbsContent, HolderAt, Writing, Encoded
<1>3. AbsFresh' = AbsFresh
    BY TaskAssumption DEF Exclusion, Inside, AtOwnCall, Progress, AbsFresh, HolderAt, Flagging
<1> QED BY SameContents, <1>1, <1>2, <1>3 DEF Register!Return, Register!Idle, Idle, AbsPhase

(* Every step is a step of the register, or leaves it alone.               *)
LEMMA StepRefines ==
    IInv /\ IInv' /\ [Next]_vars => [Register!Next]_(Register!vars)
<1> SUFFICES ASSUME IInv, IInv', [Next]_vars
             PROVE  Register!Next \/ UNCHANGED Register!vars
    OBVIOUS
<1>1. CASE UNCHANGED vars
    BY <1>1 DEF vars, Register!vars, AbsContent, AbsFresh, AbsPhase, HolderAt
<1>2. ASSUME NEW t \in Task, NEW c \in Call, Invoke(t, c) PROVE Register!Next
    BY <1>2, InvokeRefines, SameContents DEF Register!Next
<1>3. ASSUME NEW t \in Task, Poll(t) PROVE Register!Next
  <2>1. [op |-> "poll"] \in Call
    BY DEF Call, PollCall
  <2> QED BY <1>3, <2>1, PollRefines, SameContents DEF Register!Next
<1>4. ASSUME NEW t \in Task, Take(t) PROVE UNCHANGED Register!vars
    BY <1>4, TakeRefines
<1>5. ASSUME NEW t \in Task, Proceed(t)
      PROVE  Register!Next \/ UNCHANGED Register!vars
  <2>1. CASE Clear(t) \/ Decode(t) \/ Return(t)
    BY <2>1, ClearRefines, DecodeRefines, ReturnRefines DEF Register!Next
  <2>2. CASE ~(Clear(t) \/ Decode(t) \/ Return(t))
    BY <1>5, <2>2, EncodeRefines, RaiseFlagRefines, SetLengthRefines, GiveAfterWriteRefines,
       LowerFlagRefines, GiveAfterReadRefines, ResultRefines DEF Proceed
  <2> QED BY <2>1, <2>2
<1> QED BY <1>1, <1>2, <1>3, <1>4, <1>5 DEF Next

(* The area implements the atomic register: reads and writes behave as if  *)
(* each happened at one instant between its call and its return.           *)
THEOREM Refinement == Spec => Register!Spec
<1>1. Init => Register!Init
    BY InitRefines
<1>2. IInv /\ IInv' /\ [Next]_vars => [Register!Next]_(Register!vars)
    BY StepRefines
<1> QED BY <1>1, <1>2, Invariant, PTL DEF Spec, Register!Spec
-----------------------------------------------------------------------------
(* The register as its users know it: what it holds, and its mark.         *)
Cell == [content |-> AbsContent, fresh |-> AbsFresh]

ByOneCall == \E c \in Call : Admitted(c) /\ Cell' = Effect(c, Cell)

ChangesByCalls == [][UNCHANGED Cell \/ ByOneCall]_vars

(* Only an admitted call comes to the mutex.                               *)
Pending == {"take", "w_clear", "r_decode"}

CallsAdmitted == \A t \in Task : pc[t] \in Pending => Admitted(call[t])

LEMMA AdmittedInv == IInv /\ CallsAdmitted /\ [Next]_vars => CallsAdmitted'
<1> SUFFICES ASSUME IInv, CallsAdmitted, [Next]_vars PROVE CallsAdmitted'
    OBVIOUS
<1> USE DEF CallsAdmitted, Pending, Goto
<1>1. pc \in [Task -> Location] /\ call \in [Task -> Call \cup {Idle}]
    BY DEF IInv, TypeOK
<1>2. ASSUME NEW t \in Task, NEW c \in Call, Invoke(t, c) PROVE CallsAdmitted'
    BY <1>1, <1>2 DEF Invoke
<1>3. ASSUME NEW t \in Task, Poll(t) \/ Return(t) PROVE CallsAdmitted'
    BY <1>1, <1>3 DEF Poll, Return
<1>4. ASSUME NEW t \in Task, Take(t) PROVE CallsAdmitted'
    BY <1>1, <1>4 DEF Take, local
<1>5. ASSUME NEW t \in Task, Clear(t) \/ Encode(t) \/ RaiseFlag(t) \/ SetLength(t)
      PROVE  CallsAdmitted'
    BY <1>1, <1>5 DEF Clear, Encode, RaiseFlag, SetLength, local
<1>6. ASSUME NEW t \in Task, GiveAfterWrite(t) \/ GiveAfterRead(t) PROVE CallsAdmitted'
    BY <1>1, <1>6 DEF GiveAfterWrite, GiveAfterRead, Give, local
<1>7. ASSUME NEW t \in Task, Decode(t) \/ LowerFlag(t) \/ Result(t) PROVE CallsAdmitted'
    BY <1>1, <1>7 DEF Decode, LowerFlag, Result, local
<1>8. CASE UNCHANGED vars
    BY <1>8 DEF vars
<1> QED BY <1>2, <1>3, <1>4, <1>5, <1>6, <1>7, <1>8 DEF Next, Proceed

(* A call takes effect on the register as a whole.                         *)
LEMMA EffectIsOneCall ==
    ASSUME NEW t \in Task, IInv, CallsAdmitted,
           Register!WriteEffect(t) \/ Register!ReadEffect(t)
    PROVE  ByOneCall
<1>1. AbsPhase[t] = "pending" /\ (IsWrite(call[t]) \/ IsRead(call[t]))
    BY SameContents DEF Register!WriteEffect, Register!ReadEffect
<1>2. pc[t] \in Pending
    BY <1>1 DEF AbsPhase, Pending
<1>3. Admitted(call[t])
    BY <1>2 DEF CallsAdmitted
<1>4. call[t] \in Call
    BY <1>1 DEF IInv, TypeOK, IsWrite, IsRead, Idle
<1>5. CASE Register!WriteEffect(t)
    BY <1>3, <1>4, <1>5, SameContents DEF Register!WriteEffect, ByOneCall, Effect, Cell
<1>6. CASE Register!ReadEffect(t)
  <2>1. ~IsWrite(call[t])
    BY <1>6, SameContents DEF Register!ReadEffect, IsRead, IsWrite
  <2> QED BY <1>3, <1>4, <1>6, <2>1 DEF Register!ReadEffect, ByOneCall, Effect, Cell
<1> QED BY <1>5, <1>6

(* What changes the register is the effect of one admitted call: no task   *)
(* sees any other.                                                         *)
THEOREM OnlyCallsChange == Spec => ChangesByCalls
<1> DEFINE Changes == UNCHANGED Cell \/ ByOneCall
<1>1. Init => CallsAdmitted
    BY DEF Init, CallsAdmitted, Pending
<1>2. IInv /\ IInv' /\ CallsAdmitted /\ [Next]_vars => [Changes]_vars
  <2> SUFFICES ASSUME IInv, IInv', CallsAdmitted, Next PROVE Changes
    OBVIOUS
  <2>1. Register!Next \/ UNCHANGED Register!vars
    BY StepRefines
  <2>2. \/ UNCHANGED <<AbsContent, AbsFresh>>
        \/ \E t \in Task : Register!WriteEffect(t) \/ Register!ReadEffect(t)
    BY <2>1 DEF Register!Next, Register!Invoke, Register!Return, Register!vars
  <2> QED BY <2>2, EffectIsOneCall DEF Cell
<1>3. [][Changes]_vars <=> ChangesByCalls
    BY PTL DEF ChangesByCalls
<1> QED BY <1>1, <1>2, <1>3, AdmittedInv, Invariant, PTL DEF Spec
=============================================================================
