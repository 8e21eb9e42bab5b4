--------------------------- MODULE AreaTable_proofs ---------------------------
(***************************************************************************)
(* How the device starts, for every list of processes and every choice of  *)
(* those that fail or are left out: no area is signed up twice, the count  *)
(* is the number of the areas, and a task finds those that it needs.       *)
(***************************************************************************)
EXTENDS AreaTable, FiniteSetTheorems, TLAPS

(* How many areas of the process that main enables are in the table.       *)
Reached == IF boot_pc = "count" THEN signed + 1 ELSE signed

Passed(i, k) == i < enabled \/ (i = enabled /\ k <= Reached)

(* Main is never ahead of the areas of the process it enables.             *)
InStep ==
    /\ boot_pc = "count" => enabled \in DOMAIN Boot /\ Available(Boot[enabled])
    /\ enabled \in DOMAIN Boot => Reached <= Len(SignsUp[Boot[enabled]])
    /\ enabled \notin DOMAIN Boot => signed = 0
    /\ signed > 0 => Available(Boot[enabled])

(* The table has the areas that main has come to, of the processes that    *)
(* were not left out, and no other.                                        *)
TableFollowsMain ==
    \A area \in Area : area \in DOMAIN mem <=>
        \E i \in DOMAIN Boot : \E k \in DOMAIN SignsUp[Boot[i]] :
            Available(Boot[i]) /\ Passed(i, k) /\ area = SignsUp[Boot[i]][k]

(* Every area was counted, but for the one main is about to count.         *)
Counted ==
    /\ Cardinality(DOMAIN mem) = num_areas + (IF boot_pc = "count" THEN 1 ELSE 0)
    /\ signed <= num_areas

(* A task belongs to a process that main is done with.                     *)
TasksBehindMain ==
    \A p \in running : \E j \in DOMAIN Boot : j < enabled /\ p = Boot[j] /\ Available(p)

TableInv ==
    /\ TableTypeOK
    /\ InStep
    /\ TableFollowsMain
    /\ Counted
    /\ TasksBehindMain

-----------------------------------------------------------------------------
(* The processes are numbered, and each has its areas.                     *)
LEMMA BootFacts ==
    /\ DOMAIN Boot = 1 .. Len(Boot) /\ Len(Boot) \in Nat
    /\ \A i \in DOMAIN Boot : Boot[i] \in Process
    /\ \A p \in Process : /\ SignsUp[p] \in Seq(Area)
                          /\ Len(SignsUp[p]) \in Nat
                          /\ DOMAIN SignsUp[p] = 1 .. Len(SignsUp[p])
                          /\ \A k \in DOMAIN SignsUp[p] : SignsUp[p][k] \in Area
<1> USE TableAssumption
<1>1. Boot \in Seq(Process)
    OBVIOUS
<1>2. \A p \in Process : SignsUp[p] \in Seq(Area)
    OBVIOUS
<1> HIDE TableAssumption
<1>3. /\ DOMAIN Boot = 1 .. Len(Boot) /\ Len(Boot) \in Nat
      /\ \A i \in DOMAIN Boot : Boot[i] \in Process
    BY <1>1
<1>4. ASSUME NEW p \in Process
      PROVE  /\ Len(SignsUp[p]) \in Nat
             /\ DOMAIN SignsUp[p] = 1 .. Len(SignsUp[p])
             /\ \A k \in DOMAIN SignsUp[p] : SignsUp[p][k] \in Area
    BY <1>2
<1> QED BY <1>2, <1>3, <1>4

(* The table has room for every area: its indices are numbers below 32.    *)
LEMMA TableIsFinite ==
    ASSUME NEW S, S \subseteq Area
    PROVE  IsFiniteSet(S) /\ Cardinality(S) \in 0 .. TableSize
<1>1. IsFiniteSet(0 .. 31) /\ Cardinality(0 .. 31) = 32
  <2>1. \A n \in Nat : IsFiniteSet(0 .. n) /\ Cardinality(0 .. n) = n + 1
    BY FS_Interval
  <2>2. 31 \in Nat /\ 31 + 1 = 32
    OBVIOUS
  <2> QED BY <2>1, <2>2, Zenon
<1>2. S \subseteq 0 .. 31
  <2>1. Area \subseteq 0 .. TableSize - 1
    BY TableAssumption, Zenon
  <2>2. TableSize - 1 = 31
    BY DEF TableSize
  <2>3. Area \subseteq 0 .. 31
    BY ONLY <2>1, <2>2
  <2> QED BY <2>3, Zenon
<1>3. IsFiniteSet(S) /\ Cardinality(S) <= 32
  <2>1. IsFiniteSet(S) /\ Cardinality(S) <= Cardinality(0 .. 31)
    BY <1>1, <1>2, FS_Subset, Zenon
  <2> QED BY ONLY <1>1, <2>1
<1>4. Cardinality(S) \in Nat
    BY <1>3, FS_CardinalityType
<1> QED BY <1>3, <1>4 DEF TableSize

(* Main counts from 0 on.                                                  *)
LEMMA TableNumbers == TableTypeOK => signed \in Nat /\ num_areas \in Nat
<1> QED BY DEF TableTypeOK, TableSize

(* The table is empty at first.                                            *)
LEMMA TableInitInv == TableInit => TableInv
<1> SUFFICES ASSUME TableInit PROVE TableInv
    OBVIOUS
<1> USE BootFacts DEF TableInit
<1>1. DOMAIN mem = {}
    OBVIOUS
<1>2. TableTypeOK
  <2>1. hardware \in BOOLEAN
    BY DEF InitializeGPIO, InitializeSPI
  <2> QED BY <1>1, <2>1 DEF TableTypeOK, TableSize
<1>3. InStep /\ TasksBehindMain
    BY DEF InStep, TasksBehindMain, Reached
<1>4. TableFollowsMain
    BY <1>1 DEF TableFollowsMain, Passed, Reached
<1>5. Counted
    BY <1>1, FS_EmptySet DEF Counted
<1> QED BY <1>2, <1>3, <1>4, <1>5 DEF TableInv

(* An area that is signed up was not in the table.                         *)
LEMMA SignUpAddsArea ==
    ASSUME TableInv, NEW p \in Process, SignUpSharedArea(p)
    PROVE  /\ SignsUp[p][signed + 1] \in Area \ DOMAIN mem
           /\ DOMAIN mem' = DOMAIN mem \cup {SignsUp[p][signed + 1]}
           /\ \A a \in DOMAIN mem : mem'[a] = mem[a]
           /\ mem'[SignsUp[p][signed + 1]] = Blank
<1> DEFINE area == SignsUp[p][signed + 1]
<1> USE BootFacts DEF TableInv, TableTypeOK
<1>1. /\ enabled \in DOMAIN Boot /\ p = Boot[enabled]
      /\ signed + 1 \in DOMAIN SignsUp[p]
    BY DEF SignUpSharedArea, Enabling, TableSize
<1>2. area \in Area
    BY <1>1
<1>3. area \notin DOMAIN mem
  <2> SUFFICES ASSUME area \in DOMAIN mem PROVE FALSE
    OBVIOUS
  <2>1. PICK i \in DOMAIN Boot : \E k \in DOMAIN SignsUp[Boot[i]] :
            Passed(i, k) /\ area = SignsUp[Boot[i]][k]
    BY <1>2 DEF TableFollowsMain
  <2>2. PICK k \in DOMAIN SignsUp[Boot[i]] : Passed(i, k) /\ area = SignsUp[Boot[i]][k]
    BY <2>1
  <2>3. Boot[i] = p /\ k = signed + 1
    BY <1>1, <2>2, TableAssumption
  <2>4. i = enabled
    BY <1>1, <2>3, TableAssumption
  <2> QED BY <2>2, <2>3, <2>4 DEF Passed, Reached, SignUpSharedArea, TableSize
<1> QED BY <1>2, <1>3 DEF SignUpSharedArea

(* A sign-up, up to the count.                                             *)
LEMMA SignUpInv ==
    ASSUME TableInv, NEW p \in Process, SignUpSharedArea(p)
    PROVE  TableInv'
<1> DEFINE area == SignsUp[p][signed + 1]
<1> USE BootFacts, SignUpAddsArea DEF TableInv
<1>1. /\ enabled \in DOMAIN Boot /\ p = Boot[enabled] /\ Available(p)
      /\ signed \in Nat /\ signed + 1 \in DOMAIN SignsUp[p]
      /\ boot_pc = "sign_up" /\ boot_pc' = "count"
      /\ UNCHANGED <<num_areas, hardware, enabled, signed, running>>
  <2>1. signed \in Nat
    BY TableNumbers
  <2> QED BY <2>1 DEF SignUpSharedArea, Enabling
<1>2. TableTypeOK'
  <2>1. TableTypeOK
    OBVIOUS
  <2>2. DOMAIN mem' \subseteq Area
    BY <2>1 DEF TableTypeOK
  <2> QED BY ONLY <1>1, <2>1, <2>2, Zenon DEF TableTypeOK
<1>3. InStep' /\ TasksBehindMain'
    BY <1>1 DEF InStep, TasksBehindMain, Reached, Available
<1>4. TableFollowsMain'
  <2>1. \A i \in DOMAIN Boot : \A k \in DOMAIN SignsUp[Boot[i]] :
            Passed(i, k)' <=> Passed(i, k) \/ (i = enabled /\ k = signed + 1)
    BY <1>1 DEF Passed, Reached
  <2>2. ASSUME NEW a \in Area
        PROVE  a \in DOMAIN mem' <=>
                 \E i \in DOMAIN Boot : \E k \in DOMAIN SignsUp[Boot[i]] :
                    Available(Boot[i]) /\ Passed(i, k)' /\ a = SignsUp[Boot[i]][k]
    <3>1. a \in DOMAIN mem' <=> a \in DOMAIN mem \/ a = area
      OBVIOUS
    <3>2. CASE a = area
      BY <1>1, <2>1, <3>1, <3>2
    <3>3. CASE a # area
      BY <1>1, <2>1, <3>1, <3>3 DEF TableFollowsMain
    <3> QED BY <3>2, <3>3
  <2> QED BY <1>1, <2>2 DEF TableFollowsMain, Available
<1>5. Counted'
  <2>1. Cardinality(DOMAIN mem') = Cardinality(DOMAIN mem) + 1
    <3>1. IsFiniteSet(DOMAIN mem)
      BY TableIsFinite DEF TableTypeOK
    <3>2. Cardinality(DOMAIN mem \cup {area}) = Cardinality(DOMAIN mem) + 1
      BY <3>1, FS_AddElement
    <3> QED BY <3>2
  <2> QED BY <1>1, <2>1 DEF Counted, TableTypeOK
<1> QED BY <1>2, <1>3, <1>4, <1>5

(* The count follows.                                                      *)
LEMMA CountAreaInv ==
    ASSUME TableInv, CountArea
    PROVE  TableInv'
<1> USE BootFacts DEF TableInv, CountArea
<1>1. signed \in Nat /\ num_areas \in Nat
    BY TableNumbers
<1>2. Counted'
    BY <1>1 DEF Counted
<1>3. TableTypeOK'
  <2>1. num_areas' \in 0 .. TableSize
    BY <1>1, <1>2, TableIsFinite DEF Counted, TableTypeOK
  <2>2. signed' \in 0 .. TableSize
    BY <1>1, <1>2, <2>1 DEF Counted, TableSize
  <2> QED BY <2>1, <2>2 DEF TableTypeOK
<1>4. InStep' /\ TasksBehindMain'
    BY <1>1 DEF InStep, TasksBehindMain, Reached, Available
<1>5. TableFollowsMain'
  <2>1. \A i, k : Passed(i, k)' <=> Passed(i, k)
    BY DEF Passed, Reached
  <2> QED BY <2>1 DEF TableFollowsMain, Available
<1> QED BY <1>2, <1>3, <1>4, <1>5

(* The task is created, or not; main is done with the process.             *)
LEMMA InitializeProcessInv ==
    ASSUME TableInv, NEW p \in Process, InitializeProcess(p)
    PROVE  TableInv'
<1> USE BootFacts DEF TableInv
<1>1. /\ enabled \in DOMAIN Boot /\ p = Boot[enabled] /\ Available(p)
      /\ boot_pc = "sign_up" /\ signed = Len(SignsUp[p])
      /\ running' \subseteq running \cup {p}
      /\ enabled' = enabled + 1 /\ signed' = 0
      /\ UNCHANGED <<mem, num_areas, hardware, boot_pc>>
    BY DEF InitializeProcess, Enabling, SignedUp
<1>2. TableTypeOK' /\ Counted'
    BY <1>1 DEF TableTypeOK, TableSize, Counted
<1>3. InStep' /\ TasksBehindMain'
    BY <1>1 DEF InStep, TasksBehindMain, Reached, Available
<1>4. TableFollowsMain'
  <2>1. \A i \in DOMAIN Boot : \A k \in DOMAIN SignsUp[Boot[i]] :
            Passed(i, k)' <=> Passed(i, k)
    BY <1>1 DEF Passed, Reached
  <2> QED BY <1>1, <2>1 DEF TableFollowsMain, Available
<1> QED BY <1>2, <1>3, <1>4

(* A process that is left out has signed up nothing.                       *)
LEMMA SkipInv ==
    ASSUME TableInv, NEW p \in Process, Skip(p)
    PROVE  TableInv'
<1> USE BootFacts DEF TableInv
<1>1. /\ enabled \in DOMAIN Boot /\ p = Boot[enabled] /\ ~Available(p)
      /\ enabled' = enabled + 1
      /\ UNCHANGED <<mem, num_areas, hardware, signed, boot_pc, running>>
    BY DEF Skip, Enabling
<1>2. boot_pc = "sign_up" /\ signed = 0
    BY <1>1 DEF InStep, TableTypeOK, TableSize
<1>3. TableTypeOK' /\ Counted'
    BY <1>1, <1>2 DEF TableTypeOK, TableSize, Counted
<1>4. InStep' /\ TasksBehindMain'
    BY <1>1, <1>2 DEF InStep, TasksBehindMain, Reached, Available
<1>5. TableFollowsMain'
  <2>1. \A i \in DOMAIN Boot : \A k \in DOMAIN SignsUp[Boot[i]] :
            Available(Boot[i]) => (Passed(i, k)' <=> Passed(i, k))
    BY <1>1, <1>2 DEF Passed, Reached
  <2> QED BY <1>1, <2>1 DEF TableFollowsMain, Available
<1> QED BY <1>3, <1>4, <1>5

(* Every step of main.                                                     *)
LEMMA MainInv ==
    ASSUME TableInv, Main
    PROVE  TableInv'
<1> QED BY SignUpInv, CountAreaInv, InitializeProcessInv, SkipInv DEF Main

(* The tasks of the areas: each has what it needs from its first step on.  *)
LEMMA TableHasNeeds == TableInv => TasksHaveAreas
<1> SUFFICES ASSUME TableInv, NEW p \in running, NEW area \in Needs[p]
             PROVE  area \in DOMAIN mem
    BY DEF TasksHaveAreas
<1> USE BootFacts DEF TableInv
<1>1. PICK j \in DOMAIN Boot : j < enabled /\ p = Boot[j] /\ Available(p)
    BY DEF TasksBehindMain
<1>2. PICK i \in 1 .. j : /\ area \in AreasOf(Boot[i])
                          /\ Boot[i] \in NeedsHardware => Boot[j] \in NeedsHardware
    BY <1>1, NeedsAssumption
<1>3. i \in DOMAIN Boot /\ i < enabled /\ Available(Boot[i])
    BY <1>1, <1>2 DEF Available, TableTypeOK
<1>4. PICK k \in DOMAIN SignsUp[Boot[i]] : area = SignsUp[Boot[i]][k]
    BY <1>2 DEF AreasOf
<1>5. area \in Area
    BY <1>3, <1>4
<1> QED BY <1>3, <1>4, <1>5 DEF TableFollowsMain, Passed

(* Once main is done, the count reaches every area, whichever processes    *)
(* were left out.                                                          *)
LEMMA TableIsCounted == TableInv => CountReachesAreas
<1> SUFFICES ASSUME TableInv, enabled > Len(Boot)
             PROVE  DOMAIN mem = 1 .. num_areas
    BY DEF CountReachesAreas
<1> USE BootFacts DEF TableInv
<1> DEFINE available == IF hardware THEN Process ELSE Process \ NeedsHardware
           there == UNION {AreasOf(p) : p \in available}
<1>1. \A i \in DOMAIN Boot : \A k : Passed(i, k)
    BY DEF Passed, TableTypeOK
<1>2. \A i \in DOMAIN Boot : Available(Boot[i]) <=> Boot[i] \in available
    BY DEF Available, TableTypeOK
<1>3. there \subseteq Area
    BY DEF AreasOf
<1>4. DOMAIN mem = there
  <2>1. ASSUME NEW area \in DOMAIN mem PROVE area \in there
    <3>1. PICK i \in DOMAIN Boot : \E k \in DOMAIN SignsUp[Boot[i]] :
              Available(Boot[i]) /\ area = SignsUp[Boot[i]][k]
      BY <2>1 DEF TableFollowsMain, TableTypeOK
    <3>2. Boot[i] \in available /\ area \in AreasOf(Boot[i])
      BY <1>2, <3>1 DEF AreasOf
    <3> QED BY <3>2
  <2>2. ASSUME NEW area \in there PROVE area \in DOMAIN mem
    <3>1. PICK p \in available : area \in AreasOf(p)
      BY <2>2
    <3>2. PICK i \in DOMAIN Boot : p = Boot[i]
      BY <3>1 DEF Process
    <3>3. PICK k \in DOMAIN SignsUp[Boot[i]] : area = SignsUp[Boot[i]][k]
      BY <3>1, <3>2 DEF AreasOf
    <3> QED BY <1>1, <1>2, <1>3, <2>2, <3>1, <3>2, <3>3 DEF TableFollowsMain
  <2> QED BY <2>1, <2>2
<1>5. available \in {Process, Process \ NeedsHardware}
    OBVIOUS
<1>6. PICK n \in 0 .. TableSize : there = 1 .. n
    BY <1>5, NumbersAssumption
<1>7. Cardinality(1 .. n) = n /\ n \in Nat
    BY FS_Interval DEF TableSize
<1>8. num_areas = Cardinality(DOMAIN mem)
    BY DEF Counted, InStep, TableTypeOK, TableSize
<1> QED BY <1>4, <1>6, <1>7, <1>8
=============================================================================
