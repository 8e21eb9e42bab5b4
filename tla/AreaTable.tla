----------------------------- MODULE AreaTable -----------------------------
(***************************************************************************)
(* AreaTable: how the device starts.  main enables one process after the   *)
(* other; each signs up its areas with the shared memory manager and gets  *)
(* a task, which runs while main goes on.  What the areas hold is theirs   *)
(* from then on; here they are signed up empty.                            *)
(***************************************************************************)
EXTENDS Integers, Sequences

CONSTANTS
    Boot,           \* the processes, in the order in which main enables them
    SignsUp,        \* the areas that each process signs up, in order
    Needs,          \* the areas that its task uses by their names
    NeedsHardware,  \* the processes that need SPI and GPIO
    MayFail,        \* bound: the processes whose task may not be created
    AreaSize,       \* the areas and their sizes
    NoValue         \* no bytes were written

TableSize == 32     \* _maximum_shared_memory

Area == DOMAIN AreaSize
Process == {Boot[i] : i \in DOMAIN Boot}

(* main enables no process twice, and no two processes sign up one area,   *)
(* so that no sign-up is refused.                                          *)
ASSUME TableAssumption ==
    /\ Area \subseteq 0 .. TableSize - 1
    /\ AreaSize \in [Area -> Nat]
    /\ Boot \in Seq(Process)
    /\ SignsUp \in [Process -> Seq(Area)]
    /\ \A i, j \in DOMAIN Boot : Boot[i] = Boot[j] => i = j
    /\ \A p, q \in Process : \A i \in DOMAIN SignsUp[p], j \in DOMAIN SignsUp[q] :
            SignsUp[p][i] = SignsUp[q][j] => p = q /\ i = j
    /\ Needs \in [Process -> SUBSET Area]
    /\ NeedsHardware \subseteq Process
    /\ MayFail \subseteq Process

AreasOf(p) == {SignsUp[p][i] : i \in DOMAIN SignsUp[p]}

(* A task needs areas of its own process or of one that main has enabled   *)
(* before, and of none that may be left out while it is not.               *)
ASSUME NeedsAssumption ==
    \A j \in DOMAIN Boot : \A area \in Needs[Boot[j]] : \E i \in 1 .. j :
        /\ area \in AreasOf(Boot[i])
        /\ Boot[i] \in NeedsHardware => Boot[j] \in NeedsHardware

(* memory_areas_t numbers the areas from 1 on, those of the processes that *)
(* need SPI and GPIO last.                                                 *)
ASSUME NumbersAssumption ==
    \A available \in {Process, Process \ NeedsHardware} : \E n \in 0 .. TableSize :
        UNION {AreasOf(p) : p \in available} = 1 .. n

VARIABLES
    mem,            \* _shared_memory_array, where it is not nullptr
    num_areas,      \* _num_areas
    hardware,       \* _spi_initialized and _gpio_initialized
    enabled,        \* the process that main enables, by its place in Boot
    signed,         \* the areas it has signed up
    boot_pc,        \* "sign_up", or "count" on the way out of it
    running         \* the tasks

boot == <<num_areas, hardware, enabled, signed, boot_pc, running>>

Blank == [of |-> NoValue, count |-> 0, length |-> 0]

(* What may come out of the two initializations: the GPIO manager counts   *)
(* its pins, ESP-IDF's SPI driver may refuse the bus or the device.        *)
InitializeGPIO == {TRUE}
InitializeSPI == BOOLEAN

(* InitializeHAL, before the first process.                                *)
TableInit ==
    /\ mem = [a \in {} |-> Blank]
    /\ num_areas = 0
    /\ hardware \in {gpio /\ spi : gpio \in InitializeGPIO, spi \in InitializeSPI}
    /\ enabled = 1
    /\ signed = 0
    /\ boot_pc = "sign_up"
    /\ running = {}

Enabling(p) == enabled \in DOMAIN Boot /\ p = Boot[enabled]

Available(p) == p \in NeedsHardware => hardware

SignUpSharedArea(p) ==
    /\ Enabling(p)
    /\ Available(p)
    /\ boot_pc = "sign_up"
    /\ signed < Len(SignsUp[p])
    /\ LET area == SignsUp[p][signed + 1] IN
        mem' = [a \in DOMAIN mem \cup {area} |-> IF a = area THEN Blank ELSE mem[a]]
    /\ boot_pc' = "count"
    /\ UNCHANGED <<num_areas, hardware, enabled, signed, running>>

CountArea ==
    /\ boot_pc = "count"
    /\ boot_pc' = "sign_up"
    /\ num_areas' = num_areas + 1
    /\ signed' = signed + 1
    /\ UNCHANGED <<mem, hardware, enabled, running>>

(* Mutant: the task first, its areas after.                                *)
SignedUpWithoutLast(p) == boot_pc = "sign_up" /\ signed + 1 >= Len(SignsUp[p])

SignedUp(p) == boot_pc = "sign_up" /\ signed = Len(SignsUp[p])

(* What xTaskCreatePinnedToCore answers is not looked at.                  *)
InitializeProcess(p) ==
    /\ Enabling(p)
    /\ Available(p)
    /\ SignedUp(p)
    /\ running' \in {running \cup {p}} \cup (IF p \in MayFail THEN {running} ELSE {})
    /\ enabled' = enabled + 1
    /\ signed' = 0
    /\ UNCHANGED <<mem, num_areas, hardware, boot_pc>>

(* Mutant: its areas are counted all the same.                             *)
SkipCounting(p) ==
    /\ Enabling(p)
    /\ ~Available(p)
    /\ enabled' = enabled + 1
    /\ num_areas' = num_areas + Len(SignsUp[p])
    /\ UNCHANGED <<mem, hardware, signed, boot_pc, running>>

(* Without its hardware a process is left out; main goes on (can_fail).    *)
Skip(p) ==
    /\ Enabling(p)
    /\ ~Available(p)
    /\ enabled' = enabled + 1
    /\ UNCHANGED <<mem, num_areas, hardware, signed, boot_pc, running>>

Main ==
    \/ \E p \in Process : SignUpSharedArea(p) \/ InitializeProcess(p) \/ Skip(p)
    \/ CountArea

-----------------------------------------------------------------------------
TableTypeOK ==
    /\ DOMAIN mem \subseteq Area
    /\ num_areas \in 0 .. TableSize
    /\ hardware \in BOOLEAN
    /\ enabled \in 1 .. Len(Boot) + 1
    /\ signed \in 0 .. TableSize
    /\ boot_pc \in {"sign_up", "count"}
    /\ running \subseteq Process

(* A task that runs finds the areas that it reads and writes by name: none *)
(* of its calls is dropped because main had not come to an area yet.       *)
TasksHaveAreas == \A p \in running : Needs[p] \subseteq DOMAIN mem

(* Once the processes are enabled, the areas have the numbers from 1 to    *)
(* their count, whether or not some process was left out: a loop that      *)
(* visits areas by counting meets each of them and no gap.                 *)
CountReachesAreas == enabled > Len(Boot) => DOMAIN mem = 1 .. num_areas
=============================================================================
