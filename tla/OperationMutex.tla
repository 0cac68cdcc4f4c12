--------------------------- MODULE OperationMutex ---------------------------
(***************************************************************************)
(* What src/src/locker.js promises, "these are mutually exclusive          *)
(* operations": app tasks share the box with one another, up to a limit,   *)
(* and a full backup, a box update or a migration has it to itself.  There *)
(* is no lock here, only who is at work.                                   *)
(***************************************************************************)
EXTENDS FiniteSets, Naturals

CONSTANTS Tasks, Exclusive, Idle, Limit

VARIABLES
    running,    \* the apps whose task is at work
    exclusive   \* the exclusive operation at work, or Idle

vars == <<running, exclusive>>

Init == running = {} /\ exclusive = Idle

WithinLimit(S) == S \subseteq Tasks /\ Cardinality(S) <= Limit

\* Tasks end and tasks start, while no exclusive operation is at work.
TasksStep ==
    /\ exclusive = Idle
    /\ WithinLimit(running')
    /\ UNCHANGED exclusive

\* An exclusive operation waits for nobody: it begins when nobody is at work.
Begin ==
    /\ exclusive = Idle
    /\ running = {}
    /\ exclusive' \in Exclusive
    /\ running' = {}

\* Its end may let tasks in at once.
End ==
    /\ exclusive # Idle
    /\ exclusive' = Idle
    /\ WithinLimit(running')

\* The box process was replaced, and everybody at work went with it.
Reset == running' = {} /\ exclusive' = Idle

Next == TasksStep \/ Begin \/ End \/ Reset

Spec == Init /\ [][Next]_vars
=============================================================================
