------------------------------ MODULE SlotWriter ------------------------------
(***************************************************************************)
(* What the storage worker relies on when it hands filled DDR slots to its *)
(* NVMe writer, whatever the submission path: a slot comes back only when  *)
(* all of it is on the medium and the drive no longer reads it, and the    *)
(* DDR mapping is released only when the drive reads nothing.              *)
(***************************************************************************)
CONSTANT Slots

VARIABLES
    taken,      \* slots popped from the queue
    held,       \* slots some command of which the drive may still read
    durable,    \* slots whose every command the drive has completed
    retired,    \* slots given back to the producer
    released    \* the queue is destroyed and the mapping gone

vars == <<taken, held, durable, retired, released>>

Init == /\ taken = {} /\ held = {} /\ durable = {} /\ retired = {}
        /\ released = FALSE

\* The writer takes a slot from the queue.
Take == /\ ~released
        /\ \E s \in Slots \ taken : taken' = taken \cup {s}
        /\ UNCHANGED <<held, durable, retired, released>>

\* A command of a slot crosses the doorbell.
Hand == /\ ~released
        /\ \E s \in taken \ retired : held' = held \cup {s}
        /\ UNCHANGED <<taken, durable, retired, released>>

\* The drive finishes a command, well or not.
Finish == /\ held' \subseteq held
          /\ durable \subseteq durable' /\ durable' \subseteq taken
          /\ UNCHANGED <<taken, retired, released>>

\* The slot callback: some slots go back to the producer.
Retire == /\ ~released
          /\ \E done \in SUBSET ((durable \ held) \ retired) : retired' = retired \cup done
          /\ UNCHANGED <<taken, held, durable, released>>

Release == /\ ~released /\ held = {}
           /\ released' = TRUE
           /\ UNCHANGED <<taken, held, durable, retired>>

Next == Take \/ Hand \/ Finish \/ Retire \/ Release

Spec == Init /\ [][Next]_vars
=============================================================================
