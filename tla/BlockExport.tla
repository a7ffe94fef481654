------------------------------ MODULE BlockExport ------------------------------
(***************************************************************************)
(* What the receiver and its exporter promise to a consumer that stores    *)
(* blocks: the stored blocks are consecutive, a block is only ever added   *)
(* right after the highest one, and they are only ever rolled back as a    *)
(* FORK event says, never below what the receiver will not send again.     *)
(***************************************************************************)
EXTENDS Integers

CONSTANTS
    BlockNums,     \* block numbers
    BlockIds,      \* what a stored block can be
    NoBlock        \* not stored

VARIABLES
    stored,        \* the consumer's blocks
    durable        \* blocks up to here will not be sent again

exportVars == <<stored, durable>>

IsTop(n) == /\ n \in BlockNums => stored[n] # NoBlock
            /\ \A m \in BlockNums : m > n => stored[m] = NoBlock

Init ==
    /\ stored = [n \in BlockNums |-> NoBlock]
    /\ durable = 0

\* The first block may have any number (start-block).
AddBlock(n, id) ==
    /\ IsTop(n - 1) \/ \A m \in BlockNums : stored[m] = NoBlock
    /\ stored' = [stored EXCEPT ![n] = id]
    /\ UNCHANGED durable

RollBack(n) ==
    /\ n > durable
    /\ stored' = [m \in BlockNums |-> IF m >= n THEN NoBlock ELSE stored[m]]
    /\ UNCHANGED durable

\* Only what the consumer has can become durable.
MakeDurable(n) ==
    /\ n >= durable
    /\ n \in BlockNums => stored[n] # NoBlock
    /\ durable' = n
    /\ UNCHANGED stored

Next ==
    \/ \E n \in BlockNums, id \in BlockIds : AddBlock(n, id)
    \/ \E n \in BlockNums : RollBack(n)
    \/ \E n \in BlockNums : MakeDurable(n)

Spec == Init /\ [][Next]_exportVars
================================================================================
