---------------------------- MODULE StateHistory -----------------------------
(***************************************************************************)
(* The chain and the nodeos state history (SHIP) session that feeds the    *)
(* receiver.  External to the repository: modelled from how                *)
(* receiver_plugin.cpp requests blocks and reads results.                  *)
(*                                                                         *)
(*  - A block is its number and the version of the chain it was produced   *)
(*    on; a fork switch at f gives every block from f on a new version, so *)
(*    number and version name a block and all its ancestors, as an id does.*)
(*  - A result is composed when the receiver reads it.  The chain never    *)
(*    looks at the receiver, so a result that waits in a socket is a chain *)
(*    that moves later.                                                    *)
(*  - `final' is the highest LIB any node has announced; `lib' is the LIB  *)
(*    of the node of this session, which may lag behind after a reconnect. *)
(***************************************************************************)
EXTENDS Integers

CONSTANTS
    MaxBlock,      \* bound: the highest block number produced
    MaxForks,      \* bound: how many fork switches happen
    InitialLib,    \* the chain's last irreversible block at the beginning
    PromptShip     \* TRUE: a fork's first block is sent before the LIB passes it

ASSUME ChainAssumption ==
    /\ MaxBlock \in Nat \ {0}
    /\ MaxForks \in Nat
    /\ InitialLib \in 1 .. MaxBlock
    /\ PromptShip \in BOOLEAN

VARIABLES
    tip,      \* the chain's head block number
    branch,   \* branch[n]: version of block n of the current chain
    forks,    \* fork switches so far, the current version
    final,    \* highest irreversible block anywhere
    lib,      \* last_irreversible of the connected node
    next      \* the number of the block the session sends next

chainVars == <<tip, branch, forks, final, lib>>
shipVars  == <<tip, branch, forks, final, lib, next>>

BlockNums == 1 .. MaxBlock
Versions  == 0 .. MaxForks
BlockIds  == BlockNums \X Versions

ChainTypeOK ==
    /\ tip \in BlockNums
    /\ branch \in [BlockNums -> Versions]
    /\ forks \in Versions
    /\ final \in 1 .. tip
    /\ lib \in 1 .. final
    /\ next \in 1 .. MaxBlock + 1

ChainInit ==
    /\ tip = InitialLib
    /\ branch = [n \in BlockNums |-> 0]
    /\ forks = 0
    /\ final = InitialLib
    /\ lib = InitialLib
    /\ next = 1

ProduceBlock ==
    /\ tip < MaxBlock
    /\ tip' = tip + 1
    /\ branch' = [branch EXCEPT ![tip + 1] = forks]
    /\ UNCHANGED <<forks, final, lib, next>>

\* The node switches to another branch from block f on; an open session goes
\* back to f if it had already sent it.
SwitchFork(f, connected) ==
    /\ forks < MaxForks
    /\ f \in final + 1 .. tip
    /\ forks' = forks + 1
    /\ branch' = [n \in BlockNums |-> IF n >= f /\ n <= tip THEN forks + 1 ELSE branch[n]]
    /\ next' = IF connected /\ f < next THEN f ELSE next
    /\ UNCHANGED <<tip, final, lib>>

\* `sent' is the highest block number this session's reader holds (0: none).
\* A prompt session has sent the first block of a fork before the LIB gets
\* there; one that is held up by backpressure may not have.
AdvanceLib(sent) ==
    /\ lib < tip
    /\ PromptShip => (next > sent \/ lib + 1 < next)
    /\ lib' = lib + 1
    /\ final' = IF lib + 1 > final THEN lib + 1 ELSE final
    /\ UNCHANGED <<tip, branch, forks, next>>

\* get_blocks_request_v0: the session begins at start, or at the lowest of the
\* client's have_positions that is not on the node's chain.  The node may be
\* another one than before, whose LIB is lower.
OpenSession(start, positions) ==
    LET off  == {p[1] : p \in {q \in positions : branch[q[1]] # q[2]}}
        from == {start} \cup {n \in off : n < start}
    IN  /\ next' = CHOOSE n \in from : \A m \in from : n <= m
        /\ lib' \in 1 .. final
        /\ UNCHANGED <<tip, branch, forks, final>>
==============================================================================
