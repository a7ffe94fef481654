------------------------------ MODULE AbiStore ------------------------------
(***************************************************************************)
(* The contract ABIs of receiver_plugin.cpp in scan mode: the latest ABI   *)
(* of every contract and the history of all of them, both kept in the undo *)
(* database, and the abieos context in memory that the decoder uses, with  *)
(* the set contract_abi_imported of the accounts it was given.             *)
(*                                                                         *)
(* The events of a block are decoded before the next block is read         *)
(* (priorities 50 and 40), so decoding is a part of ReceiveBlock.          *)
(* Which blocks are read, rolled back and committed is Receiver's subject; *)
(* here any block above the LIB may be replaced by a fork, and any         *)
(* irreversible revision may be committed.  nodeos is prompt (PromptShip   *)
(* of StateHistory): the first block of a fork comes with a LIB below it.  *)
(* Left out: a handler that throws before its revision is pushed, which    *)
(* leaves the ABIs of its block in the context of a process that aborts.   *)
(***************************************************************************)
EXTENDS Chainbase, Sequences, FiniteSets

CONSTANTS
    Accounts,   \* names, which are numbers and ordered as such
    Abis,       \* binaries that abieos accepts
    BadAbi,     \* a binary that abieos refuses
    NoAbi,      \* the empty binary, and the absence of an ABI
    MaxBlock, MaxForks, MaxStops,   \* bounds
    MaxChanges  \* bound: accounts whose ABI changes in one block

ASSUME AbiAssumption ==
    /\ Accounts \subseteq Nat /\ IsFiniteSet(Accounts)
    /\ BadAbi \notin Abis /\ NoAbi \notin Abis /\ BadAbi # NoAbi
    /\ {MaxBlock, MaxForks, MaxStops, MaxChanges} \subseteq Nat

VARIABLES
    chain,    \* chain[n]: the account rows with an ABI in block n, as <<account, binary>>
    lib,      \* the chain's last irreversible block
    forks,    \* forks so far
    db,       \* the undo database, of tables [head, irreversible, abi, history]
    loaded,   \* contract_abi_ctxt and contract_abi_imported, NoAbi: not imported
    stops     \* restarts so far

chainVars == <<chain, lib, forks>>
storeVars == <<chainVars, db, loaded, stops>>

Values == Abis \cup {BadAbi, NoAbi}

\* The delta of a block has one row per account.
Changes ==
    UNION {{s \in [1 .. k -> Accounts \X Values] :
              \A i, j \in 1 .. k : i # j => s[i][1] # s[j][1]} : k \in 0 .. MaxChanges}

head == Tables(db).head

HistoryRows == [account : Accounts, block : 1 .. MaxBlock, abi : Values]

AbiTables ==
    [head : 0 .. MaxBlock, irreversible : 0 .. MaxBlock,
     abi : [Accounts -> Abis \cup {NoAbi}], history : SUBSET HistoryRows]

AbiTypeOK ==
    /\ chain \in Seq(Changes) /\ Len(chain) <= MaxBlock
    /\ lib \in 0 .. Len(chain)
    /\ forks \in 0 .. MaxForks /\ stops \in 0 .. MaxStops
    /\ IsDatabase(db, AbiTables)
    /\ loaded \in [Accounts -> Abis \cup {NoAbi}]

NothingLoaded == [a \in Accounts |-> NoAbi]

StoreInit ==
    /\ chain = <<>> /\ lib = 0 /\ forks = 0 /\ stops = 0
    /\ db = NewDatabase([head |-> 0, irreversible |-> 0,
                         abi |-> NothingLoaded, history |-> {}])
    /\ loaded = NothingLoaded

-------------------------------------------------------------------------------
(* The handling of one account row, on a record [abi, history, loaded].      *)

\* init_contract_abi_ctxt: abieos cannot forget one contract, all go.
Forgotten(a, s) == IF s.loaded[a] # NoAbi THEN NothingLoaded ELSE s.loaded

save_contract_abi_history(a, n, value, history) ==
    {h \in history : h.account # a \/ h.block # n}
        \cup {[account |-> a, block |-> n, abi |-> value]}

clear_contract_abi_NoHistory(a, n, s) ==
    [abi |-> [s.abi EXCEPT ![a] = NoAbi], history |-> s.history, loaded |-> Forgotten(a, s)]

clear_contract_abi(a, n, s) ==
    [abi     |-> [s.abi EXCEPT ![a] = NoAbi],
     history |-> IF s.abi[a] = NoAbi THEN s.history
                 ELSE save_contract_abi_history(a, n, NoAbi, s.history),
     loaded  |-> Forgotten(a, s)]

save_contract_abi_Unchecked(a, n, value, s) ==
    [abi     |-> [s.abi EXCEPT ![a] = value],
     history |-> save_contract_abi_history(a, n, value, s.history),
     loaded  |-> [Forgotten(a, s) EXCEPT ![a] = value]]

\* A binary that abieos refuses leaves the former ABI in use, and goes to the
\* history all the same.
save_contract_abi(a, n, value, s) ==
    [abi     |-> IF value = BadAbi THEN s.abi ELSE [s.abi EXCEPT ![a] = value],
     history |-> save_contract_abi_history(a, n, value, s.history),
     loaded  |-> IF value = BadAbi THEN Forgotten(a, s)
                 ELSE [Forgotten(a, s) EXCEPT ![a] = value]]

AccountRow(row, n, s) ==
    IF row[2] = NoAbi THEN clear_contract_abi(row[1], n, s)
    ELSE save_contract_abi(row[1], n, row[2], s)

\* receive_deltas, the rows of the table "account", one after the other.
AccountRows(rows, n, s) ==
    LET after[k \in 0 .. Len(rows)] ==
            IF k = 0 THEN s ELSE AccountRow(rows[k], n, after[k - 1])
    IN  after[Len(rows)]

\* get_contract_abi_ready for the accounts whose actions and rows are decoded.
Ready(s, decoded) ==
    [a \in Accounts |-> IF a \in decoded /\ s.loaded[a] = NoAbi THEN s.abi[a]
                        ELSE s.loaded[a]]

-------------------------------------------------------------------------------
(* Reading a block: rows, decoding, and a new revision.                      *)

StoreBlock(n, rows, before, cache) ==
    LET s == AccountRows(rows, n, [abi     |-> Tables(before).abi,
                                   history |-> Tables(before).history,
                                   loaded  |-> cache])
    IN  \E decoded \in SUBSET {a \in Accounts : s.abi[a] # NoAbi} :
           /\ lib' \in lib .. (IF n > lib THEN n ELSE lib)
           /\ \E upto \in before.committed .. lib' :
                 db' = Commit(PushRevision(before, [head |-> n, irreversible |-> lib',
                                                    abi |-> s.abi, history |-> s.history]),
                              upto)
           /\ loaded' = Ready(s, decoded)

\* A database that was just created or restored gets the number of its block.
Aligned_Never(n) == db
Aligned(n) == IF db.revision < n - 1 THEN SetRevision(db, n - 1) ELSE db

\* A block that was read before a restart comes again.
ReceiveBlock ==
    LET n == head + 1 IN
    /\ n <= MaxBlock
    /\ \E rows \in IF n <= Len(chain) THEN {chain[n]} ELSE Changes :
          /\ chain' = IF n <= Len(chain) THEN chain ELSE Append(chain, rows)
          /\ StoreBlock(n, rows, Aligned(n), loaded)
    /\ UNCHANGED <<forks, stops>>

ReceiveFork(n) ==
    /\ forks < MaxForks
    /\ n > lib /\ n <= head
    /\ \E rows \in Changes :
          /\ chain' = Append(SubSeq(chain, 1, n - 1), rows)
          /\ StoreBlock(n, rows, UndoFrom(Aligned(n), n), NothingLoaded)
    /\ lib' < n   \* PromptShip; else the code would not roll back
    /\ forks' = forks + 1
    /\ UNCHANGED stops

\* The process ends and starts again.
Restart ==
    /\ stops < MaxStops
    /\ stops' = stops + 1
    /\ db' = UndoAll(db)
    /\ loaded' = NothingLoaded
    /\ UNCHANGED chainVars

StoreNext == ReceiveBlock \/ (\E n \in 1 .. MaxBlock : ReceiveFork(n)) \/ Restart

StoreSpec == StoreInit /\ [][StoreNext]_storeVars

-------------------------------------------------------------------------------
(* What the chain says about the ABIs, and the properties.                   *)

\* The ABI changes of account a up to block n, as <<block, binary>>.
ChangesOf(a, n) ==
    {c \in (1 .. n) \X Values : \E i \in DOMAIN chain[c[1]] : chain[c[1]][i] = <<a, c[2]>>}

Latest(changes) ==
    IF changes = {} THEN NoAbi
    ELSE (CHOOSE c \in changes : \A d \in changes : d[1] <= c[1])[2]

Usable(value) == IF value = BadAbi THEN NoAbi ELSE value

\* The decoder never uses an ABI that its contract has replaced or removed, or
\* that a fork has undone, and the ABI in use is the last one of the chain that
\* abieos accepts (receive_deltas, save_contract_abi, clear_contract_abi).
ScanUsesLatest ==
    \A a \in Accounts :
       /\ Tables(db).abi[a] = Latest({c \in ChangesOf(a, head) : c[2] # BadAbi})
       /\ loaded[a] \in {NoAbi, Tables(db).abi[a]}

\* What the history says account a had at block n.
HistoryAbi(a, n) ==
    Usable(Latest({<<h.block, h.abi>> : h \in {h \in Tables(db).history :
                                                 h.account = a /\ h.block <= n}}))

\* For every block read and every account the history gives the ABI that the
\* chain had then, whatever forks and restarts came in between
\* (save_contract_abi_history).
HistoryMatchesChain ==
    \A a \in Accounts, n \in 1 .. head : HistoryAbi(a, n) = Usable(Latest(ChangesOf(a, n)))
===============================================================================
