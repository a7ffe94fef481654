----------------------------- MODULE RelicExporter -----------------------------
(***************************************************************************)
(* The pipeline of an FIO node: the receiver with exp_relic_plugin, which  *)
(* turns the events into SQL statements for the FIO.Relic database.        *)
(*                                                                         *)
(* The plugin handles one message after the other (priority 60, before     *)
(* channels, 50, and reads, 40).  A message is several statements, each a  *)
(* transaction of its own; when one fails the earlier ones stay, the       *)
(* plugin handles nothing more and the receiver is aborted.  A statement   *)
(* is its function and the object it is about; statements that only read   *)
(* are left out, as they fail like the one after them.  The database is    *)
(* external: rbfork(n) undoes what was done for the blocks from n on.      *)
(***************************************************************************)
EXTENDS Receiver, SequencesExt

CONSTANTS
    Content,     \* Content[n]: the TBL_ROW and TX_TRACE messages of block n
    KnownNames,  \* domains and handles for which upddomainburnt and
                 \* updhandleburnt, functions of the database, return 1
    LosesForks,  \* TRUE: also failures after which the next start owes a FORK but,
                 \* with nothing uncommitted, announces none
    MaxStops     \* bound: how often the receiver is aborted

\* An action trace: whether the transaction itself has it (creator_action_ordinal
\* 0), its object, whose public key it names, and the chains of its list of
\* addresses or NFTs.  A transfer or issue that fio.token does not receive has
\* another name.
Actions == [name : STRING, top : BOOLEAN, of : STRING,
            key : {"none", "own", "other"}, items : Seq({"FIO", "other"})]

\* A removed row of a table, or a transaction.
Messages == [type : {"TBL_ROW"}, kind : STRING, of : STRING]
            \cup [type : {"TX_TRACE"}, actions : Seq(Actions)]

ASSUME RelicAssumption ==
    /\ WillAck
    /\ Content \in [BlockNums -> Seq(Messages)]
    /\ KnownNames \subseteq STRING
    /\ LosesForks \in BOOLEAN
    /\ MaxStops \in Nat

VARIABLES
    rows,                  \* rows[n]: the statements done for block n (persistent)
    position,              \* messages of the first event that are handled
    domainjsons, handlejsons, burnaddresses,
    burnexpiredthisblock,
    failed,                \* a statement failed: async_send_events is not called again
    stops

listVars == <<domainjsons, handlejsons, burnaddresses, burnexpiredthisblock>>
relicVars == <<rows, position, listVars, failed>>
systemVars == <<vars, relicVars, stops>>

RelicInit ==
    /\ Init
    /\ rows = [n \in BlockNums |-> <<>>]
    /\ position = 0
    /\ domainjsons = <<>> /\ handlejsons = <<>> /\ burnaddresses = {}
    /\ burnexpiredthisblock = FALSE
    /\ failed = FALSE /\ stops = 0

-------------------------------------------------------------------------------
(* The messages of an event and the statements of a message.                 *)

Simple(type) == [type |-> type]

MessagesOf(e) ==
    CASE e.type = "block"   -> <<Simple("BLOCK")>> \o Content[e.num] \o <<Simple("BLOCK_COMPLETED")>>
      [] e.type = "partial" -> <<Simple("BLOCK")>> \o Content[e.num]
      [] e.type = "fork"    -> <<Simple("FORK")>>

Message == MessagesOf(Head(events))[position + 1]

When(condition, sql) == IF condition THEN <<sql>> ELSE <<>>
ForEach(items, Sql(_)) == FlattenSeq([i \in DOMAIN items |-> Sql(items[i])])

\* A public key brings the account it belongs to.
Account(a) == When(a.key # "none", "insupdaccounts")

Registrations(a) ==
    LET domain == Account(a) \o <<"insdomains", "insdomainactivities">>
        other  == When(a.key = "other", "insaccountactivities")
    IN  [regdomain |-> domain \o other,
         regdomadd |-> domain \o <<"insupdhandles", "inshandleactivities", "insupdpubaddresses">>
                       \o other]

DomainUpdates(a) ==
    [renewdomain  |-> <<"upddomainexp", "insdomainactivities">>,
     xferdomain   |-> Account(a) \o <<"upddomainowner", "insdomainactivities",
                                      "insaccountactivities">>,
     setdomainpub |-> <<"upddomainispublic", "insdomainactivities">>]

DomainWrapping ==
    [wrapdomain |-> <<"upddomainowner", "insdomainactivities", "insaccountactivities">>,
     xferescrow |-> <<"upddomainowner", "insdomainactivities", "insaccountactivities",
                      "insaccountactivities">>]

HandleUpdates ==
    [updcryptkey  |-> <<"updhandlessetencryptkey", "inshandleactivities">>,
     burnaddress  |-> <<"updhandleburnt", "inshandleactivities", "delpubaddresses",
                        "delnftsignatures">>]

Requests ==
    [newfundsreq  |-> <<"inshandleactivities", "insaccountactivitieshandle", "insfiorequests">>,
     recordobt    |-> <<"inshandleactivities", "insaccountactivitieshandle", "insfiodatas",
                        "updfiorequestsstatus">>,
     cancelfndreq |-> <<"inshandleactivitiesfiorequest", "updfiorequestsstatus">>,
     rejectfndreq |-> <<"inshandleactivitiesfiorequest", "updfiorequestsstatus">>]

HandleRegistration(a) ==
    [regaddress |-> Account(a) \o <<"insupdhandles", "inshandleactivities">>
                    \o When(a.key = "other", "insaccountactivities") \o <<"insupdpubaddresses">>]

Nfts(a) ==
    [renewaddress |-> <<"inshandleactivities">>,
     addbundles   |-> <<"inshandleactivities">>,
     addnft       |-> <<"inshandleactivities">>
                      \o ForEach(a.items, LAMBDA nft : <<"insupdnftsignatures">>),
     remnft       |-> <<"inshandleactivities">>
                      \o ForEach(a.items, LAMBDA nft : <<"delnftsignature">>),
     remallnfts   |-> <<"inshandleactivities", "delnftsignatures">>]

HandleTransfer(a) ==
    [xferaddress |-> Account(a) \o <<"updhandlesxferowner", "inshandleactivities",
                                     "insaccountactivities", "delpubaddresses",
                                     "insupdpubaddresses", "delnftsignatures">>]

Addresses(a) ==
    [remalladdr |-> <<"inshandleactivities", "clearpubaddresses">>,
     addaddress |-> ForEach(a.items, LAMBDA chain :
                        <<"inshandleactivities", "insupdpubaddresses">>
                        \o When(chain = "FIO", "updhandlesencryptkey")),
     remaddress |-> ForEach(a.items, LAMBDA chain : <<"inshandleactivities", "delpubaddress">>)]

Tokens ==
    [trnsfiopubky |-> <<"instokentransfers">>, trnsloctoks |-> <<"instokentransfers">>,
     stakefio     |-> <<"instokenstakings">>,  unstakefio  |-> <<"instokenstakings">>,
     retire       |-> <<"instokentransfers">>]

Fip48Transfers == 13

Fip48 ==
    [fipxlviii |-> FlattenSeq([i \in 1 .. Fip48Transfers |->
                       <<"instokentransfers", "insaccountactivities", "insaccountactivities">>])]

\* What a transaction's own action does; any other name (wraptokens,
\* burnexpired) does nothing here.
RelicActions(a) ==
    LET tables == <<Registrations(a), DomainUpdates(a), DomainWrapping, HandleUpdates,
                    Requests, HandleRegistration(a), Nfts(a), HandleTransfer(a),
                    Addresses(a), Tokens, Fip48>>
    IN  ForEach(tables, LAMBDA table :
            IF a.name \in DOMAIN table THEN table[a.name] ELSE <<>>)

\* What an action does wherever it stands.
TokenActions(a) ==
    CASE a.name \in {"transfer", "issue"} -> <<"instokentransfers">>
      [] a.name = "bind2eosio"            -> <<"insupdaccounts", "insaccountactivities">>
      [] OTHER                            -> <<>>

Recorded(a) == a.top /\ a.name \notin {"onblock", "nonce"}

Statement(sql, name) == [sql |-> sql, of |-> name]

ActionStatements(actions, i) ==
    LET a == actions[i]
        sql == (IF Recorded(a) THEN <<"instransactions">> \o RelicActions(a)
                ELSE When(\E j \in 1 .. i - 1 : Recorded(actions[j]), "instraces"))
               \o TokenActions(a)
    IN  [k \in DOMAIN sql |-> Statement(sql[k], a.of)]

\* Of every transaction of the chain.
TransactionStatements ==
    LET all == UNION {ToSet(Content[n]) : n \in BlockNums}
    IN  [m \in {x \in all : x.type = "TX_TRACE"} |->
            FlattenSeq([i \in DOMAIN m.actions |-> ActionStatements(m.actions, i)])]

\* An activity goes with what the database knows.
Burnt(table, name) ==
    IF table = "domains"
    THEN <<Statement("upddomainburnt", name)>>
         \o When(name \in KnownNames, Statement("insdomainactivities", name))
    ELSE <<Statement("updhandleburnt", name)>>
         \o When(name \in KnownNames, Statement("inshandleactivities", name))

\* At the end of a block: of the rows that were removed in this very block the
\* domains, and the handles that no burnaddress burnt.  The addresses are read
\* from the wrong document (line 482) and found empty by a release build.
AutoBurns(n) ==
    IF burnexpiredthisblock
    THEN ForEach(domainjsons, LAMBDA row :
             IF row.num = n THEN Burnt("domains", row.of) ELSE <<>>)
         \o ForEach(handlejsons, LAMBDA row :
             IF row.num = n /\ row.of \notin burnaddresses
             THEN Burnt("fiohandles", row.of) ELSE <<>>)
    ELSE <<>>

Statements(m, n) ==
    CASE m.type = "BLOCK"           -> <<Statement("insblocks", "")>>
      [] m.type = "TX_TRACE"        -> TransactionStatements[m]
      [] m.type = "TBL_ROW"         -> <<>>
      [] m.type = "BLOCK_COMPLETED" -> AutoBurns(n)
      [] m.type = "FORK"            -> <<Statement("rbfork", "")>>

\* The database after the first k statements of a message of block n, version v.
Stored(statements, k, n, v) ==
    [rows EXCEPT ![n] = @ \o [i \in 1 .. k |-> [statement |-> statements[i], id |-> v]]]

RolledBack(n) == [m \in BlockNums |-> IF m >= n THEN <<>> ELSE rows[m]]

Version(e) == IF e.type = "block" THEN e.id ELSE head_id

-------------------------------------------------------------------------------
(* Handling a message: async_send_events.                                    *)

\* The acknowledgement of a completed block is for the one below it.
AckOf(n) == n - 1

ClearedFlag_Kept == burnexpiredthisblock
ClearedFlag == FALSE

RowOf(m, table) == m.type = "TBL_ROW" /\ m.kind = table

\* The objects of a transaction's own actions of this name.
Objects(m, action) ==
    IF m.type = "TX_TRACE"
    THEN {a.of : a \in {x \in ToSet(m.actions) : x.top /\ x.name = action}} ELSE {}

Collect(m, n) ==
    LET removed(table) == IF RowOf(m, table) THEN <<[of |-> m.of, num |-> n]>> ELSE <<>>
    IN  /\ domainjsons' = domainjsons \o removed("domains")
        /\ handlejsons' = handlejsons \o removed("fiohandles")
        /\ burnaddresses' = burnaddresses \cup Objects(m, "burnaddress")
        /\ burnexpiredthisblock' = (burnexpiredthisblock \/ Objects(m, "burnexpired") # {})

CanHandle == Running /\ ~failed /\ events # <<>>

NextMessage_NoReset ==
    /\ position' = position + 1
    /\ events' = IF position + 1 = Len(MessagesOf(Head(events))) THEN Tail(events) ELSE events

NextMessage ==
    IF position + 1 = Len(MessagesOf(Head(events)))
    THEN position' = 0 /\ events' = Tail(events)
    ELSE position' = position + 1 /\ UNCHANGED events

\* BLOCK, TX_TRACE, TBL_ROW.
HandleContent ==
    /\ CanHandle /\ Message.type \in {"BLOCK", "TX_TRACE", "TBL_ROW"}
    /\ LET n == Head(events).num
           s == Statements(Message, n)
       IN  /\ rows' = Stored(s, Len(s), n, Version(Head(events)))
           /\ Collect(Message, n)
    /\ NextMessage
    /\ UNCHANGED <<shipVars, db, pc, memory, failed, stops>>

HandleBlockCompleted ==
    /\ CanHandle /\ Message.type = "BLOCK_COMPLETED"
    /\ LET n == Head(events).num
           s == Statements(Message, n)
       IN  /\ rows' = Stored(s, Len(s), n, Version(Head(events)))
           /\ AckEffect(AckOf(n))
    /\ domainjsons' = <<>> /\ handlejsons' = <<>> /\ burnaddresses' = {}
    /\ burnexpiredthisblock' = ClearedFlag
    /\ NextMessage
    /\ UNCHANGED <<shipVars, db, head, head_id, irreversible, start_block_num,
                   end_block_num, failed, stops>>

HandleFork ==
    /\ CanHandle /\ Message.type = "FORK"
    /\ rows' = RolledBack(Head(events).num)
    /\ AckEffect(Head(events).num - 1)
    /\ NextMessage
    /\ UNCHANGED <<shipVars, db, head, head_id, irreversible, start_block_num,
                   end_block_num, listVars, failed, stops>>

\* The next start announces a fork only in these cases.
Announced(d) == HasUndoSession(d) \/ ~Tables(d).saved

\* A FORK that is not applied is then the only copy.
OnlyCopyPending ==
    (\E i \in DOMAIN events : events[i].type = "fork") /\ ~Announced(db)

\* terminalerror after k statements, and the handler of the exception.
StatementFails ==
    /\ CanHandle /\ stops < MaxStops
    /\ LosesForks \/ ~OnlyCopyPending
    /\ LET n == Head(events).num
           s == Statements(Message, n)
       IN  \E k \in 0 .. Len(s) - 1 : rows' = Stored(s, k, n, Version(Head(events)))
    /\ failed' = TRUE
    /\ pc' = Aborted
    /\ UNCHANGED <<shipVars, db, memory, events, position, listVars, stops>>

-------------------------------------------------------------------------------
(* The receiver and its node.                                                *)

Quiet == events = <<>>

RelicReceiverStep ==
    /\ \/ \E end \in EndBlocks : Start(end)
       \/ \E given \in {0, StartBlock}, end \in EndBlocks :
             (LosesForks \/ ~HasUndoSession(db)) /\ StartRefused(given, end)
       \/ RequestBlocks
       \/ PauseTimer
       \/ (Quiet \/ failed) /\ ReceiveBlock
       \/ stops < MaxStops /\ Abort
       \/ stops < MaxStops /\ Quiet
             /\ \/ RejectResult
                \/ (LosesForks \/ Announced(PreparedDb)) /\ ReceiveBlockFails
                \/ ReceiveTracesFails
    /\ UNCHANGED <<relicVars, stops>>

\* The bound on stops is checked where something goes wrong, not when the
\* process ends.
ProcessEnds ==
    /\ Stop
    /\ LosesForks \/ ~OnlyCopyPending
    /\ position' = 0
    /\ domainjsons' = <<>> /\ handlejsons' = <<>> /\ burnaddresses' = {}
    /\ burnexpiredthisblock' = FALSE
    /\ failed' = FALSE
    /\ stops' = IF stops < MaxStops THEN stops + 1 ELSE stops
    /\ UNCHANGED rows

RelicChainStep == ChainStep /\ UNCHANGED <<relicVars, stops>>

RelicStep == HandleContent \/ HandleBlockCompleted \/ HandleFork

RelicNext ==
    \/ RelicChainStep
    \/ RelicReceiverStep
    \/ RelicStep
    \/ StatementFails
    \/ ProcessEnds

RelicSpec == RelicInit /\ [][RelicNext]_systemVars

\* appbase runs every queued handler, timers fire, the node sends what it has
\* and its LIB moves, and systemd starts a receiver that has ended.
Fairness ==
    /\ WF_systemVars(RelicReceiverStep /\ \E end \in EndBlocks : Start(end))
    /\ WF_systemVars(RelicReceiverStep /\ RequestBlocks)
    /\ WF_systemVars(RelicReceiverStep /\ PauseTimer /\ pc' # "paused")
    /\ WF_systemVars(RelicReceiverStep /\ ReceiveBlock)
    /\ WF_systemVars(RelicChainStep /\ lib' # lib)
    /\ WF_systemVars(RelicStep)
    /\ WF_systemVars(ProcessEnds)

FairRelicSpec == RelicSpec /\ Fairness

-------------------------------------------------------------------------------
(* What the database should hold of a block, and the properties.             *)

BurntBy(n, action) == UNION {Objects(m, action) : m \in ToSet(Content[n])}

ExpectedBurns(n) ==
    IF BurntBy(n, "burnexpired") = {} THEN <<>>
    ELSE ForEach(Content[n], LAMBDA m :
             IF RowOf(m, "domains") THEN Burnt("domains", m.of) ELSE <<>>)
         \o ForEach(Content[n], LAMBDA m :
             IF RowOf(m, "fiohandles") /\ m.of \notin BurntBy(n, "burnaddress")
             THEN Burnt("fiohandles", m.of) ELSE <<>>)

ExpectedStatements ==
    [n \in BlockNums |->
        <<Statement("insblocks", "")>>
        \o ForEach(Content[n], LAMBDA m : IF m.type = "TX_TRACE"
                                          THEN TransactionStatements[m] ELSE <<>>)
        \o ExpectedBurns(n)]

Expected(n, v) ==
    [i \in DOMAIN ExpectedStatements[n] |-> [statement |-> ExpectedStatements[n][i], id |-> v]]

RelicTypeOK ==
    /\ TypeOK
    /\ \A n \in BlockNums : \A i \in DOMAIN rows[n] : rows[n][i].id \in Versions
    /\ events # <<>> => position < Len(MessagesOf(Head(events)))
    /\ events = <<>> => position = 0
    /\ burnexpiredthisblock \in BOOLEAN /\ failed \in BOOLEAN
    /\ stops \in 0 .. MaxStops

\* Whatever a reader of the database sees of a block is a beginning of one
\* version of it: no row is there twice, none is left from a fork, a failed
\* statement or an earlier process, and a domain or handle is burnt only in the
\* block that burns it (async_send_events, load_state).
RowsOnce ==
    \A n \in BlockNums : \E v \in Versions : IsPrefix(rows[n], Expected(n, v))

\* Blocks are whole up to the last one in work, and are the receiver's.
RowsFollowReceiver ==
    SessionOpen /\ ~failed /\ Quiet /\ Tables(db).saved =>
        \A n \in BlockNums :
            /\ n > head => rows[n] = <<>>
            /\ n \in db.committed .. head /\ db.at[n].saved
                  => rows[n] = Expected(n, db.at[n].head_id)

\* Whatever the receiver has committed, so that no restart sends it again, the
\* database holds completely and as the chain has it (commit_db, ack_block).
CommittedComplete ==
    db.at[db.committed].saved =>
        \A n \in BlockNums : StartBlock <= n /\ n <= db.committed =>
            rows[n] = Expected(n, branch[n])

\* Forks, failed statements and stops only delay: in the end the database holds
\* the whole chain (async_send_events, check_pause).
DatabaseCatchesUp ==
    <>[](\A n \in BlockNums : n >= StartBlock /\ n <= tip => rows[n] = Expected(n, branch[n]))
================================================================================
