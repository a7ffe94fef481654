---------------------------- MODULE MCRelicExporter ----------------------------
(* RelicExporter on small instances: blocks that burn expired domains and     *)
(* handles, one with a registration and a token transfer in one transaction,  *)
(* and one that burns a handle by its owner's wish.                           *)
EXTENDS RelicExporter

RemovedRow(table, name) == [type |-> "TBL_ROW", kind |-> table, of |-> name]
Action(action, name, own) ==
    [name |-> action, top |-> own, of |-> name, key |-> "other", items |-> <<"FIO">>]
TxTrace(actions) == [type |-> "TX_TRACE", actions |-> actions]

\* In the order of the code: table rows before transactions.
MCContent ==
    [n \in BlockNums |->
        CASE n % 3 = 2 -> <<RemovedRow("domains", "d"), TxTrace(<<Action("burnexpired", "", TRUE)>>)>>
          [] n % 3 = 0 -> <<RemovedRow("domains", "e"),
                            TxTrace(<<Action("regdomain", "f", TRUE), Action("transfer", "", FALSE),
                                      Action("addaddress", "g", TRUE)>>)>>
          [] n % 3 = 1 -> <<RemovedRow("fiohandles", "g"), RemovedRow("fiohandles", "h"),
                            TxTrace(<<Action("burnaddress", "h", TRUE)>>),
                            TxTrace(<<Action("burnexpired", "", TRUE)>>)>>]
================================================================================
