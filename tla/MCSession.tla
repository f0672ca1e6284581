------------------------------ MODULE MCSession ------------------------------
(***************************************************************************)
(* Session with the messages a driver sends around one transaction.        *)
(* With a budget of 12 bytes one Parse (six with its header) leaves room   *)
(* for an Execute of no bytes, and a batch of three is released early.     *)
(***************************************************************************)
EXTENDS Session

Msg(type, sql, len) == [type |-> type, sql |-> sql, len |-> len]

MCMessages == {
    Msg("Query", "begin", 1),      Msg("Query", "insert", 1),
    Msg("Query", "commit", 1),
    Msg("Parse", "select", 1),     Msg("Parse", "insert", 1),
    Msg("Execute", "none", 0),
    Msg("Sync", "none", 0),        Msg("Flush", "none", 0),
    Msg("FunctionCall", "none", 1), Msg("Other", "none", 1) }
=============================================================================
