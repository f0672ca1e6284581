----------------------------- MODULE MCMsgFilter -----------------------------
(***************************************************************************)
(* MsgFilter with one client message per way handle tells messages apart.  *)
(* With a budget of 12 bytes a held Parse of one byte (six with its        *)
(* header) leaves room for one more such message, a second Parse leaves    *)
(* none, and a Bind of eight bytes never fits.                             *)
(***************************************************************************)
EXTENDS MsgFilter

Msg(type, sql, len) == [type |-> type, sql |-> sql, len |-> len]

MCMessages == {
    Msg("Query", "select", 1),     Msg("Query", "insert", 1),
    Msg("Parse", "select", 1),     Msg("Parse", "insert", 1),
    Msg("Parse", "malformed", 1),  Msg("Bind", "none", 1),
    Msg("Bind", "none", 8),        Msg("Execute", "none", 2),
    Msg("Sync", "none", 0),        Msg("Flush", "none", 0),
    Msg("FunctionCall", "none", 1),
    Msg("Other", "none", 1),       Msg("Other", "none", 8) }
=============================================================================
