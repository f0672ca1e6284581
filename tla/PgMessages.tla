----------------------------- MODULE PgMessages -----------------------------
(***************************************************************************)
(* The client messages of the PostgreSQL protocol as the proxy tells them  *)
(* apart (internal/pgwire, internal/proxy/pg) and the policy's verdict on  *)
(* the SQL two of them carry (internal/policy).                            *)
(*                                                                         *)
(* A message is its type, the class of its SQL and its payload length.     *)
(* The text of a statement is abstracted to what the policy and the        *)
(* backend distinguish.                                                    *)
(***************************************************************************)
EXTENDS Integers, Sequences

CONSTANT
    PolicyReadOnly    \* policy.Policy.ReadOnly: the one rule there is

ASSUME PolicyAssumption == PolicyReadOnly \in BOOLEAN

(***************************************************************************)
(* "Other" stands for every type handle has no case for: CopyData,         *)
(* CopyDone, CopyFail, Terminate, PasswordMessage.                         *)
(***************************************************************************)
HeldTypes == {"Parse", "Bind", "Execute", "Describe", "Close"}
MsgType   == HeldTypes \cup {"Query", "Sync", "Flush", "FunctionCall", "Other"}

Sql == {"none", "select", "insert", "begin", "commit", "malformed"}

Message == [type : MsgType, sql : Sql, len : Nat]

(***************************************************************************)
(* A message cut off inside its payload is what a dying client leaves on   *)
(* a stream: its header and a part of the payload it announced.            *)
(***************************************************************************)
Torn(m)     == [type |-> "Torn", sql |-> m.sql, len |-> m.len]
WireMessage == [type : MsgType \cup {"Torn"}, sql : Sql, len : Nat]

\* The five bytes in front of every payload (pgwire.Header.Encode).
HeaderLen == 5

\* Messages of an extended-protocol batch, which only a Sync completes.
InBatch(m) == m.type \in HeldTypes \cup {"Flush"}

\* Messages the backend answers with its own ReadyForQuery.
Closes(m) == m.type \in {"Query", "Sync", "FunctionCall"}

-----------------------------------------------------------------------------

Enforces == PolicyReadOnly

\* sqlscan.ReadOnly on the statement classes: transaction control passes.
ReadOnlySql(sql) == sql # "insert"

Evaluate(sql) ==
    IF PolicyReadOnly /\ ~ ReadOnlySql(sql) THEN "Blocked" ELSE "Allowed"

\* Message.ParseQueryText: a Parse without both terminators carries no SQL.
ParseFails(m) == m.sql = "malformed"

(***************************************************************************)
(* What must not reach the database while a policy is enforced: SQL it     *)
(* blocks, a Parse it cannot read and a fast-path call.                    *)
(***************************************************************************)
Refused(m) ==
    /\ Enforces
    /\ \/ m.type = "Query" /\ Evaluate(m.sql) = "Blocked"
       \/ m.type = "Parse" /\ (ParseFails(m) \/ Evaluate(m.sql) = "Blocked")
       \/ m.type = "FunctionCall"
=============================================================================
