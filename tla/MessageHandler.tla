--------------------------- MODULE MessageHandler ---------------------------
(***************************************************************************)
(* MessageHandler of src/base/message_handler.cc with MessageStats and a   *)
(* VectorMessageStore, as a record with pure operations.  Of a message     *)
(* only the type is kept; writing it to the MessageWriter changes nothing. *)
(***************************************************************************)
EXTENDS Naturals, Sequences

MessageTypes == {"error", "warning", "status"}

NewMessageHandler ==
    [stats |-> [type \in MessageTypes |-> 0], messages |-> <<>>]

ReportMessage(handler, type) ==
    [stats    |-> [handler.stats EXCEPT ![type] = @ + 1],
     messages |-> Append(handler.messages, type)]

ClearMessages(handler) ==
    [stats |-> [type \in MessageTypes |-> 0], messages |-> <<>>]

HasErrorMessages(handler) == handler.stats["error"] > 0
=============================================================================
