---------------------------- MODULE MCAskSession ----------------------------
(* Instances of AskSession for TLC. *)
EXTENDS AskSession

CONSTANT fire1

Reply(status, records, layers, record, needsPlace) ==
    [status |-> status, records |-> records, layers |-> layers, selected |-> record,
     needsPlace |-> needsPlace]

\* A record was found, and the question lacks a location.
FewReplies ==
    {Reply("answer", {fire1}, TRUE, fire1, FALSE), Reply("abstention", {}, FALSE, NoOne, TRUE)}
=============================================================================
