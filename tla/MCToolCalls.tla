---------------------------- MODULE MCToolCalls ----------------------------
(* Small instances of ToolCalls for TLC.                                   *)
EXTENDS ToolCalls

CONSTANTS c1, c2, c3

Request(call, tool, args) == [call |-> call, tool |-> tool, args |-> args]

\* A Feishu call repeated with other arguments, two rival updates, a create and a list.
MixedRequests ==
    {Request(c1, "doc", 1), Request(c1, "send", 2),
     Request(c2, "update", 1), Request(c2, "list", 2), Request(c3, "update", 1), Request(c3, "create", 2)}

\* Documents only.
DocRequests == {Request(c1, "doc", 1), Request(c2, "doc", 1)}
=============================================================================
