---------------------------- MODULE MCRpcClient ----------------------------
(* An instance of RpcClient: two callers, or one where connections are     *)
(* made again.                                                             *)
EXTENDS RpcClient

MCCommands ==
  [post |-> {<<"call", "call">>},
   ws |-> {<<"call", "notify">>},
   auto |-> {<<"call">>, <<"rescan">>, <<"notify">>}]
============================================================================
