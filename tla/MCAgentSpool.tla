---------------------------- MODULE MCAgentSpool ----------------------------
(* Small instances of AgentSpool. *)
EXTENDS AgentSpool

Mixed  == {<<"poison", "event", "silent">>, <<"poison", "poison">>}
Both   == {"REPLAY", "NORMAL"}
Replay == {"REPLAY"}
Plain  == {<<"event", "event">>}
=============================================================================
