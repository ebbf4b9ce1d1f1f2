----------------------------- MODULE MCHistory ------------------------------
(* An instance of History for TLC: pruning and the window at once, on the  *)
(* second turn of a conversation that began with a tool call.              *)
EXTENDS History

CONSTANT r1

MCConversation ==
    <<Message("user", <<"u">>, <<>>, ""), Message("assistant", <<"a">>, <<"c">>, ""), Message("tool", <<"r">>, <<>>, "c"),
      Message("assistant", <<"b">>, <<>>, ""), Message("user", <<"v">>, <<>>, "")>>
MCInputs == {[messages |-> MCConversation, ide |-> FALSE, aware |-> FALSE]}

BothStages ==
    {[pin |-> FALSE, prune |-> TRUE, thoughts |-> FALSE, mode |-> "summarize", gate |-> "log", prompt |-> "none"]}

MCTargets == {[budget |-> 0, arrays |-> TRUE]}

MCKeepPct == <<15, 25>>

MCRegen == <<1, 4>>
=============================================================================
