----------------------------- MODULE MCAffinity -----------------------------
(* An instance of Affinity for TLC: two conversations behind one system    *)
(* message, with the same opener and different answers to it.              *)
EXTENDS Affinity

Says(role, text) == [role |-> role, text |-> text]
Led(answer) ==
    [scope |-> "a", messages |-> <<Says("system", "s"), Says("user", "o"), Says("assistant", answer)>>]

MCConversations == {Led("x"), Led("y")}
=============================================================================
