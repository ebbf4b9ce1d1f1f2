---------------------------- MODULE MCSseReader -----------------------------
(* An instance of SseReader for TLC: an OpenAI upstream behind an          *)
(* Anthropic client, and a rejected URL that comes in several deltas.      *)
EXTENDS SseReader

MCTexts == {<<"w", "_", "h", "t", "_", "w">>}
=============================================================================
