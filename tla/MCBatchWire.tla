---------------------------- MODULE MCBatchWire ----------------------------
(* A wave of two calls for TLC.                                          *)
EXTENDS BatchWire

All == {"anthropic", "openai", "openrouter", "fixture"}
FileWires == {"openai"}
Two == {1, 2}
=============================================================================
