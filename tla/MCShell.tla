------------------------------ MODULE MCShell -------------------------------
(* The keys that are used when Shell is model checked.                     *)
EXTENDS Shell

MCKeys == {"u", "bar", "enter", "back", "caps", "lshift", "rctrl"}
=============================================================================
