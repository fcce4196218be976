---------------------------- MODULE MCHoldLedger ----------------------------
(* Small instances of HoldLedger: one kind of flag, and holds whose own    *)
(* message says nothing.                                                   *)
EXTENDS HoldLedger

CONSTANTS x, p, q, ill

Profiles2 == {{}, {ill}}
Plain     == {{}}
=============================================================================
