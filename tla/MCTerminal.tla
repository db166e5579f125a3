------------------------------ MODULE MCTerminal ------------------------------
(* The terminal alone, on a screen of two by two characters, for what its     *)
(* comment says of the cursor.                                                *)
EXTENDS KernTerminal, TLC
===============================================================================
