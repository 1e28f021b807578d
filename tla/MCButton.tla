------------------------------- MODULE MCButton -------------------------------
(* Values for Button: what the server may activate.  One event of each kind,   *)
(* a single click alone and with others.                                       *)
EXTENDS Button

ServerSets ==
    {{}, {Press}, {Hold}, {Click(1)}, {Click(2)}, {Click(1), Hold}, {Click(1), Click(2)}}
================================================================================
