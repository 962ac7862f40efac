--------------------------- MODULE MCHubCommands ------------------------------
(* Two workstations: commands are queued for either, both or everyone, and     *)
(* only the first is switched on.                                              *)
EXTENDS HubCommands

CONSTANTS c1, c2
MCClient == {c1, c2}
MCOn == {c1}

=============================================================================
