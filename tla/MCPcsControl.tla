---------------------------- MODULE MCPcsControl ----------------------------
(* Discharging and resting, with a battery that allows power. *)
EXTENDS PcsControl
MCPowers == {0, 1}
MCLimits == {0, 1}
=============================================================================
