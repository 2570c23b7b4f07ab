-------------------------- MODULE MCCartridgeBattery --------------------------
(* Two contents, a clock that wraps within the host's time.                *)
EXTENDS CartridgeBattery
=============================================================================
