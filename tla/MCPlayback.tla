----------------------------- MODULE MCPlayback -----------------------------
(* Model checking of one session on a buffer of three slots.                *)
EXTENDS Playback
=============================================================================
