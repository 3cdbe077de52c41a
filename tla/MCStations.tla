---------------------------- MODULE MCStations ----------------------------
(* Model checking of the station list: three stations of which some carry  *)
(* the name given by -n.                                                   *)
EXTENDS Stations

UpAndDown == {-1, 1}
=============================================================================
