----------------------------- MODULE MCStations -----------------------------
(***************************************************************************)
(* Instance of Stations for TLC.                                           *)
(***************************************************************************)
EXTENDS Stations

TwoChannels == <<75, RF_CHANNEL>>
=============================================================================
