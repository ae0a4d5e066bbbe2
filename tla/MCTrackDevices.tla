-------------------------- MODULE MCTrackDevices --------------------------
(***************************************************************************)
(* TrackDevices with three lists: one that is missed can be followed by    *)
(* one that is not.                                                        *)
(***************************************************************************)
EXTENDS TrackDevices
=============================================================================
