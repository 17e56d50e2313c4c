---------------------- MODULE MCBigSegmentStoreWrapper ----------------------
(* An instance of BigSegmentStoreWrapper for TLC.                            *)
EXTENDS BigSegmentStoreWrapper

CONSTANTS a, b
=============================================================================
