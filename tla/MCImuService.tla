----------------------------- MODULE MCImuService -----------------------------
(* Two calibration samples, up to two unread samples of each sensor and an   *)
(* expiry of one tick: time stamps on either side of a tick age one after    *)
(* the other.                                                               *)
EXTENDS ImuService
=============================================================================
