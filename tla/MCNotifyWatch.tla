--------------------------- MODULE MCNotifyWatch ----------------------------
(* NotifyWatch with a channel that fills up. *)
EXTENDS NotifyWatch
=============================================================================
