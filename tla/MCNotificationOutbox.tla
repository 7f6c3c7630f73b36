---------------------- MODULE MCNotificationOutbox ----------------------
(***************************************************************************)
(* Small instances of NotificationOutbox.                                  *)
(***************************************************************************)
EXTENDS NotificationOutbox

MCMessages == 1 .. MaxRows + MaxTroubles
=============================================================================
