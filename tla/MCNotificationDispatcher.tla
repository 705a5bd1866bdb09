----------------------- MODULE MCNotificationDispatcher -----------------------
(* NotificationDispatcher for TLC; the bounds are in the configuration. *)
EXTENDS NotificationDispatcher
=============================================================================
