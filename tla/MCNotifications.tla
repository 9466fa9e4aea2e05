------------------------------ MODULE MCNotifications ------------------------------
(* Two bookings share the worker; one may be announced as closed twice, the *)
(* other only takes the worker's time and is closed in silence.             *)
EXTENDS Notifications, TLC
CONSTANTS b1, b2

AnyOf      == {Channels, {"hook"}}
MailBounds == b1 :> 2 @@ b2 :> 0
=============================================================================
