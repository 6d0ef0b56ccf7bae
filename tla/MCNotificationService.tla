------------------------ MODULE MCNotificationService ------------------------
(* Small instances of NotificationService.                                  *)
EXTENDS NotificationService

Limits(e, r, w, a) == [events |-> e, registrations |-> r, webhooks |-> w, attempts |-> a]

\* Handlers only; one webhook and two events; two webhooks; a bit of each.
MCBounds == {Limits(2, 3, 0, {}), Limits(2, 0, 1, {0, 2}), Limits(1, 0, 2, {1}),
             Limits(1, 1, 1, {0, 2})}
=============================================================================
