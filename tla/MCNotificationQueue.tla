------------------------ MODULE MCNotificationQueue ------------------------
EXTENDS NotificationQueue

CONSTANTS watch, rejected, paper, other

\* One event a class, and two LOW events so that counts can be mixed up.
MCEvent == {watch, rejected, paper, other}
MCOffers == {[event |-> watch, pr |-> Low], [event |-> rejected, pr |-> Low],
             [event |-> other, pr |-> Medium], [event |-> paper, pr |-> High]}
=============================================================================
