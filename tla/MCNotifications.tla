--------------------------- MODULE MCNotifications ---------------------------
EXTENDS Notifications

MCMessages == {[kind |-> "recap", urgency |-> "now", keyed |-> TRUE],
               [kind |-> "question", urgency |-> "now", keyed |-> FALSE]}
=============================================================================
