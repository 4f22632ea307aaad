------------------------------ MODULE MCOutbox ------------------------------
EXTENDS Outbox

AllWantAll == [e \in Events |-> Subscribers]
=============================================================================
