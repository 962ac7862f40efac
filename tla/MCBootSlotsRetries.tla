-------------------------- MODULE MCBootSlotsRetries -------------------------
EXTENDS MCBootSlots, BootSlotsRetries

FairRetrySpec == RetrySpec /\ Fairness

=============================================================================
