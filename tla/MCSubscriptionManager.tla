----------------------- MODULE MCSubscriptionManager -----------------------
EXTENDS SubscriptionManager

CONSTANTS k1, k2

OneKey == {k1}
TwoKeys == {k1, k2}

\* Bound: the third adapter is only for NothingLostUninterrupted, which says
\* nothing once something has disturbed the run; the histories never go back.
Disturbed == byHand \/ troubled \/ interrupted
ThirdAdapterUndisturbed == Disturbed => socket <= 2

=============================================================================
