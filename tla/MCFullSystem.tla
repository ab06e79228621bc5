---------------------------- MODULE MCFullSystem ----------------------------
EXTENDS FullSystem

\* The quantiles the maintainers' tools report, the largest interval, and two that
\* Rounding makes differ: slightly more than a half, of two intervals, may round
\* to one (as the double 0.1 of ten does), more than that may not.
MCFractions == {<<1, 2>>, <<99, 100>>, <<1, 1>>, <<51, 100>>, <<52, 100>>}
=============================================================================
