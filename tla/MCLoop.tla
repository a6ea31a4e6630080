------------------------------- MODULE MCLoop -------------------------------
\* The loop with two actions of its own, one action of another thread, and a clock of a few ticks.
EXTENDS Loop

CONSTANTS owner, other, own1, own2, cross1

MCOthers == {other}
MCOwn == {own1, own2}
MCCross == {cross1}
MCDelays == {0, 1}
=============================================================================
