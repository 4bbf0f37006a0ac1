---------------------------- MODULE MCEventSpool ----------------------------
EXTENDS EventSpool

CONSTANTS s1, k1, k2

OneSlot == {s1}
TwoSinks == {k1, k2}

\* One sink that may fail through a whole recovery, or two at the same time.
SafeHorizons == {[sinks |-> {k1}, failures |-> 1, ticks |-> 4],
                 [sinks |-> {k1, k2}, failures |-> 0, ticks |-> 3]}

\* A text that is cut between two characters, and one that is cut inside a
\* character and refused by Record.  A text cut inside a U+FFFD, <<3, 3, TRUE>>,
\* is recorded and stops the export (README.md).
CutTexts == {<<4, 1, FALSE>>, <<3, 2, FALSE>>}
=============================================================================
