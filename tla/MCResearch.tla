----------------------------- MODULE MCResearch -----------------------------
EXTENDS Research, TLC

CONSTANTS r1, r2

MCRounds == (r1 :> {<<"annual", "unknown", "quarterly">>}) @@ (r2 :> {<<>>, <<"lookup", "annual">>})
=============================================================================
