---------------------------- MODULE MCInputPath ----------------------------
EXTENDS InputPath

CONSTANTS a, b, h1, h2

MCPanes == {a, b}
MCHolds == {h1, h2}

\* Two holds at once; a hold and modal input; one modal input after another.
MCMenus == {[holds |-> MCHolds, modals |-> {}],
            [holds |-> {h1}, modals |-> {"start"}],
            [holds |-> {}, modals |-> {"prompt", "keys", "start"}]}
=============================================================================
