-------------------------- MODULE MCSizeAuthority --------------------------
EXTENDS SizeAuthority, TLC

CONSTANTS c1, c2, c3, t1, t2, p1, p2

MCClients == {c1, c2, c3}
MCTabs == {t1, t2}
MCPanes == {p1, p2}

\* Nothing tells clients, tabs or panes apart but what happened to them.
Symmetry == Permutations(MCClients) \cup Permutations(MCTabs) \cup Permutations(MCPanes)
=============================================================================
