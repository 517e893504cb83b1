----------------------------- MODULE MCSentinel -----------------------------
EXTENDS Sentinel

\* Two sentinels, the first of which may fail, and three nodes.
CONSTANTS s1, s2, n1

MCList == <<s1, s2>>
=============================================================================
