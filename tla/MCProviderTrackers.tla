-------------------------- MODULE MCProviderTrackers --------------------------
EXTENDS ProviderTrackers
MCSkews == {[jitter |-> 1, lag |-> 0], [jitter |-> 0, lag |-> 1]}
===============================================================================
