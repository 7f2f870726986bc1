---------------------------- MODULE MCControlPanel ----------------------------
\* A small instance of ControlPanel: the demo's readings are flagged wrongly, or not at all.
EXTENDS ControlPanel

MCScenario == {<<TRUE, FALSE>>}
===============================================================================
