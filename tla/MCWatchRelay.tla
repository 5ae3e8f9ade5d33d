---------------------------- MODULE MCWatchRelay ----------------------------
\* The live relay for TLC: a chat session that is over, then a task or a
\* planning phase.
EXTENDS WatchRelay

MCKinds == {"task", "plan"}
=============================================================================
