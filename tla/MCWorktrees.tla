---------------------------- MODULE MCWorktrees ----------------------------
\* Worktrees for TLC: two tasks, one of which may be done again.
EXTENDS Worktrees, TLC

Symmetry == Permutations(Tasks)
=============================================================================
