--------------------------- MODULE WorktreeProofs ---------------------------
(***************************************************************************)
(* What is kept of an agent's work, for any number of tasks, pieces of     *)
(* work, sessions and calls of the branch service.                         *)
(***************************************************************************)
EXTENDS Worktrees, TLAPS

SessionPcs == {"capture", "ensure", "stale", "work", "over", "push", "pr", "cleanup"}
SharedPcs == {"capturewip", "diff", "merge", "abort", "reset", "merged", "failed", "removetree", "removebranch"}
Thread == [pc : SessionPcs \cup SharedPcs \cup {"idle"}, task : Tasks \cup {None}, merged : BOOLEAN, delete : BOOLEAN]

(* A thread that does something has a task to do it for, and no call of    *)
(* the branch service runs the steps of a session.                         *)
ThreadsTyped ==
    /\ p \in [Threads -> Thread]
    /\ \A x \in Threads : ~At(x, "idle") => T(x) \in Tasks
    /\ p["call"].pc \notin SessionPcs

Types ==
    /\ TypeOK /\ ThreadsTyped /\ made \in Nat
    /\ committed \in [Tasks -> SUBSET Work] /\ landed \in [Tasks -> SUBSET Work]

Landed(t) == committed[t] \subseteq head \cup remote[t] \cup discarded

Early == {"idle", "capture", "ensure", "stale", "work"}

(* A session that has merged, or is past the command that did it, needs    *)
(* the branch no more; one whose agent may still commit has not merged.    *)
SessionInv ==
    /\ At("session", "pr") \/ At("session", "reset") \/ p["session"].merged => Landed(T("session"))
    /\ p["session"].pc \in Early => ~p["session"].merged

Kept == CommittedWorkKept /\ ReportedWorkLanded /\ SessionInv

IInv == Types /\ Kept /\ OpenMergeTold

LEMMA GoneIsNoWork == 0 \notin Work /\ Gone \notin SUBSET Work
BY WorktreeAssumption DEF Work, Gone

LEMMA IdleTyped == Idle \in Thread /\ Idle.pc = "idle"
BY DEF Idle, Thread, None

-----------------------------------------------------------------------------
(* Types.                                                                   *)

LEMMA GotoTyped ==
  ASSUME ThreadsTyped, NEW x \in Threads, ~At(x, "idle"), NEW pc \in SessionPcs \cup SharedPcs,
         x = "session" \/ pc \notin SessionPcs, Goto(x, pc)
  PROVE  ThreadsTyped'
BY DEF ThreadsTyped, Thread, Threads, At, T, Goto

LEMMA ReturnsTyped ==
  ASSUME ThreadsTyped, NEW x \in Threads, Returns(x)
  PROVE  ThreadsTyped'
BY IdleTyped DEF ThreadsTyped, Threads, At, T, Returns, SessionPcs

LEMMA MergedTyped ==
  ASSUME Types, NEW x \in Threads, ~At(x, "idle"), NEW merged \in BOOLEAN, Merged(x, merged)
  PROVE  ThreadsTyped' /\ landed' \in [Tasks -> SUBSET Work]
<1>1. ThreadsTyped'
  BY DEF Types, ThreadsTyped, Thread, Threads, At, T, Merged, SessionPcs, SharedPcs
<1>2. landed' \in [Tasks -> SUBSET Work]
  BY DEF Types, ThreadsTyped, Merged, Lands, At
<1> QED BY <1>1, <1>2

LEMMA GitTyped ==
  ASSUME Types, NEW x \in Threads, RunsGit(x)
  PROVE  Types'
<1>1. CASE AutoCommit(x)
  <2>1. ThreadsTyped' BY <1>1, GotoTyped DEF AutoCommit, Types, At, SessionPcs, SharedPcs, Threads
  <2>3. T(x) \in Tasks BY <1>1 DEF AutoCommit, Types, ThreadsTyped, At, Threads
  <2> QED BY <1>1, <2>1, <2>3, GoneIsNoWork DEF AutoCommit, Types, TypeOK, Has, Unchanged, root, trees, history, bounds
<1>2. CASE NothingToMerge(x)
  <2>1. ThreadsTyped' /\ landed' \in [Tasks -> SUBSET Work] BY <1>2, MergedTyped DEF NothingToMerge, At
  <2> QED BY <1>2, <2>1, GoneIsNoWork DEF NothingToMerge, Types, TypeOK, Has, Unchanged, root, trees, history, bounds
<1>3. CASE HasDiff(x)
  <2>1. ThreadsTyped' BY <1>3, GotoTyped DEF HasDiff, Types, At, SessionPcs, SharedPcs, Threads
  <2> QED BY <1>3, <2>1, GoneIsNoWork DEF HasDiff, Types, TypeOK, Has, Unchanged, root, trees, history, bounds
<1>4. CASE DiffFails(x)
  <2>1. ThreadsTyped' BY <1>4, GotoTyped DEF DiffFails, Types, At, SessionPcs, SharedPcs, Threads
  <2> QED BY <1>4, <2>1, GoneIsNoWork DEF DiffFails, Types, TypeOK, Has, Unchanged, root, trees, history, bounds
<1>5. CASE Merge(x)
  <2>1. ThreadsTyped' BY <1>5, GotoTyped DEF Merge, Types, At, SessionPcs, SharedPcs, Threads
  <2>3. T(x) \in Tasks BY <1>5 DEF Merge, Types, ThreadsTyped, At, Threads
  <2> QED BY <1>5, <2>1, <2>3, GoneIsNoWork DEF Merge, Types, TypeOK, Has, Unchanged, root, trees, history, bounds
<1>6. CASE MergeStops(x)
  <2>1. ThreadsTyped' BY <1>6, GotoTyped DEF MergeStops, Types, At, SessionPcs, SharedPcs, Threads
  <2>3. T(x) \in Tasks BY <1>6 DEF MergeStops, Types, ThreadsTyped, At, Threads
  <2> QED BY <1>6, <2>1, <2>3, GoneIsNoWork DEF MergeStops, Types, TypeOK, Has, Unchanged, root, trees, history, bounds
<1>7. CASE AbortMerge(x)
  <2>1. ThreadsTyped' BY <1>7, GotoTyped DEF AbortMerge, Types, At, SessionPcs, SharedPcs, Threads
  <2> QED BY <1>7, <2>1, GoneIsNoWork DEF AbortMerge, Aborts, Clears, Types, TypeOK, Has, Unchanged, root, trees, history, bounds
<1>8. CASE ResetHard(x)
  <2>1. ThreadsTyped' /\ landed' \in [Tasks -> SUBSET Work] BY <1>8, MergedTyped DEF ResetHard, At
  <2> QED BY <1>8, <2>1, GoneIsNoWork DEF ResetHard, Clears, Types, TypeOK, Has, Unchanged, root, trees, history, bounds
<1>9. CASE MergeFailed(x)
  <2>1. ThreadsTyped' BY <1>9, ReturnsTyped DEF MergeFailed, Types, Threads
  <2>3. T(x) \in Tasks BY <1>9 DEF MergeFailed, Types, ThreadsTyped, At, Threads
  <2>4. file' \in [Tasks -> [done : BOOLEAN, failure : BOOLEAN]]
    <3>1. CASE x = "session"
      <4>1. file' = [file EXCEPT ![T(x)] = [done |-> TRUE, failure |-> TRUE]] BY <1>9, <3>1 DEF MergeFailed
      <4> QED BY <2>3, <4>1 DEF Types, TypeOK
    <3>2. CASE x # "session" BY <1>9, <3>2 DEF MergeFailed, Types, TypeOK
    <3> QED BY <3>1, <3>2
  <2> QED BY <1>9, <2>1, <2>4 DEF MergeFailed, Types, TypeOK, Has, Unchanged, root, trees, history, bounds
<1>10. CASE RemoveTree(x)
  <2>1. ThreadsTyped' BY <1>10, GotoTyped DEF RemoveTree, Types, At, SessionPcs, SharedPcs, Threads
  <2>3. T(x) \in Tasks BY <1>10 DEF RemoveTree, Types, ThreadsTyped, At, Threads
  <2> QED BY <1>10, <2>1, <2>3, GoneIsNoWork DEF RemoveTree, Types, TypeOK, Has, Unchanged, root, trees, history, bounds
<1>11. CASE RemoveBranch(x)
  <2>1. ThreadsTyped' BY <1>11, ReturnsTyped DEF RemoveBranch, Types, Threads
  <2>3. T(x) \in Tasks BY <1>11 DEF RemoveBranch, Types, ThreadsTyped, At, Threads
  <2> QED BY <1>11, <2>1, <2>3, GoneIsNoWork DEF RemoveBranch, Types, TypeOK, Has, Unchanged, root, trees, history, bounds
<1>12. CASE MergeReturns(x)
  <2>1. ThreadsTyped' BY <1>12, GotoTyped, ReturnsTyped DEF MergeReturns, Types, At, SessionPcs, SharedPcs, Threads
  <2> QED BY <1>12, <2>1, GoneIsNoWork DEF MergeReturns, Types, TypeOK, Has, Unchanged, root, trees, history, bounds
<1> QED BY <1>1, <1>2, <1>3, <1>4, <1>5, <1>6, <1>7, <1>8, <1>9, <1>10, <1>11, <1>12 DEF RunsGit

LEMMA SessionTyped ==
  ASSUME Types, RunsSession("session")
  PROVE  Types'
<1>1. CASE CommitDirtyMain("session")
  <2>1. ThreadsTyped' BY <1>1, GotoTyped DEF CommitDirtyMain, Types, At, SessionPcs, SharedPcs, Threads
  <2> QED BY <1>1, <2>1, GoneIsNoWork DEF CommitDirtyMain, Clears, Types, TypeOK, Has, Unchanged, root, trees, history, bounds
<1>2. CASE ReuseWorktree("session")
  <2>1. ThreadsTyped' BY <1>2, GotoTyped DEF ReuseWorktree, Types, At, SessionPcs, SharedPcs, Threads
  <2> QED BY <1>2, <2>1, GoneIsNoWork DEF ReuseWorktree, Types, TypeOK, Has, Unchanged, root, trees, history, bounds
<1>3. CASE AddWorktree("session")
  <2>1. ThreadsTyped' BY <1>3, GotoTyped DEF AddWorktree, Types, At, SessionPcs, SharedPcs, Threads
  <2>3. T("session") \in Tasks BY <1>3 DEF AddWorktree, Types, ThreadsTyped, At, Threads
  <2>4. CASE Has(T("session"))
    BY <1>3, <2>1, <2>4 DEF AddWorktree, Types, TypeOK, Has, Unchanged, root, trees, history, bounds
  <2>5. CASE ~Has(T("session"))
    <3>1. branch' = [branch EXCEPT ![T("session")] = head] /\ tree' = [tree EXCEPT ![T("session")] = TRUE] /\ wip' = wip
      BY <1>3, <2>5 DEF AddWorktree
    <3>2. head \in SUBSET Work /\ head # Gone BY GoneIsNoWork DEF Types, TypeOK
    <3>3. \A t \in Tasks : (tree'[t] => branch'[t] # Gone) /\ (~tree'[t] => wip'[t] = {})
      BY <2>3, <3>1, <3>2 DEF Types, TypeOK, Has
    <3> QED BY <1>3, <2>1, <3>1, <3>2, <3>3 DEF AddWorktree, Types, TypeOK, Has, Unchanged, root, history, bounds
  <2> QED BY <2>4, <2>5
<1>4. CASE DeleteStaleBranch("session")
  <2>1. ThreadsTyped' BY <1>4, GotoTyped DEF DeleteStaleBranch, Types, At, SessionPcs, SharedPcs, Threads
  <2>3. T("session") \in Tasks BY <1>4 DEF DeleteStaleBranch, Types, ThreadsTyped, At, Threads
  <2> QED BY <1>4, <2>1, <2>3, GoneIsNoWork DEF DeleteStaleBranch, Types, TypeOK, Has, Unchanged, root, trees, history, bounds
<1>5. CASE StartFails("session")
  <2>1. ThreadsTyped' BY <1>5, ReturnsTyped DEF StartFails, Types, Threads
  <2> QED BY <1>5, <2>1, GoneIsNoWork DEF StartFails, Types, TypeOK, Has, Unchanged, root, trees, history, bounds
<1>6. CASE AgentEdits("session")
  <2>1. ThreadsTyped' BY <1>6 DEF AgentEdits, Types, ThreadsTyped, Unchanged, At, T
  <2>3. T("session") \in Tasks BY <1>6 DEF AgentEdits, Types, ThreadsTyped, At, Threads
  <2>4. made + 1 \in Work /\ made + 1 \in Nat BY <1>6, WorktreeAssumption DEF AgentEdits, Types, Work
  <2>5. wip' \in [Tasks -> SUBSET Work] BY <1>6, <2>3, <2>4 DEF AgentEdits, Types, TypeOK
  <2>6. \A t \in Tasks : ~tree[t] => wip'[t] = {} BY <1>6, <2>3 DEF AgentEdits, Types, TypeOK
  <2> QED BY <1>6, <2>1, <2>4, <2>5, <2>6 DEF AgentEdits, Types, TypeOK, Has, Unchanged, root, trees, history, bounds
<1>7. CASE AgentCommits("session")
  <2>1. ThreadsTyped' BY <1>7 DEF AgentCommits, Types, ThreadsTyped, Unchanged, At, T
  <2>3. T("session") \in Tasks BY <1>7 DEF AgentCommits, Types, ThreadsTyped, At, Threads
  <2> QED BY <1>7, <2>1, <2>3, GoneIsNoWork DEF AgentCommits, Types, TypeOK, Has, Unchanged, root, trees, history, bounds
<1>8. CASE AgentEnds("session")
  <2>1. ThreadsTyped' BY <1>8, GotoTyped DEF AgentEnds, Types, At, SessionPcs, SharedPcs, Threads
  <2>3. T("session") \in Tasks BY <1>8 DEF AgentEnds, Types, ThreadsTyped, At, Threads
  <2>4. PICK done \in {file[T("session")].done, TRUE} : file' = [file EXCEPT ![T("session")].done = done]
    BY <1>8 DEF AgentEnds
  <2>5. done \in BOOLEAN BY <2>3, <2>4 DEF Types, TypeOK
  <2>6. file' \in [Tasks -> [done : BOOLEAN, failure : BOOLEAN]] BY <2>3, <2>4, <2>5 DEF Types, TypeOK
  <2> QED BY <1>8, <2>1, <2>6 DEF AgentEnds, Types, TypeOK, Has, Unchanged, root, trees, history, bounds
<1>9. CASE Skips("session")
  <2>1. ThreadsTyped' BY <1>9, ReturnsTyped DEF Skips, Types, Threads
  <2> QED BY <1>9, <2>1, GoneIsNoWork DEF Skips, Types, TypeOK, Has, Unchanged, root, trees, history, bounds
<1>10. CASE Decides("session")
  <2>1. ThreadsTyped' BY <1>10, GotoTyped DEF Decides, Types, At, SessionPcs, SharedPcs, Threads
  <2> QED BY <1>10, <2>1, GoneIsNoWork DEF Decides, Types, TypeOK, Has, Unchanged, root, trees, history, bounds
<1>11. CASE PushBranch("session")
  <2>1. ThreadsTyped' BY <1>11, GotoTyped DEF PushBranch, Types, At, SessionPcs, SharedPcs, Threads
  <2>3. T("session") \in Tasks BY <1>11 DEF PushBranch, Types, ThreadsTyped, At, Threads
  <2> QED BY <1>11, <2>1, <2>3, GoneIsNoWork DEF PushBranch, Types, TypeOK, Has, Unchanged, root, trees, history, bounds
<1>12. CASE CreatePR("session")
  <2>1. ThreadsTyped' BY <1>12 DEF CreatePR, Types, ThreadsTyped, Thread, At, T, SessionPcs, SharedPcs, Threads
  <2>2. landed' \in [Tasks -> SUBSET Work] BY <1>12 DEF CreatePR, Lands, Types, ThreadsTyped
  <2> QED BY <1>12, <2>1, <2>2, GoneIsNoWork DEF CreatePR, Types, TypeOK, Has, Unchanged, root, trees, history, bounds
<1>13. CASE PRFails("session")
  <2>1. ThreadsTyped' BY <1>13, GotoTyped DEF PRFails, Types, At, SessionPcs, SharedPcs, Threads
  <2> QED BY <1>13, <2>1, GoneIsNoWork DEF PRFails, Types, TypeOK, Has, Unchanged, root, trees, history, bounds
<1>14. CASE Cleanup("session")
  <2>1. ThreadsTyped' BY <1>14, GotoTyped, ReturnsTyped DEF Cleanup, Types, At, SessionPcs, SharedPcs, Threads
  <2> QED BY <1>14, <2>1, GoneIsNoWork DEF Cleanup, Types, TypeOK, Has, Unchanged, root, trees, history, bounds
<1> QED BY <1>1, <1>2, <1>3, <1>4, <1>5, <1>6, <1>7, <1>8, <1>9, <1>10, <1>11, <1>12, <1>13, <1>14 DEF RunsSession

-----------------------------------------------------------------------------
(* Kept.                                                                    *)

(* A step that loses nothing keeps what was kept before. *)
LEMMA NothingLost ==
  ASSUME CommittedWorkKept, ReportedWorkLanded, committed' = committed, landed' = landed,
         \A t \in Tasks : remote[t] \subseteq remote'[t] /\ branch[t] \subseteq branch'[t],
         head \subseteq head', discarded \subseteq discarded'
  PROVE  /\ CommittedWorkKept' /\ ReportedWorkLanded'
         /\ \A t \in Tasks : Landed(t) => Landed(t)'
BY DEF CommittedWorkKept, ReportedWorkLanded, Landed

LEMMA SessionGoes ==
  ASSUME Types, SessionInv, \A t \in Tasks : Landed(t) => Landed(t)',
         NEW x \in Threads, ~At(x, "idle"), NEW pc, Goto(x, pc),
         x = "session" /\ pc \in {"pr", "reset"} => \A t \in Tasks : t = T(x) => Landed(t)',
         x = "session" /\ pc \in Early => p[x].pc \in Early
  PROVE  SessionInv'
<1>1. T("session")' = T("session") /\ p'["session"].merged = p["session"].merged
  BY DEF Types, ThreadsTyped, Thread, Threads, Goto, T
<1>2. CASE x = "session"
  <2>1. p'["session"].pc = pc /\ T("session") \in Tasks
    BY <1>2 DEF Types, ThreadsTyped, Thread, Threads, Goto, At
  <2> QED BY <1>1, <1>2, <2>1 DEF SessionInv, At, Landed, T
<1>3. CASE x # "session"
  <2>1. p'["session"] = p["session"]
    BY <1>3 DEF Types, ThreadsTyped, Threads, Goto
  <2>2. p["session"].pc # "idle" => T("session") \in Tasks
    BY DEF Types, ThreadsTyped, Threads, At
  <2> QED BY <1>1, <2>1, <2>2 DEF SessionInv, At, Landed, T, Early
<1> QED BY <1>2, <1>3

LEMMA SessionReturns ==
  ASSUME Types, SessionInv, \A t \in Tasks : Landed(t) => Landed(t)',
         NEW x \in Threads, Returns(x)
  PROVE  SessionInv'
<1>1. CASE x = "session"
  <2>1. p'["session"] = Idle
    BY <1>1 DEF Types, ThreadsTyped, Threads, Returns
  <2> QED BY <2>1 DEF SessionInv, At, Idle
<1>2. CASE x # "session"
  <2>1. p'["session"] = p["session"]
    BY <1>2 DEF Types, ThreadsTyped, Threads, Returns
  <2>2. p["session"].pc # "idle" => T("session") \in Tasks
    BY DEF Types, ThreadsTyped, Threads, At
  <2> QED BY <2>1, <2>2 DEF SessionInv, At, Landed, T, Early
<1> QED BY <1>1, <1>2

(* What a task's merge reports is there. *)
LEMMA MergedKeeps ==
  ASSUME Types, Kept, NEW x \in Threads, ~At(x, "idle"), NEW merged \in BOOLEAN, Merged(x, merged),
         x = "session" => Landed(T(x)),
         head' = head, branch' = branch, remote' = remote, committed' = committed, discarded' = discarded
  PROVE  Kept'
<1>1. CommittedWorkKept' BY DEF Kept, CommittedWorkKept
<1>2. ReportedWorkLanded'
  <2>1. CASE x = "session"
    <3>1. landed' = [landed EXCEPT ![T(x)] = committed[T(x)]] BY <2>1 DEF Merged, Lands
    <3> QED BY <2>1, <3>1 DEF Types, Kept, ReportedWorkLanded, Landed
  <2>2. CASE x # "session" BY <2>2 DEF Merged, Kept, ReportedWorkLanded
  <2> QED BY <2>1, <2>2
<1>3. SessionInv'
  <2>1. CASE x = "session"
    <3>1. p'["session"].pc = "cleanup" /\ T("session")' = T("session")
      BY <2>1 DEF Merged, Types, ThreadsTyped, Thread, Threads, T
    <3> QED BY <2>1, <3>1 DEF SessionInv, At, Landed, Early
  <2>2. CASE x # "session"
    <3>1. p'["session"] = p["session"]
      BY <2>2 DEF Merged, Types, ThreadsTyped, Threads
    <3> QED BY <3>1 DEF Kept, SessionInv, At, Landed, T, Early
  <2> QED BY <2>1, <2>2
<1> QED BY <1>1, <1>2, <1>3 DEF Kept

LEMMA GitKeeps ==
  ASSUME Types, Kept, NEW x \in Threads, RunsGit(x)
  PROVE  Kept'
<1> DEFINE Quiet == /\ CommittedWorkKept' /\ ReportedWorkLanded'
                    /\ \A t \in Tasks : Landed(t) => Landed(t)'
<1>1. CASE AutoCommit(x)
  <2>1. T(x) \in Tasks /\ ~At(x, "idle") BY <1>1 DEF AutoCommit, Types, ThreadsTyped, At
  <2>2. \A t \in Tasks : branch[t] \subseteq branch'[t] BY <1>1, <2>1 DEF AutoCommit, Types, TypeOK
  <2>3. Quiet BY <1>1, <2>2, NothingLost DEF AutoCommit, Unchanged, root, history, Kept
  <2>4. SessionInv' BY <1>1, <2>1, <2>3, SessionGoes DEF AutoCommit, Kept, Early
  <2> QED BY <2>3, <2>4 DEF Kept
<1>2. CASE NothingToMerge(x)
  <2>1. T(x) \in Tasks /\ ~At(x, "idle") BY <1>2 DEF NothingToMerge, Types, ThreadsTyped, At
  <2>2. Landed(T(x)) BY <1>2, <2>1 DEF NothingToMerge, Kept, CommittedWorkKept, Landed
  <2> QED BY <1>2, <2>1, <2>2, MergedKeeps DEF NothingToMerge, root, trees
<1>3. CASE HasDiff(x)
  <2>1. Quiet BY <1>3, NothingLost DEF HasDiff, Unchanged, root, trees, history, Kept
  <2>2. SessionInv' BY <1>3, <2>1, SessionGoes DEF HasDiff, At, Kept, Early
  <2> QED BY <2>1, <2>2 DEF Kept
<1>4. CASE DiffFails(x)
  <2>1. Quiet BY <1>4, NothingLost DEF DiffFails, Unchanged, root, trees, history, Kept
  <2>2. SessionInv' BY <1>4, <2>1, SessionGoes DEF DiffFails, At, Kept, Early
  <2> QED BY <2>1, <2>2 DEF Kept
<1>5. CASE Merge(x)
  <2>1. Quiet BY <1>5, NothingLost DEF Merge, Unchanged, trees, history, Kept
  <2>2. T(x) \in Tasks BY <1>5 DEF Merge, Types, ThreadsTyped, At
  <2>3. \A t \in Tasks : t = T(x) => Landed(t)'
    BY <1>5, <2>2 DEF Merge, Kept, CommittedWorkKept, Landed, Unchanged, trees, history
  <2>4. SessionInv' BY <1>5, <2>1, <2>3, SessionGoes DEF Merge, At, Kept, Early
  <2> QED BY <2>1, <2>4 DEF Kept
<1>6. CASE MergeStops(x)
  <2>1. Quiet BY <1>6, NothingLost DEF MergeStops, Unchanged, root, trees, history, Kept
  <2>2. SessionInv' BY <1>6, <2>1, SessionGoes DEF MergeStops, At, Kept, Early
  <2> QED BY <2>1, <2>2 DEF Kept
<1>7. CASE AbortMerge(x)
  <2>1. Quiet BY <1>7, NothingLost DEF AbortMerge, Aborts, Unchanged, root, trees, history, Kept
  <2>2. SessionInv' BY <1>7, <2>1, SessionGoes DEF AbortMerge, At, Kept, Early
  <2> QED BY <2>1, <2>2 DEF Kept
<1>8. CASE ResetHard(x)
  <2>1. x = "session" => Landed(T(x)) BY <1>8 DEF ResetHard, Kept, SessionInv
  <2>2. ~At(x, "idle") BY <1>8 DEF ResetHard, At
  <2> QED BY <1>8, <2>1, <2>2, MergedKeeps DEF ResetHard, trees
<1>9. CASE MergeFailed(x)
  <2>1. Quiet BY <1>9, NothingLost DEF MergeFailed, Unchanged, root, trees, history, Kept
  <2>2. SessionInv' BY <1>9, <2>1, SessionReturns DEF MergeFailed, Kept
  <2> QED BY <2>1, <2>2 DEF Kept
<1>10. CASE RemoveTree(x)
  <2>1. Quiet BY <1>10, NothingLost DEF RemoveTree, Unchanged, root, Kept
  <2>2. SessionInv' BY <1>10, <2>1, SessionGoes DEF RemoveTree, At, Kept, Early
  <2> QED BY <2>1, <2>2 DEF Kept
<1>11. CASE RemoveBranch(x)
  <2>1. T(x) \in Tasks BY <1>11 DEF RemoveBranch, Types, ThreadsTyped, At
  <2>2. head' = head /\ remote' = remote /\ committed' = committed /\ landed' = landed
    BY <1>11 DEF RemoveBranch, root
  <2>3. discarded \subseteq discarded' BY <1>11 DEF RemoveBranch
  <2>4. ReportedWorkLanded' /\ \A t \in Tasks : Landed(t) => Landed(t)'
    BY <2>2, <2>3 DEF Kept, ReportedWorkLanded, Landed
  <2>5. CommittedWorkKept'
    <3>1. CASE branch' = branch BY <2>2, <2>3, <3>1 DEF Kept, CommittedWorkKept
    <3>2. CASE branch' = [branch EXCEPT ![T(x)] = Gone]
                /\ branch[T(x)] \subseteq head \cup remote[T(x)] \cup discarded'
      BY <2>1, <2>2, <2>3, <3>2 DEF Types, TypeOK, Kept, CommittedWorkKept
    <3>3. CASE branch' = [branch EXCEPT ![T(x)] = Gone] /\ Landed(T(x))
      BY <2>1, <2>2, <2>3, <3>3 DEF Types, TypeOK, Kept, CommittedWorkKept, Landed
    <3>4. CASE x = "session" /\ p[x].merged BY <1>11, <3>1, <3>3, <3>4 DEF RemoveBranch, Kept, SessionInv
    <3>5. CASE x = "session" /\ ~p[x].merged BY <1>11, <3>1, <3>2, <3>5 DEF RemoveBranch, Deletes
    <3>6. CASE x = "call" BY <1>11, <3>1, <3>2, <3>6 DEF RemoveBranch
    <3> QED BY <3>4, <3>5, <3>6 DEF Threads
  <2>6. SessionInv' BY <1>11, <2>4, SessionReturns DEF RemoveBranch, Kept
  <2> QED BY <2>4, <2>5, <2>6 DEF Kept
<1>12. CASE MergeReturns(x)
  <2>1. Quiet BY <1>12, NothingLost DEF MergeReturns, Unchanged, root, trees, history, Kept
  <2>2. SessionInv' BY <1>12, <2>1, SessionGoes, SessionReturns DEF MergeReturns, At, Kept, Early
  <2> QED BY <2>1, <2>2 DEF Kept
<1> QED BY <1>1, <1>2, <1>3, <1>4, <1>5, <1>6, <1>7, <1>8, <1>9, <1>10, <1>11, <1>12 DEF RunsGit

LEMMA SessionKeeps ==
  ASSUME Types, Kept, RunsSession("session")
  PROVE  Kept'
<1> DEFINE Quiet == /\ CommittedWorkKept' /\ ReportedWorkLanded'
                    /\ \A t \in Tasks : Landed(t) => Landed(t)'
           x == "session"
<1> x \in Threads BY DEF Threads
<1> HIDE DEF x
<1>1. CASE CommitDirtyMain(x)
  <2>1. Quiet BY <1>1, NothingLost DEF CommitDirtyMain, Unchanged, root, trees, history, Kept
  <2>2. SessionInv' BY <1>1, <2>1, SessionGoes DEF CommitDirtyMain, At, Kept, Early
  <2> QED BY <2>1, <2>2 DEF Kept
<1>2. CASE ReuseWorktree(x)
  <2>1. Quiet BY <1>2, NothingLost DEF ReuseWorktree, Unchanged, root, trees, history, Kept
  <2>2. SessionInv' BY <1>2, <2>1, SessionGoes DEF ReuseWorktree, At, Kept, Early
  <2> QED BY <2>1, <2>2 DEF Kept
<1>3. CASE AddWorktree(x)
  <2>1. T(x) \in Tasks BY <1>3 DEF AddWorktree, Types, ThreadsTyped, At
  <2>2. head' = head /\ remote' = remote /\ committed' = committed /\ landed' = landed /\ discarded' = discarded
    BY <1>3 DEF AddWorktree, root, history
  <2>3. \A t \in Tasks : branch'[t] # branch[t] => branch[t] = Gone
    BY <1>3, <2>1 DEF AddWorktree, trees, Has, Types, TypeOK
  <2>4. CommittedWorkKept'
    <3> SUFFICES ASSUME NEW t \in Tasks
                 PROVE  committed[t] \subseteq head \cup branch'[t] \cup remote[t] \cup discarded
      BY <2>2 DEF CommittedWorkKept
    <3>1. CASE branch'[t] = branch[t] BY <3>1 DEF Kept, CommittedWorkKept
    <3>2. CASE branch'[t] # branch[t]
      <4>1. 0 \notin committed[t] BY GoneIsNoWork DEF Types
      <4> QED BY <2>3, <3>2, <4>1 DEF Kept, CommittedWorkKept, Gone
    <3> QED BY <3>1, <3>2
  <2>5. ReportedWorkLanded' /\ \A t \in Tasks : Landed(t) => Landed(t)'
    BY <2>2 DEF Kept, ReportedWorkLanded, Landed
  <2>6. SessionInv' BY <1>3, <2>5, SessionGoes DEF AddWorktree, At, Kept, Early
  <2> QED BY <2>4, <2>5, <2>6 DEF Kept
<1>4. CASE DeleteStaleBranch(x)
  <2>1. T(x) \in Tasks BY <1>4 DEF DeleteStaleBranch, Types, ThreadsTyped, At
  <2>2. head' = head /\ remote' = remote /\ committed' = committed /\ landed' = landed
    BY <1>4 DEF DeleteStaleBranch, root
  <2>3. discarded' = discarded \cup branch[T(x)] BY <1>4 DEF DeleteStaleBranch
  <2>4. CommittedWorkKept'
    BY <1>4, <2>1, <2>2, <2>3 DEF DeleteStaleBranch, Types, TypeOK, Kept, CommittedWorkKept
  <2>5. ReportedWorkLanded' /\ \A t \in Tasks : Landed(t) => Landed(t)'
    BY <2>2, <2>3 DEF Kept, ReportedWorkLanded, Landed
  <2>6. SessionInv' BY <1>4, <2>5, SessionGoes DEF DeleteStaleBranch, At, Kept, Early
  <2> QED BY <2>4, <2>5, <2>6 DEF Kept
<1>5. CASE StartFails(x)
  <2>1. Quiet BY <1>5, NothingLost DEF StartFails, Unchanged, root, trees, history, Kept
  <2>2. SessionInv' BY <1>5, <2>1, SessionReturns DEF StartFails, At, Kept, Early
  <2> QED BY <2>1, <2>2 DEF Kept
<1>6. CASE AgentEdits(x)
  <2>1. Quiet BY <1>6, NothingLost DEF AgentEdits, root, history, Kept
  <2>2. p' = p BY <1>6 DEF AgentEdits
  <2>3. SessionInv' BY <1>6, <2>1, <2>2 DEF AgentEdits, Kept, SessionInv, At, T, Landed, root, history, Early
  <2> QED BY <2>1, <2>3 DEF Kept
<1>7. CASE AgentCommits(x)
  <2>1. T(x) \in Tasks BY <1>7 DEF AgentCommits, Types, ThreadsTyped, At
  <2>2. head' = head /\ remote' = remote /\ landed' = landed /\ discarded' = discarded /\ p' = p
    BY <1>7 DEF AgentCommits, root
  <2>3. branch' = [branch EXCEPT ![T(x)] = @ \cup wip[T(x)]]
        /\ committed' = [committed EXCEPT ![T(x)] = @ \cup wip[T(x)]]
    BY <1>7 DEF AgentCommits
  <2>4. CommittedWorkKept' BY <2>1, <2>2, <2>3 DEF Types, TypeOK, Kept, CommittedWorkKept
  <2>5. ReportedWorkLanded' BY <2>2 DEF Kept, ReportedWorkLanded
  <2>6. SessionInv'
    <3>1. p["session"].pc = "work" /\ ~p["session"].merged
      BY <1>7 DEF AgentCommits, At, Kept, SessionInv, Early, x
    <3> QED BY <2>2, <3>1 DEF SessionInv, At
  <2> QED BY <2>4, <2>5, <2>6 DEF Kept
<1>8. CASE AgentEnds(x)
  <2>1. Quiet BY <1>8, NothingLost DEF AgentEnds, Unchanged, root, trees, history, Kept
  <2>2. SessionInv' BY <1>8, <2>1, SessionGoes DEF AgentEnds, At, Kept, Early
  <2> QED BY <2>1, <2>2 DEF Kept
<1>9. CASE Skips(x)
  <2>1. Quiet BY <1>9, NothingLost DEF Skips, Unchanged, root, trees, history, Kept
  <2>2. SessionInv' BY <1>9, <2>1, SessionReturns DEF Skips, At, Kept, Early
  <2> QED BY <2>1, <2>2 DEF Kept
<1>10. CASE Decides(x)
  <2>1. Quiet BY <1>10, NothingLost DEF Decides, Unchanged, root, trees, history, Kept
  <2>2. SessionInv' BY <1>10, <2>1, SessionGoes DEF Decides, At, Kept, Early
  <2> QED BY <2>1, <2>2 DEF Kept
<1>11. CASE PushBranch(x)
  <2>1. T(x) \in Tasks BY <1>11 DEF PushBranch, Types, ThreadsTyped, At
  <2>2. head' = head /\ branch' = branch /\ committed' = committed /\ landed' = landed
    BY <1>11 DEF PushBranch, root, trees
  <2>3. remote' = [remote EXCEPT ![T(x)] = branch[T(x)]]
        /\ discarded' = discarded \cup (remote[T(x)] \ branch[T(x)])
    BY <1>11 DEF PushBranch
  <2>4. \A t \in Tasks : remote[t] \subseteq remote'[t] \cup discarded'
    BY <2>1, <2>3 DEF Types, TypeOK
  <2>5. discarded \subseteq discarded' BY <2>3
  <2>6. Quiet
    BY <2>2, <2>4, <2>5 DEF Kept, CommittedWorkKept, ReportedWorkLanded, Landed
  <2>7. \A t \in Tasks : t = T(x) => Landed(t)'
    <3>1. remote'[T(x)] = branch[T(x)] BY <2>1, <2>3 DEF Types, TypeOK
    <3>2. committed[T(x)] \subseteq head \cup branch[T(x)] \cup remote[T(x)] \cup discarded
      BY <2>1 DEF Kept, CommittedWorkKept
    <3> QED BY <2>1, <2>2, <2>4, <2>5, <3>1, <3>2 DEF Landed
  <2>8. SessionInv' BY <1>11, <2>6, <2>7, SessionGoes DEF PushBranch, At, Kept, Early
  <2> QED BY <2>6, <2>8 DEF Kept
<1>12. CASE CreatePR(x)
  <2>1. T(x) \in Tasks BY <1>12 DEF CreatePR, Types, ThreadsTyped, At
  <2>2. Landed(T(x)) BY <1>12 DEF CreatePR, Kept, SessionInv, x
  <2>3. head' = head /\ branch' = branch /\ remote' = remote /\ committed' = committed /\ discarded' = discarded
    BY <1>12 DEF CreatePR, root, trees
  <2>4. CommittedWorkKept' BY <2>3 DEF Kept, CommittedWorkKept
  <2>5. ReportedWorkLanded'
    BY <1>12, <2>1, <2>2, <2>3 DEF CreatePR, Lands, Types, Kept, ReportedWorkLanded, Landed
  <2>6. p'["session"].pc = "cleanup" /\ T("session")' = T("session")
    BY <1>12 DEF CreatePR, Types, ThreadsTyped, Thread, Threads, T, x
  <2>7. SessionInv' BY <2>2, <2>3, <2>6 DEF SessionInv, At, Landed, Early, x
  <2> QED BY <2>4, <2>5, <2>7 DEF Kept
<1>13. CASE PRFails(x)
  <2>1. Quiet BY <1>13, NothingLost DEF PRFails, Unchanged, root, trees, history, Kept
  <2>2. SessionInv' BY <1>13, <2>1, SessionGoes DEF PRFails, At, Kept, Early
  <2> QED BY <2>1, <2>2 DEF Kept
<1>14. CASE Cleanup(x)
  <2>1. Quiet BY <1>14, NothingLost DEF Cleanup, Unchanged, root, trees, history, Kept
  <2>2. SessionInv' BY <1>14, <2>1, SessionGoes, SessionReturns DEF Cleanup, At, Kept, Early
  <2> QED BY <2>1, <2>2 DEF Kept
<1> QED BY <1>1, <1>2, <1>3, <1>4, <1>5, <1>6, <1>7, <1>8, <1>9, <1>10, <1>11, <1>12, <1>13, <1>14 DEF RunsSession, x

-----------------------------------------------------------------------------
(* The project's root.                                                      *)

(* Only a thread that fails to abort leaves a merge that stopped. *)
LEMMA NoMergeOpened ==
  ASSUME Types, OpenMergeTold, NEW x \in Threads, ~At(x, "abort"), ~At(x, "failed"),
         Clears \/ UNCHANGED <<conflict, told>>,
         p' = p \/ \E r : p' = [p EXCEPT ![x] = r]
  PROVE  OpenMergeTold'
<1>1. CASE Clears BY <1>1 DEF Clears, OpenMergeTold
<1>2. CASE UNCHANGED <<conflict, told>> /\ conflict # Gone /\ ~told
  <2>1. PICK y \in Threads : At(y, "abort") \/ At(y, "failed") BY <1>2 DEF OpenMergeTold
  <2>2. p'[y] = p[y] BY <2>1 DEF Types, ThreadsTyped, At
  <2> QED BY <2>1, <2>2 DEF OpenMergeTold, At
<1>3. CASE UNCHANGED <<conflict, told>> /\ (conflict = Gone \/ told) BY <1>3 DEF OpenMergeTold
<1> QED BY <1>1, <1>2, <1>3

LEMMA GitTells ==
  ASSUME Types, OpenMergeTold, NEW x \in Threads, RunsGit(x)
  PROVE  OpenMergeTold'
<1>1. CASE AutoCommit(x)
  BY <1>1, NoMergeOpened DEF AutoCommit, At, Goto, root
<1>2. CASE NothingToMerge(x)
  BY <1>2, NoMergeOpened DEF NothingToMerge, At, Merged, root
<1>3. CASE HasDiff(x)
  BY <1>3, NoMergeOpened DEF HasDiff, At, Goto, root
<1>4. CASE DiffFails(x)
  BY <1>4, NoMergeOpened DEF DiffFails, At, Goto, root
<1>5. CASE Merge(x)
  BY <1>5, NoMergeOpened DEF Merge, At, Goto
<1>6. CASE MergeStops(x)
  <2>1. p'[x].pc = "abort" BY <1>6 DEF MergeStops, Goto, Types, ThreadsTyped, Thread
  <2> QED BY <2>1 DEF OpenMergeTold, At
<1>7. CASE AbortMerge(x)
  <2>1. p'[x].pc = "failed" BY <1>7 DEF AbortMerge, Goto, Types, ThreadsTyped, Thread
  <2> QED BY <2>1 DEF OpenMergeTold, At
<1>8. CASE ResetHard(x)
  BY <1>8, NoMergeOpened DEF ResetHard, At, Merged
<1>9. CASE MergeFailed(x)
  BY <1>9 DEF MergeFailed, OpenMergeTold
<1>10. CASE RemoveTree(x)
  BY <1>10, NoMergeOpened DEF RemoveTree, At, Goto, root
<1>11. CASE RemoveBranch(x)
  BY <1>11, NoMergeOpened DEF RemoveBranch, At, Returns, root
<1>12. CASE MergeReturns(x)
  BY <1>12, NoMergeOpened DEF MergeReturns, At, Goto, Returns, root
<1> QED BY <1>1, <1>2, <1>3, <1>4, <1>5, <1>6, <1>7, <1>8, <1>9, <1>10, <1>11, <1>12 DEF RunsGit

LEMMA SessionTells ==
  ASSUME Types, OpenMergeTold, RunsSession("session")
  PROVE  OpenMergeTold'
<1> DEFINE x == "session"
<1> x \in Threads BY DEF Threads
<1> HIDE DEF x
<1>1. CASE CommitDirtyMain(x)
  BY <1>1, NoMergeOpened DEF CommitDirtyMain, At, Goto, root
<1>2. CASE ReuseWorktree(x)
  BY <1>2, NoMergeOpened DEF ReuseWorktree, At, Goto, root
<1>3. CASE AddWorktree(x)
  BY <1>3, NoMergeOpened DEF AddWorktree, At, Goto, root
<1>4. CASE DeleteStaleBranch(x)
  BY <1>4, NoMergeOpened DEF DeleteStaleBranch, At, Goto, root
<1>5. CASE StartFails(x)
  BY <1>5, NoMergeOpened DEF StartFails, At, Returns, root
<1>6. CASE AgentEdits(x)
  BY <1>6, NoMergeOpened DEF AgentEdits, At, root
<1>7. CASE AgentCommits(x)
  BY <1>7, NoMergeOpened DEF AgentCommits, At, root
<1>8. CASE AgentEnds(x)
  BY <1>8, NoMergeOpened DEF AgentEnds, At, Goto, root
<1>9. CASE Skips(x)
  BY <1>9, NoMergeOpened DEF Skips, At, Returns, root
<1>10. CASE Decides(x)
  BY <1>10, NoMergeOpened DEF Decides, At, Goto, root
<1>11. CASE PushBranch(x)
  BY <1>11, NoMergeOpened DEF PushBranch, At, Goto, root
<1>12. CASE CreatePR(x)
  BY <1>12, NoMergeOpened DEF CreatePR, At, root
<1>13. CASE PRFails(x)
  BY <1>13, NoMergeOpened DEF PRFails, At, Goto, root
<1>14. CASE Cleanup(x)
  BY <1>14, NoMergeOpened DEF Cleanup, At, Goto, Returns, root
<1> QED BY <1>1, <1>2, <1>3, <1>4, <1>5, <1>6, <1>7, <1>8, <1>9, <1>10, <1>11, <1>12, <1>13, <1>14 DEF RunsSession, x

-----------------------------------------------------------------------------
(* Every step.                                                              *)

LEMMA InitHolds == Init => IInv
<1> SUFFICES ASSUME Init PROVE IInv OBVIOUS
<1>1. TypeOK BY DEF Init, TypeOK, Gone, Has
<1>2. ThreadsTyped BY IdleTyped DEF Init, ThreadsTyped, At, SessionPcs, Threads
<1>3. Types BY <1>1, <1>2 DEF Init, Types
<1>4. Kept
  <2>1. p["session"].pc = "idle" /\ ~p["session"].merged BY DEF Init, Threads, Idle
  <2>2. SessionInv BY <2>1 DEF SessionInv, At
  <2> QED BY <2>2 DEF Init, Kept, CommittedWorkKept, ReportedWorkLanded
<1>5. OpenMergeTold BY DEF Init, OpenMergeTold
<1> QED BY <1>3, <1>4, <1>5 DEF IInv

LEMMA StartKeeps == ASSUME IInv, NEW t \in Tasks, StartAgent(t) PROVE IInv'
<1>1. PICK pc \in {"ensure", "capture"} :
        p' = [p EXCEPT !["session"] = [Idle EXCEPT !.pc = pc, !.task = t]]
  BY DEF StartAgent
<1>2. p'["session"] = [pc |-> pc, task |-> t, merged |-> FALSE, delete |-> FALSE] /\ p'["call"] = p["call"]
  BY <1>1 DEF IInv, Types, ThreadsTyped, Threads, Idle
<1>3. ThreadsTyped'
  BY <1>1, <1>2 DEF IInv, Types, ThreadsTyped, Thread, Threads, At, T, SessionPcs, Idle
<1>4. Types' BY <1>3 DEF StartAgent, IInv, Types, TypeOK, Has, root, trees, history
<1>5. CommittedWorkKept' /\ ReportedWorkLanded'
  BY DEF StartAgent, IInv, Kept, CommittedWorkKept, ReportedWorkLanded, root, trees, history
<1>6. SessionInv' BY <1>2 DEF SessionInv, At
<1>7. OpenMergeTold'
  <2>1. ~At("session", "abort") /\ ~At("session", "failed") /\ UNCHANGED <<conflict, told>> BY DEF StartAgent, At, root
  <2> QED BY <1>1, <2>1, NoMergeOpened DEF IInv, Threads
<1> QED BY <1>4, <1>5, <1>6, <1>7 DEF IInv, Kept

LEMMA CallKeeps ==
  ASSUME IInv, NEW t \in Tasks, NEW pc \in {"capturewip", "removetree"},
         NEW delete \in BOOLEAN, NEW force \in BOOLEAN, Calls(t, pc, delete, force)
  PROVE  IInv'
<1>1. p' = [p EXCEPT !["call"] = [pc |-> pc, task |-> t, merged |-> force, delete |-> delete]]
  BY DEF Calls
<1>2. p'["call"] = [pc |-> pc, task |-> t, merged |-> force, delete |-> delete] /\ p'["session"] = p["session"]
  BY <1>1 DEF IInv, Types, ThreadsTyped, Threads
<1>3. ThreadsTyped'
  BY <1>1, <1>2 DEF IInv, Types, ThreadsTyped, Thread, Threads, At, T, SessionPcs, SharedPcs
<1>4. Types' BY <1>3 DEF Calls, IInv, Types, TypeOK, Has, root, trees, history
<1>5. CommittedWorkKept' /\ ReportedWorkLanded'
  BY DEF Calls, IInv, Kept, CommittedWorkKept, ReportedWorkLanded, root, trees, history
<1>6. SessionInv' BY <1>2 DEF Calls, IInv, Kept, SessionInv, At, T, Landed, Early, root, history
<1>7. OpenMergeTold'
  <2>1. ~At("call", "abort") /\ ~At("call", "failed") /\ UNCHANGED <<conflict, told>> BY DEF Calls, At, root
  <2> QED BY <1>1, <2>1, NoMergeOpened DEF IInv, Threads
<1> QED BY <1>4, <1>5, <1>6, <1>7 DEF IInv, Kept

LEMMA RetryKeeps == ASSUME IInv, NEW t \in Tasks, Retry(t) PROVE IInv'
<1>1. file' \in [Tasks -> [done : BOOLEAN, failure : BOOLEAN]]
  BY DEF Retry, IInv, Types, TypeOK
<1>2. Types' BY <1>1 DEF Retry, IInv, Types, TypeOK, ThreadsTyped, At, T, Has, root, trees, history, bounds
<1>3. Kept' BY DEF Retry, IInv, Kept, CommittedWorkKept, ReportedWorkLanded, SessionInv, At, T, Landed, root, trees, history
<1>4. OpenMergeTold' BY DEF Retry, IInv, OpenMergeTold, At, root
<1> QED BY <1>2, <1>3, <1>4 DEF IInv

LEMMA UserEditsKeeps == ASSUME IInv, UserEdits PROVE IInv'
<1>1. made + 1 \in Work /\ made + 1 \in Nat BY WorktreeAssumption DEF UserEdits, IInv, Types, Work
<1>2. Types' BY <1>1 DEF UserEdits, IInv, Types, TypeOK, ThreadsTyped, At, T, Has, trees, history
<1>3. Kept' BY DEF UserEdits, IInv, Kept, CommittedWorkKept, ReportedWorkLanded, SessionInv, At, T, Landed, trees, history
<1>4. OpenMergeTold' BY DEF UserEdits, IInv, OpenMergeTold, At
<1> QED BY <1>2, <1>3, <1>4 DEF IInv

LEMMA StutterKeeps == ASSUME IInv, UNCHANGED vars PROVE IInv'
BY DEF vars, root, trees, bounds, history, IInv, Types, TypeOK, ThreadsTyped, At, T, Has,
       Kept, CommittedWorkKept, ReportedWorkLanded, SessionInv, Landed, OpenMergeTold

LEMMA StepKeeps == IInv /\ [Next]_vars => IInv'
<1> SUFFICES ASSUME IInv, [Next]_vars PROVE IInv' OBVIOUS
<1>1. CASE \E x \in Threads : RunsGit(x)
  BY <1>1, GitTyped, GitKeeps, GitTells DEF IInv
<1>2. CASE RunsSession("session")
  BY <1>2, SessionTyped, SessionKeeps, SessionTells DEF IInv
<1>3. ASSUME NEW t \in Tasks, StartAgent(t) \/ Retry(t) PROVE IInv'
  BY <1>3, StartKeeps, RetryKeeps
<1>4. ASSUME NEW t \in Tasks, NEW b \in BOOLEAN, MergeBranch(t, b) \/ DeleteBranch(t, b) PROVE IInv'
  BY <1>4, CallKeeps DEF MergeBranch, DeleteBranch
<1>5. CASE UserEdits BY <1>5, UserEditsKeeps
<1>6. CASE UNCHANGED vars BY <1>6, StutterKeeps
<1> QED BY <1>1, <1>2, <1>3, <1>4, <1>5, <1>6 DEF Next

LEMMA Invariance == Spec => []IInv
BY InitHolds, StepKeeps, PTL DEF Spec

-----------------------------------------------------------------------------
(* The state of the repository keeps its type, and a task without a        *)
(* worktree has no uncommitted work: EnsureWorktree, RemoveWorktree.       *)
THEOREM TypeCorrect == Spec => []TypeOK
<1>1. IInv => TypeOK BY DEF IInv, Types
<1> QED BY <1>1, Invariance, PTL

(* worktree.go:149: whatever an agent committed stays reachable, until the *)
(* user asks for its task's branch to be deleted or for the task again.    *)
THEOREM WorkKept == Spec => []CommittedWorkKept
<1>1. IInv => CommittedWorkKept BY DEF IInv, Kept
<1> QED BY <1>1, Invariance, PTL

(* HandleTaskDone: a task whose merge or pull request is reported fine has *)
(* its agents' commits in the project's branch or on the remote, whatever  *)
(* the branch service did meanwhile.                                       *)
THEOREM ReportTrue == Spec => []ReportedWorkLanded
<1>1. IInv => ReportedWorkLanded BY DEF IInv, Kept
<1> QED BY <1>1, Invariance, PTL

(* MergeWorktree: a merge stays open in the project's root only if its     *)
(* failure is reported, or about to be, even when the abort fails, too.    *)
THEOREM OpenMergesReported == Spec => []OpenMergeTold
<1>1. IInv => OpenMergeTold BY DEF IInv
<1> QED BY <1>1, Invariance, PTL
=============================================================================
