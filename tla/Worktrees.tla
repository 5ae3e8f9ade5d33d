----------------------------- MODULE Worktrees -----------------------------
(***************************************************************************)
(* What becomes of the work on one project's tasks: the git commands that  *)
(* the daemon issues around an agent's session, one at a time and each of  *)
(* them able to fail, while the user edits the checkout and merges or      *)
(* deletes branches by hand.                                               *)
(*                                                                         *)
(* A piece of work is a number.  A branch, and the checkout's HEAD, is the *)
(* set of the pieces that were committed on it; a working tree is the set  *)
(* of those that were not.                                                 *)
(***************************************************************************)
EXTENDS Integers, FiniteSets

CONSTANTS Tasks,
          MaxWork,      \* bound: pieces of work
          MaxSessions,  \* bound: sessions of agents
          MaxCalls      \* bound: calls of the branch service

ASSUME WorktreeAssumption == {MaxWork, MaxSessions, MaxCalls} \subseteq Nat

VARIABLES
    opts,       \* the project's settings
    head,       \* the branch that is checked out in the project's root
    dirty,      \* uncommitted edits in the project's root
    conflict,   \* what a merge that stopped there was to bring, or Gone
    told,       \* history: whether a failed merge was reported since then
    branch,     \* per task: its branch, or Gone
    tree,       \* per task: is there a worktree
    wip,        \* per task: uncommitted work in it
    remote,     \* per task: what was pushed
    file,       \* per task: its status and the recorded merge failure
    p,          \* the two threads that run git: a session's and a call's
    made,       \* history: how many pieces of work there are
    starts,     \* history: sessions started
    calls,      \* history: calls of the branch service
    committed,  \* history: per task, what its agents have committed
    landed,     \* history: per task, what was there when its merge was reported fine
    discarded,  \* history: what the user's request to delete or to redo a task dropped
    dropped     \* history: uncommitted work of a finished task that was dropped

vars == <<opts, head, dirty, conflict, told, branch, tree, wip, remote, file, p, made, starts, calls, committed, landed, discarded, dropped>>
root == <<head, dirty, conflict, told>>
trees == <<branch, tree, wip>>
bounds == <<made, starts, calls>>
history == <<committed, landed, discarded, dropped>>

Threads == {"session", "call"}
None == "none"
Work == 1..MaxWork
Gone == {0}
Idle == [pc |-> "idle", task |-> None, merged |-> FALSE, delete |-> FALSE]

Init ==
    /\ opts \in {o \in [merge : BOOLEAN, delete : BOOLEAN, pr : BOOLEAN] : o.pr => o.merge}
    /\ head = {} /\ dirty = {} /\ conflict = Gone /\ told = FALSE
    /\ branch = [t \in Tasks |-> Gone] /\ tree = [t \in Tasks |-> FALSE]
    /\ wip = [t \in Tasks |-> {}] /\ remote = [t \in Tasks |-> {}]
    /\ file = [t \in Tasks |-> [done |-> FALSE, failure |-> FALSE]]
    /\ p = [x \in Threads |-> Idle]
    /\ made = 0 /\ starts = 0 /\ calls = 0
    /\ committed = [t \in Tasks |-> {}] /\ landed = [t \in Tasks |-> {}]
    /\ discarded = {} /\ dropped = {}

At(x, pc) == p[x].pc = pc
T(x) == p[x].task
Goto(x, pc) == p' = [p EXCEPT ![x].pc = pc]
Returns(x) == p' = [p EXCEPT ![x] = Idle]
Has(t) == branch[t] # Gone
Unchanged == UNCHANGED <<opts, bounds>>
Clears == conflict' = Gone /\ told' = FALSE

----------------------------------------------------------------------------
(* The user: the project's root, and tasks that are to be done again.      *)

UserEdits ==
    /\ made < MaxWork /\ made' = made + 1 /\ dirty' = dirty \cup {made + 1}
    /\ UNCHANGED <<opts, head, conflict, told, trees, remote, file, p, starts, calls, history>>

\* BulkUpdateStatus: the recorded merge failure stays.
Retry(t) ==
    /\ file[t].done /\ file' = [file EXCEPT ![t].done = FALSE]
    /\ UNCHANGED <<opts, root, trees, remote, p, bounds, history>>

----------------------------------------------------------------------------
(* StartAgent for a task, under the manager's lock.                        *)

StartAgent(t) ==
    /\ At("session", "idle") /\ ~file[t].done /\ starts < MaxSessions
    /\ starts' = starts + 1
    /\ p' = [p EXCEPT !["session"] = [Idle EXCEPT !.pc = IF dirty = {} /\ conflict = Gone THEN "ensure" ELSE "capture", !.task = t]]
    /\ UNCHANGED <<opts, root, trees, remote, file, made, calls, history>>

\* CommitDirtyMain: add and commit, or a warning.  A commit concludes the merge
\* that stopped at a conflict, if there is one.
CommitDirtyMain(x) ==
    /\ At(x, "capture") /\ Goto(x, "ensure")
    /\ \/ /\ head' = head \cup dirty \cup (IF conflict = Gone THEN {} ELSE conflict)
          /\ dirty' = {} /\ Clears
       \/ UNCHANGED root
    /\ Unchanged /\ UNCHANGED <<trees, remote, file, history>>

\* EnsureWorktree: a worktree is used again.
ReuseWorktree(x) ==
    /\ At(x, "ensure") /\ tree[T(x)] /\ Goto(x, "work")
    /\ Unchanged /\ UNCHANGED <<root, trees, remote, file, history>>

\* EnsureWorktree: worktree add -b.
AddWorktree(x) ==
    /\ At(x, "ensure") /\ ~tree[T(x)]
    /\ IF Has(T(x)) THEN Goto(x, "stale") /\ UNCHANGED trees
       ELSE /\ branch' = [branch EXCEPT ![T(x)] = head] /\ tree' = [tree EXCEPT ![T(x)] = TRUE]
            /\ Goto(x, "work") /\ UNCHANGED wip
    /\ Unchanged /\ UNCHANGED <<root, remote, file, history>>

\* EnsureWorktree: a branch of an earlier session is deleted, its work with it.
DeleteStaleBranch(x) ==
    /\ At(x, "stale") /\ ~tree[T(x)] /\ Has(T(x))
    /\ branch' = [branch EXCEPT ![T(x)] = Gone] /\ discarded' = discarded \cup branch[T(x)]
    /\ Goto(x, "ensure")
    /\ Unchanged /\ UNCHANGED <<root, tree, wip, remote, file, committed, landed, dropped>>

StartFails(x) ==
    /\ p[x].pc \in {"ensure", "stale"} /\ Returns(x)
    /\ Unchanged /\ UNCHANGED <<root, trees, remote, file, history>>

----------------------------------------------------------------------------
(* The agent.                                                              *)

AgentEdits(x) ==
    /\ At(x, "work") /\ tree[T(x)] /\ made < MaxWork
    /\ made' = made + 1 /\ wip' = [wip EXCEPT ![T(x)] = @ \cup {made + 1}]
    /\ UNCHANGED <<opts, root, branch, tree, remote, file, p, starts, calls, history>>

AgentCommits(x) ==
    /\ At(x, "work") /\ tree[T(x)] /\ wip[T(x)] # {}
    /\ branch' = [branch EXCEPT ![T(x)] = @ \cup wip[T(x)]] /\ wip' = [wip EXCEPT ![T(x)] = {}]
    /\ committed' = [committed EXCEPT ![T(x)] = @ \cup wip[T(x)]]
    /\ Unchanged /\ UNCHANGED <<root, tree, remote, file, p, landed, discarded, dropped>>

\* The agent reports, or only ends.
AgentEnds(x) ==
    /\ At(x, "work") /\ Goto(x, "over")
    /\ \E done \in {file[T(x)].done, TRUE} : file' = [file EXCEPT ![T(x)].done = done]
    /\ Unchanged /\ UNCHANGED <<root, trees, remote, history>>

----------------------------------------------------------------------------
(* HandleTaskDone.                                                         *)

\* A project or a task that cannot be read ends it like a task that is not done.
Skips(x) ==
    /\ At(x, "over") /\ Returns(x)
    /\ Unchanged /\ UNCHANGED <<root, trees, remote, file, history>>

Decides(x) ==
    /\ At(x, "over") /\ file[T(x)].done
    /\ Goto(x, IF ~opts.merge THEN "cleanup" ELSE IF opts.pr THEN "push" ELSE "capturewip")
    /\ Unchanged /\ UNCHANGED <<root, trees, remote, file, history>>

\* The branch replaces what the remote has.
PushBranch(x) ==
    /\ At(x, "push") /\ Has(T(x)) /\ Goto(x, "pr")
    /\ remote' = [remote EXCEPT ![T(x)] = branch[T(x)]]
    /\ discarded' = discarded \cup (remote[T(x)] \ branch[T(x)])
    /\ Unchanged /\ UNCHANGED <<root, trees, file, committed, landed, dropped>>

Lands(t) == landed' = [landed EXCEPT ![t] = committed[t]]

CreatePR(x) ==
    /\ At(x, "pr") /\ Lands(T(x))
    /\ p' = [p EXCEPT ![x].pc = "cleanup", ![x].merged = TRUE]
    /\ Unchanged /\ UNCHANGED <<root, trees, remote, file, committed, discarded, dropped>>

\* No gh, no GitHub, a push or a request that fails: the silent merge.
PRFails(x) ==
    /\ p[x].pc \in {"push", "pr"} /\ Goto(x, "capturewip")
    /\ Unchanged /\ UNCHANGED <<root, trees, remote, file, history>>

Cleanup(x) ==
    /\ At(x, "cleanup")
    /\ IF opts.delete THEN Goto(x, "removetree") ELSE Returns(x)
    /\ Unchanged /\ UNCHANGED <<root, trees, remote, file, history>>

\* The task was read before the merge and is saved whole; a call returns the error.
MergeFailed(x) ==
    /\ At(x, "failed") /\ Returns(x)
    /\ IF x = "session" THEN file' = [file EXCEPT ![T(x)] = [done |-> TRUE, failure |-> TRUE]] ELSE UNCHANGED file
    /\ told' = (conflict # Gone)
    /\ Unchanged /\ UNCHANGED <<head, dirty, conflict, trees, remote, history>>

----------------------------------------------------------------------------
(* MergeWorktree, for a session and for the branch service.                *)

\* What the agent left uncommitted is committed, or not.
AutoCommit(x) ==
    /\ At(x, "capturewip") /\ Goto(x, "diff")
    /\ \/ /\ tree[T(x)] /\ wip' = [wip EXCEPT ![T(x)] = {}]
          /\ branch' = [branch EXCEPT ![T(x)] = @ \cup wip[T(x)]]
       \/ UNCHANGED <<branch, wip>>
    /\ Unchanged /\ UNCHANGED <<root, tree, remote, file, history>>

Merged(x, merged) ==
    /\ p' = [p EXCEPT ![x].pc = IF x = "session" THEN "cleanup" ELSE "merged", ![x].merged = merged]
    /\ IF x = "session" THEN Lands(T(x)) ELSE UNCHANGED landed

NothingToMerge(x) ==
    /\ At(x, "diff") /\ branch[T(x)] = head /\ Merged(x, FALSE)
    /\ Unchanged /\ UNCHANGED <<root, trees, remote, file, committed, discarded, dropped>>

HasDiff(x) ==
    /\ At(x, "diff") /\ Has(T(x)) /\ branch[T(x)] # head /\ Goto(x, "merge")
    /\ Unchanged /\ UNCHANGED <<root, trees, remote, file, history>>

\* Mutant: a diff that fails is taken for one that is empty.
DiffIgnored(x) ==
    /\ At(x, "diff") /\ Merged(x, FALSE)
    /\ Unchanged /\ UNCHANGED <<root, trees, remote, file, committed, discarded, dropped>>

DiffFails(x) ==
    /\ At(x, "diff") /\ Goto(x, "failed")
    /\ Unchanged /\ UNCHANGED <<root, trees, remote, file, history>>

\* Uncommitted edits that the merge does not touch are no obstacle.
Merge(x) ==
    /\ At(x, "merge") /\ Has(T(x)) /\ conflict = Gone
    /\ head' = head \cup branch[T(x)] /\ Goto(x, "reset")
    /\ Unchanged /\ UNCHANGED <<dirty, conflict, told, trees, remote, file, history>>

MergeStops(x) ==
    /\ At(x, "merge") /\ Goto(x, "abort")
    /\ \/ UNCHANGED conflict
       \/ conflict = Gone /\ Has(T(x)) /\ ~(branch[T(x)] \subseteq head) /\ conflict' = branch[T(x)]
    /\ Unchanged /\ UNCHANGED <<head, dirty, told, trees, remote, file, history>>

\* Whichever merge is under way is aborted; an abort that fails is a line in
\* the log.
Aborts ==
    /\ Clears \/ UNCHANGED <<conflict, told>>
    /\ Unchanged /\ UNCHANGED <<head, dirty, trees, remote, file, committed, discarded, dropped>>

\* Mutant: after the abort the merge counts as one that had nothing to do.
AbortSwallows(x) == At(x, "abort") /\ Merged(x, FALSE) /\ Aborts

AbortMerge(x) == At(x, "abort") /\ Goto(x, "failed") /\ Aborts /\ UNCHANGED landed

\* reset --hard: the user's edits in the root go, too; or a warning.
ResetHard(x) ==
    /\ At(x, "reset") /\ Merged(x, TRUE)
    /\ \/ dirty' = {} /\ Clears
       \/ UNCHANGED <<dirty, conflict, told>>
    /\ Unchanged /\ UNCHANGED <<head, trees, remote, file, committed, discarded, dropped>>

----------------------------------------------------------------------------
(* RemoveWorktree, for both.                                               *)

\* worktree remove --force, or the directory by hand, or neither.
RemoveTree(x) ==
    /\ At(x, "removetree") /\ Goto(x, "removebranch")
    /\ \/ /\ tree' = [tree EXCEPT ![T(x)] = FALSE] /\ wip' = [wip EXCEPT ![T(x)] = {}]
          /\ dropped' = IF x = "session" THEN dropped \cup wip[T(x)] ELSE dropped
       \/ UNCHANGED <<tree, wip, dropped>>
    /\ Unchanged /\ UNCHANGED <<root, branch, remote, file, committed, landed, discarded>>

\* Mutant: -D whatever became of the merge.
Forced(x) == TRUE

\* -D only after a merge, or when the user asks for it.
Deletes(x) == p[x].merged

\* -d refuses work that neither HEAD nor the branch's upstream has; no branch
\* goes that a worktree has checked out.
RemoveBranch(x) ==
    /\ At(x, "removebranch") /\ Returns(x)
    /\ LET t == T(x)
           safe == branch[t] \subseteq head \/ (remote[t] # {} /\ branch[t] \subseteq remote[t])
           goes == Has(t) /\ ~tree[t] /\ (Deletes(x) \/ safe)
       IN \/ /\ goes /\ branch' = [branch EXCEPT ![t] = Gone]
             /\ discarded' = IF x = "call" THEN discarded \cup branch[t] ELSE discarded
          \/ UNCHANGED <<branch, discarded>>
    /\ Unchanged /\ UNCHANGED <<root, tree, wip, remote, file, committed, landed, dropped>>

----------------------------------------------------------------------------
(* The branch service: no lock, no look at the sessions.                   *)

Calls(t, pc, delete, force) ==
    /\ At("call", "idle") /\ Has(t) /\ calls < MaxCalls /\ calls' = calls + 1
    /\ p' = [p EXCEPT !["call"] = [pc |-> pc, task |-> t, merged |-> force, delete |-> delete]]
    /\ UNCHANGED <<opts, root, trees, remote, file, made, starts, history>>

\* MergeBranch; BulkMerge is a sequence of these that delete nothing.
MergeBranch(t, delete) == Calls(t, "capturewip", delete, FALSE)

\* DeleteBranch; BulkDelete is a sequence of these without force.
DeleteBranch(t, force) == Calls(t, "removetree", TRUE, force)

MergeReturns(x) ==
    /\ At(x, "merged")
    /\ IF p[x].delete /\ p[x].merged THEN Goto(x, "removetree") ELSE Returns(x)
    /\ Unchanged /\ UNCHANGED <<root, trees, remote, file, history>>

----------------------------------------------------------------------------
RunsGit(x) ==
    \/ AutoCommit(x) \/ NothingToMerge(x) \/ HasDiff(x) \/ DiffFails(x)
    \/ Merge(x) \/ MergeStops(x) \/ AbortMerge(x) \/ ResetHard(x) \/ MergeFailed(x)
    \/ RemoveTree(x) \/ RemoveBranch(x) \/ MergeReturns(x)

RunsSession(x) ==
    \/ CommitDirtyMain(x) \/ ReuseWorktree(x) \/ AddWorktree(x) \/ DeleteStaleBranch(x) \/ StartFails(x)
    \/ AgentEdits(x) \/ AgentCommits(x) \/ AgentEnds(x)
    \/ Skips(x) \/ Decides(x) \/ PushBranch(x) \/ CreatePR(x) \/ PRFails(x) \/ Cleanup(x)

Next ==
    \/ \E x \in Threads : RunsGit(x)
    \/ RunsSession("session")
    \/ \E t \in Tasks : StartAgent(t) \/ Retry(t)
    \/ \E t \in Tasks, b \in BOOLEAN : MergeBranch(t, b) \/ DeleteBranch(t, b)
    \/ UserEdits

Spec == Init /\ [][Next]_vars

----------------------------------------------------------------------------
(* Properties.                                                             *)

\* Types; what is not checked out has no uncommitted work.
TypeOK ==
    /\ opts \in [merge : BOOLEAN, delete : BOOLEAN, pr : BOOLEAN]
    /\ head \subseteq Work /\ dirty \subseteq Work /\ conflict \in (SUBSET Work) \cup {Gone} /\ told \in BOOLEAN
    /\ branch \in [Tasks -> (SUBSET Work) \cup {Gone}] /\ tree \in [Tasks -> BOOLEAN]
    /\ wip \in [Tasks -> SUBSET Work] /\ remote \in [Tasks -> SUBSET Work]
    /\ file \in [Tasks -> [done : BOOLEAN, failure : BOOLEAN]]
    /\ \A t \in Tasks : (tree[t] => Has(t)) /\ (~tree[t] => wip[t] = {})

\* worktree.go:149: work is preserved.  Whatever an agent committed is in the
\* project's branch, in the task's branch or on the remote, unless the user
\* deleted the branch or had the task done again.
CommittedWorkKept ==
    \A t \in Tasks : committed[t] \subseteq head \cup branch[t] \cup remote[t] \cup discarded

\* taskdone.go:139: work that a merge or a pull request reported as landed is in
\* the project's branch or on the remote, though branches are merged and deleted
\* by hand meanwhile.  With auto_merge off nothing is said to have landed.
ReportedWorkLanded ==
    \A t \in Tasks : landed[t] \subseteq head \cup remote[t] \cup discarded

\* worktree.go:118: a merge left open in the project's root is never silent.  The
\* abort after a merge that stopped may fail itself, and another thread commits,
\* merges or resets there meanwhile: while a merge stays open a failure was
\* reported since it stopped, or a thread is about to abort or to report.
OpenMergeTold == conflict # Gone => told \/ \E x \in Threads : At(x, "abort") \/ At(x, "failed")

\* CHANGELOG.md:471: uncommitted edits are always captured, even when the agent
\* skips the commit step.
UncommittedCaptured == dropped = {}

=============================================================================
