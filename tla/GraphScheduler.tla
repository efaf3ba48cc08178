--------------------------- MODULE GraphScheduler ---------------------------
(***************************************************************************)
(* The graph scheduler of jmux (jmux/src/goal/graph.rs): one named graph,  *)
(* its nodes, the goal runs that execute them, and the three kinds of      *)
(* actor that touch it:                                                    *)
(*                                                                         *)
(*   - the GTK main loop, whose two-second tick runs process_graph and     *)
(*     then drops the runs of closed workspaces;                           *)
(*   - socket handlers on their own threads: graph.create/approve/revise/  *)
(*     pause/resume/stop and goal.accept/continue/stop/complete;           *)
(*   - the world: agents that finish, a user who closes workspaces and     *)
(*     edits the checkout, a process that dies and restarts.               *)
(*                                                                         *)
(* Everything one thread does under the graphs lock is one action.         *)
(* create, accept, continue and stop take their locks several times, so    *)
(* they are split there, and call[h] is what the handler still has to do.  *)
(* The proposal file is abstracted: a tick or an approval may find any     *)
(* valid plan, or none.  The disk and git may fail (Faults): graph.json may *)
(* not be written, and a node's work may not be committed.                 *)
(***************************************************************************)
EXTENDS Integers, FiniteSets

CONSTANTS Nodes,      \* node ids a plan may use
          Plans,      \* plans parse_proposal accepts
          Options,    \* option sets a create request may carry
          Handlers,   \* socket handler threads
          MaxLaunch,  \* bound: launches of one node id
          MaxCalls,   \* bound: requests that take several steps
          Faults      \* what may fail: writing graph.json, committing a node's work

PlanType == [nodes : SUBSET Nodes, deps : [Nodes -> SUBSET Nodes]]

OptionType == [review : BOOLEAN,     \* plan review (Gate 1)
               gate2 : BOOLEAN,      \* review_iterations (Gate 2)
               worktrees : BOOLEAN,  \* use_worktrees
               cap : Nat]            \* max_concurrency

ASSUME NodesAssumption == IsFiniteSet(Nodes) /\ Nodes # {}
ASSUME PlansAssumption ==
    /\ Plans \subseteq PlanType
    /\ \A p \in Plans : /\ p.nodes # {}
                        /\ \A n \in Nodes : p.deps[n] \subseteq p.nodes
ASSUME OptionsAssumption ==
    /\ Options # {}
    /\ Options \subseteq OptionType
    /\ \A o \in Options : o.cap >= 1
ASSUME BoundsAssumption == MaxLaunch \in Nat /\ MaxCalls \in Nat
ASSUME FaultsAssumption == Faults \subseteq {"save", "commit"}

VARIABLES graph,     \* SharedState::graphs[name]; status "none": not registered
          disk,      \* what graph.json holds; status "none": nothing readable
          unsaved,   \* the last attempt to write graph.json failed
          runs,      \* SharedState::goals: runs[n][k] is the k-th launch of n
          launches,  \* how often each node id was launched
          call,      \* what each socket handler still has to do
          ticked,    \* the tick has processed graphs and has not purged yet
          dirty,     \* the base checkout has uncommitted changes
          merged,    \* launches whose branch the base checkout contains
          bare,      \* of these, those merged without their uncommitted work
          served,    \* several-step requests begun
          accepted,  \* history: launches a human accepted as the node's own run
          foreign    \* history: a node was finished through a run not its own

vars == <<graph, disk, unsaved, runs, launches, call, ticked, dirty, merged,
          bare, served, accepted, foreign>>

-----------------------------------------------------------------------------
GraphStates == {"none", "proposing", "proposed", "running", "complete",
                "paused", "stopped"}
NodeStates == {"absent", "pending", "running", "review", "done", "blocked",
               "interrupted"}

\* run: the launch the node's workspace belongs to, 0 without a workspace.
\* wt: the node names a worktree and a branch.  merge: a blocked node's detail
\* starts with "merge".
Node == [st : NodeStates, run : 0..MaxLaunch, wt : BOOLEAN, merge : BOOLEAN]

Graph == [status : GraphStates, opt : Options,
          deps : [Nodes -> SUBSET Nodes], node : [Nodes -> Node]]

Run == [st : {"none", "live", "done", "blocked"}, open : BOOLEAN]

Call == [op : {"idle", "create", "insert", "accept", "continue", "stop"},
         opt : Options, n : Nodes, k : 0..MaxLaunch]

AbsentNode == [st |-> "absent", run |-> 0, wt |-> FALSE, merge |-> FALSE]
PendingNode == [AbsentNode EXCEPT !.st = "pending"]
NoRun == [st |-> "none", open |-> FALSE]

NewGraph(opt) == [status |-> "proposing", opt |-> opt,
                  deps |-> [n \in Nodes |-> {}],
                  node |-> [n \in Nodes |-> AbsentNode]]
NoGraph == [NewGraph(CHOOSE o \in Options : TRUE) EXCEPT !.status = "none"]

Idle == [op |-> "idle", opt |-> CHOOSE o \in Options : TRUE,
         n |-> CHOOSE n \in Nodes : TRUE, k |-> 0]

Exists == graph.status # "none"
InPlan(g) == {n \in Nodes : g.node[n].st # "absent"}
In(N, S) == {n \in Nodes : N[n].st \in S}
Registered(n, k) == k \in 1..MaxLaunch /\ runs[n][k].st # "none"

\* save_graph discards errors.  Opening graph.json may fail, which leaves its
\* content, or the write is cut off, which leaves nothing readable.
Write(g, old) ==
    \/ disk' = g /\ unsaved' = FALSE
    \/ /\ "save" \in Faults
       /\ disk' \in {old, NoGraph}
       /\ unsaved' = TRUE

\* A spec changed under the graphs lock is written to graph.json.
Save(g) == graph' = g /\ Write(g, disk)

-----------------------------------------------------------------------------
\* finish_node: commit the node's worktree and merge its branch into the base
\* checkout, unless that is dirty or the merge conflicts.  A commit that fails
\* is ignored and the branch is merged as it is: see MergeBranches.
CanMerge(nd, conflict) == ~nd.wt \/ (~dirty /\ ~conflict)

\* (Mutants of FinishNode: it ignores a failed merge; it finishes twice.)
FinishUnmerged(nd, conflict) == [nd EXCEPT !.st = "done", !.merge = FALSE]

FinishAgain(nd, conflict) ==
    IF CanMerge(nd, conflict)
    THEN [nd EXCEPT !.st = "done", !.merge = FALSE]
    ELSE [nd EXCEPT !.st = "blocked", !.merge = TRUE]

FinishNode(nd, conflict) ==
    IF nd.st = "done" THEN nd
    ELSE IF CanMerge(nd, conflict)
         THEN [nd EXCEPT !.st = "done", !.merge = FALSE]
         ELSE [nd EXCEPT !.st = "blocked", !.merge = TRUE]

\* What finishing the nodes of S adds to the base checkout.
Merges(N, S, C) ==
    {<<n, N[n].run>> : n \in {m \in S : /\ N[m].st # "done"
                                        /\ N[m].wt
                                        /\ CanMerge(N[m], m \in C)}}

\* Branches enter the base checkout; one whose git add or git commit failed does
\* so without the work the node's agent left uncommitted.
MergeBranches(M) ==
    /\ merged' = merged \cup M
    /\ \E F \in SUBSET M : /\ F # {} => "commit" \in Faults
                          /\ bare' = bare \cup F

\* Nodes whose run is done and needs no human verdict, and the other rules of
\* sync_node_states.
\* (Mutant of ToFinish: it forgets Gate 2.)
ToFinishUnreviewed == {n \in Nodes : /\ graph.node[n].st = "running"
                                     /\ Registered(n, graph.node[n].run)
                                     /\ runs[n][graph.node[n].run].st = "done"}

ToFinish == {n \in Nodes : /\ graph.node[n].st = "running"
                           /\ Registered(n, graph.node[n].run)
                           /\ runs[n][graph.node[n].run].st = "done"
                           /\ ~graph.opt.gate2}

\* (Mutant of SyncNode: it waits for a run that is gone.)
SyncWaits(n) ==
    LET nd == graph.node[n]
    IN  IF nd.st # "running" \/ ~Registered(n, nd.run) THEN nd
        ELSE IF runs[n][nd.run].st = "blocked"
             THEN [nd EXCEPT !.st = "blocked", !.merge = FALSE]
        ELSE nd

SyncNode(n) ==
    LET nd == graph.node[n]
    IN  IF nd.st # "running" THEN nd
        ELSE IF ~Registered(n, nd.run) THEN [nd EXCEPT !.st = "interrupted"]
        ELSE IF runs[n][nd.run].st = "done" /\ graph.opt.gate2
             THEN [nd EXCEPT !.st = "review"]
        ELSE IF runs[n][nd.run].st = "blocked"
             THEN [nd EXCEPT !.st = "blocked", !.merge = FALSE]
        ELSE nd

Synced(C) == [n \in Nodes |-> IF n \in ToFinish
                              THEN FinishNode(graph.node[n], n \in C)
                              ELSE SyncNode(n)]

\* Launching: pending nodes whose dependencies are done, in plan order, until
\* the slots are used up; a launch that fails takes no slot.
Ready(N) == {n \in Nodes : /\ N[n].st = "pending"
                           /\ \A d \in graph.deps[n] : N[d].st = "done"}
Busy(N) == In(N, {"running", "review"})

\* (Mutant of Slots: it forgets the nodes that run already.)
SlotsOfAll(N) == graph.opt.cap

Slots(N) == IF Cardinality(Busy(N)) < graph.opt.cap
            THEN graph.opt.cap - Cardinality(Busy(N)) ELSE 0

\* L starts, B fails to start.
CanLaunch(N, L, B) ==
    /\ L \subseteq Ready(N)
    /\ B \subseteq Ready(N) \ L
    /\ Cardinality(L) <= Slots(N)
    /\ Cardinality(L) < Slots(N) => L \cup B = Ready(N)
    /\ Slots(N) = 0 => B = {}
    /\ \A n \in L : launches[n] < MaxLaunch

\* (Mutant of Launched: the node names the launch after its own.)
LaunchedNext(N, L, B) ==
    [n \in Nodes |->
        IF n \in L THEN [st |-> "running", run |-> launches[n] + 2,
                         wt |-> graph.opt.worktrees, merge |-> FALSE]
        ELSE IF n \in B THEN [N[n] EXCEPT !.st = "blocked", !.merge = FALSE]
        ELSE N[n]]

Launched(N, L, B) ==
    [n \in Nodes |->
        IF n \in L THEN [st |-> "running", run |-> launches[n] + 1,
                         wt |-> graph.opt.worktrees, merge |-> FALSE]
        ELSE IF n \in B THEN [N[n] EXCEPT !.st = "blocked", !.merge = FALSE]
        ELSE N[n]]

\* The stall rule, as coded: an active node exists and none can progress.
Stalled(N) ==
    /\ In(N, {"running", "review", "pending"}) # {}
    /\ Ready(N) = {} /\ Busy(N) = {}

Adopt(g, p) ==
    [g EXCEPT !.status = "running", !.deps = p.deps,
              !.node = [n \in Nodes |-> IF n \in p.nodes THEN PendingNode
                                                         ELSE AbsentNode]]

-----------------------------------------------------------------------------
Init == /\ graph = NoGraph
        /\ disk = NoGraph
        /\ unsaved = FALSE
        /\ runs = [n \in Nodes |-> [k \in 1..MaxLaunch |-> NoRun]]
        /\ launches = [n \in Nodes |-> 0]
        /\ call = [h \in Handlers |-> Idle]
        /\ ticked = FALSE
        /\ dirty = FALSE
        /\ merged = {}
        /\ bare = {}
        /\ served = 0
        /\ accepted = {}
        /\ foreign = FALSE

-----------------------------------------------------------------------------
(* The main loop. *)

\* (Mutant of SaveIfChanged: it takes an unchanged status for no change.)
SaveIfSettled(g) == /\ graph' = g
                    /\ IF g.status = graph.status THEN UNCHANGED <<disk, unsaved>>
                                                  ELSE Write(g, disk)

\* process_graph writes graph.json only if the tick changed the spec.
SaveIfChanged(g) == /\ graph' = g
                    /\ IF g = graph THEN UNCHANGED <<disk, unsaved>>
                                    ELSE Write(g, disk)

\* A new plan has no node that a foreign run finished, unless a restart may
\* still find the old one.
NewPlan == foreign' = (foreign /\ disk' = disk)

\* tick_proposing finds a plan: it opens the review, or adopts it at once.
TickProposing ==
    /\ graph.status = "proposing"
    /\ \/ /\ graph.opt.review
          /\ SaveIfChanged([graph EXCEPT !.status = "proposed"])
          /\ UNCHANGED <<accepted, foreign>>
       \/ /\ ~graph.opt.review
          /\ \E p \in Plans : SaveIfChanged(Adopt(graph, p))
          /\ NewPlan
          /\ UNCHANGED accepted
    /\ UNCHANGED <<runs, launches, merged, bare>>

AllDone(N) == \A n \in InPlan(graph) : N[n].st = "done"

\* tick_running: every node is done once the finished runs are merged.  (Its
\* first branch, a running graph without nodes, cannot be reached: invariant
\* RunningHasNodes.)
TickComplete ==
    /\ graph.status = "running"
    /\ \E C \in SUBSET ToFinish :
         /\ AllDone(Synced(C))
         /\ SaveIfChanged([graph EXCEPT !.status = "complete", !.node = Synced(C)])
         /\ MergeBranches(Merges(graph.node, ToFinish, C))
    /\ UNCHANGED <<runs, launches, accepted, foreign>>

\* tick_running: sync, launch what is ready, pause if nothing can progress.
TickLaunch ==
    /\ graph.status = "running"
    /\ \E C \in SUBSET ToFinish, L, B \in SUBSET Nodes :
         LET N1 == Synced(C)
             N2 == Launched(N1, L, B)
         IN  /\ ~AllDone(N1)
             /\ CanLaunch(N1, L, B)
             /\ SaveIfChanged([graph EXCEPT
                    !.node = N2,
                    !.status = IF Stalled(N2) THEN "paused" ELSE "running"])
             /\ MergeBranches(Merges(graph.node, ToFinish, C))
             /\ launches' = [n \in Nodes |-> IF n \in L THEN launches[n] + 1
                                                       ELSE launches[n]]
             /\ runs' = [n \in Nodes |->
                           IF n \in L
                           THEN [runs[n] EXCEPT ![launches[n] + 1] =
                                    [st |-> "live", open |-> TRUE]]
                           ELSE runs[n]]
    /\ UNCHANGED <<accepted, foreign>>

\* Nothing to do: no plan yet, or a status process_graph returns on.
TickIdle ==
    /\ graph.status # "running"
    /\ UNCHANGED <<graph, disk, unsaved, runs, launches, merged, bare,
                   accepted, foreign>>

Tick == /\ ~ticked
        /\ ticked' = TRUE
        /\ TickProposing \/ TickComplete \/ TickLaunch \/ TickIdle
        /\ UNCHANGED <<call, dirty, served>>

\* After the graphs: the registry drops the runs of closed workspaces (retain
\* for terminal runs, drive_one for live ones).
Purge == /\ ticked
         /\ ticked' = FALSE
         /\ runs' = [n \in Nodes |-> [k \in 1..MaxLaunch |->
                        IF runs[n][k].open THEN runs[n][k] ELSE NoRun]]
         /\ UNCHANGED <<graph, disk, unsaved, launches, call, dirty, merged,
                        bare, served, accepted, foreign>>

SetRun(n, k, st) == runs' = [runs EXCEPT ![n][k].st = st]

\* The goal driver, or an agent's own goal.complete, settles a run.
RunSettles(n, k, st) ==
    /\ Registered(n, k)
    /\ runs[n][k].st = "live"
    /\ SetRun(n, k, st)
    /\ UNCHANGED <<graph, disk, unsaved, launches, call, ticked, dirty, merged,
                   bare, served, accepted, foreign>>

\* goal.complete with a done report: whatever the status was.
GoalComplete(n, k) ==
    /\ Registered(n, k)
    /\ SetRun(n, k, "done")
    /\ UNCHANGED <<graph, disk, unsaved, launches, call, ticked, dirty, merged,
                   bare, served, accepted, foreign>>

\* goal.stop (stop_run): whatever the status was.
GoalStop(n, k) ==
    /\ Registered(n, k)
    /\ SetRun(n, k, "blocked")
    /\ UNCHANGED <<graph, disk, unsaved, launches, call, ticked, dirty, merged,
                   bare, served, accepted, foreign>>

-----------------------------------------------------------------------------
(* Graph requests that hold the graphs lock throughout. *)

GraphOnly(g) == /\ Save(g)
                /\ UNCHANGED <<runs, launches, call, ticked, dirty, served>>

CanApprove == graph.status \in {"proposing", "proposed"}

\* approve_graph re-reads the proposal, whatever it is by now.
ApproveGraph(p) ==
    /\ CanApprove
    /\ GraphOnly(Adopt(graph, p))
    /\ NewPlan
    /\ UNCHANGED <<merged, bare, accepted>>

ReviseGraph ==
    /\ graph.status \in {"proposing", "proposed"}
    /\ GraphOnly([graph EXCEPT !.status = "proposing"])
    /\ UNCHANGED <<merged, bare, accepted, foreign>>

\* pause_graph: set_graph_state, from any status.
PauseGraph ==
    /\ Exists
    /\ GraphOnly([graph EXCEPT !.status = "paused"])
    /\ UNCHANGED <<merged, bare, accepted, foreign>>

\* resume_graph: interrupted nodes will be relaunched, waiting merges are
\* retried now.
MergeWaiting == {n \in Nodes : graph.node[n].st = "blocked" /\ graph.node[n].merge}

Resumed(C) ==
    [n \in Nodes |->
        IF n \in MergeWaiting THEN FinishNode(graph.node[n], n \in C)
        ELSE IF graph.node[n].st = "interrupted"
             THEN [graph.node[n] EXCEPT !.st = "pending", !.merge = FALSE]
             ELSE graph.node[n]]

\* (Mutant of ResumeGraph: no plan is needed.)
ResumePlanless ==
    /\ Exists
    /\ \E C \in SUBSET MergeWaiting :
         /\ GraphOnly([graph EXCEPT !.status = "running", !.node = Resumed(C)])
         /\ MergeBranches(Merges(graph.node, MergeWaiting, C))
    /\ UNCHANGED <<accepted, foreign>>

ResumeGraph ==
    /\ Exists
    /\ InPlan(graph) # {}
    /\ \E C \in SUBSET MergeWaiting :
         /\ GraphOnly([graph EXCEPT !.status = "running", !.node = Resumed(C)])
         /\ MergeBranches(Merges(graph.node, MergeWaiting, C))
    /\ UNCHANGED <<accepted, foreign>>

-----------------------------------------------------------------------------
(* Requests of several steps. *)

Begin(h, op, n, k) ==
    /\ call[h].op = "idle"
    /\ served < MaxCalls
    /\ served' = served + 1
    /\ call' = [call EXCEPT ![h] = [Idle EXCEPT !.op = op, !.n = n, !.k = k]]

End(h) == call' = [call EXCEPT ![h] = Idle]

\* create_graph, first lock: a stopped or completed graph releases its name.
CreateCheck(h) ==
    /\ graph.status \in {"none", "stopped", "complete"}
    /\ Begin(h, "create", Idle.n, 0)
    /\ graph' = NoGraph
    /\ UNCHANGED <<disk, unsaved, runs, launches, ticked, dirty, merged, bare,
                   accepted, foreign>>

\* create_graph, without the lock: the new spec is saved ...
CreateSave(h, opt) ==
    /\ call[h].op = "create"
    /\ Write(NewGraph(opt), disk)
    /\ call' = [call EXCEPT ![h].op = "insert", ![h].opt = opt]
    /\ UNCHANGED <<graph, runs, launches, ticked, dirty, merged, bare, served,
                   accepted, foreign>>

\* ... or the request fails (unknown runner, no directory).
CreateFail(h) ==
    /\ call[h].op = "create"
    /\ End(h)
    /\ UNCHANGED <<graph, disk, unsaved, runs, launches, ticked, dirty, merged,
                   bare, served, accepted, foreign>>

\* create_graph, last lock: the spec is registered.
CreateInsert(h) ==
    /\ call[h].op = "insert"
    /\ graph' = NewGraph(call[h].opt)
    /\ End(h)
    /\ UNCHANGED <<disk, unsaved, runs, launches, ticked, dirty, merged, bare,
                   served, accepted, foreign>>

\* stop_graph: the graph first, its live goal runs afterwards, by graph name.
StopGraph(h) ==
    /\ Exists
    /\ Begin(h, "stop", Idle.n, 0)
    /\ Save([graph EXCEPT !.status = "stopped"])
    /\ UNCHANGED <<runs, launches, ticked, dirty, merged, bare, accepted,
                   foreign>>

StopRuns(h) ==
    /\ call[h].op = "stop"
    /\ runs' = [n \in Nodes |-> [k \in 1..MaxLaunch |->
                  IF runs[n][k].st = "live" THEN [runs[n][k] EXCEPT !.st = "blocked"]
                                            ELSE runs[n][k]]]
    /\ End(h)
    /\ UNCHANGED <<graph, disk, unsaved, launches, ticked, dirty, merged, bare,
                   served, accepted, foreign>>

\* goal.accept: the run is done ...
GoalAccept(h, n, k) ==
    /\ Registered(n, k)
    /\ Begin(h, "accept", n, k)
    /\ SetRun(n, k, "done")
    /\ UNCHANGED <<graph, disk, unsaved, launches, ticked, dirty, merged, bare,
                   accepted, foreign>>

\* ... and accept_node finishes the node its link names, in the graph that has
\* the link's name by then.
AcceptNode(h) ==
    LET n == call[h].n
        k == call[h].k
    IN  /\ call[h].op = "accept"
        /\ Registered(n, k)
        /\ n \in InPlan(graph)
        /\ \E C \in SUBSET {n} :
             /\ Save([graph EXCEPT !.node[n] = FinishNode(@, n \in C)])
             /\ MergeBranches(Merges(graph.node, {n}, C))
        /\ accepted' = IF k = graph.node[n].run THEN accepted \cup {<<n, k>>} ELSE accepted
        /\ foreign' = (foreign \/ (graph.node[n].st # "done" /\ k # graph.node[n].run))
        /\ End(h)
        /\ UNCHANGED <<runs, launches, ticked, dirty, served>>

\* goal.continue: advance_iteration puts the run back to work ...
GoalContinue(h, n, k) ==
    /\ Registered(n, k)
    /\ Begin(h, "continue", n, k)
    /\ SetRun(n, k, "live")
    /\ UNCHANGED <<graph, disk, unsaved, launches, ticked, dirty, merged, bare,
                   accepted, foreign>>

\* continue_node: a node under review runs again.
BackToRunning(n) ==
    Save([graph EXCEPT !.node[n] = [graph.node[n] EXCEPT !.st = "running", !.merge = FALSE]])

ContinueNode(h) ==
    LET n == call[h].n
    IN  /\ call[h].op = "continue"
        /\ Registered(n, call[h].k)
        /\ graph.node[n].st = "review"
        /\ BackToRunning(n)
        /\ End(h)
        /\ UNCHANGED <<runs, launches, ticked, dirty, merged, bare, served,
                       accepted, foreign>>

\* accept_node and continue_node find no run, no node, or nothing to change.
NodeCallIsMoot(h) ==
    LET n == call[h].n
    IN  /\ \/ /\ call[h].op = "accept"
              /\ ~(Registered(n, call[h].k) /\ n \in InPlan(graph))
           \/ /\ call[h].op = "continue"
              /\ ~(Registered(n, call[h].k) /\ graph.node[n].st = "review")
        /\ End(h)
        /\ UNCHANGED <<graph, disk, unsaved, runs, launches, ticked, dirty,
                       merged, bare, served, accepted, foreign>>

\* The panel's Continue button calls continue_node even if advance_iteration
\* refused (no report yet, no live agent).
PanelContinue(n) ==
    /\ graph.node[n].st = "review"
    /\ Registered(n, graph.node[n].run)
    /\ BackToRunning(n)
    /\ UNCHANGED <<runs, launches, call, ticked, dirty, merged, bare, served,
                   accepted, foreign>>

-----------------------------------------------------------------------------
(* The world. *)

CloseWorkspace(n, k) ==
    /\ Registered(n, k)
    /\ runs[n][k].open
    /\ runs' = [runs EXCEPT ![n][k].open = FALSE]
    /\ UNCHANGED <<graph, disk, unsaved, launches, call, ticked, dirty, merged,
                   bare, served, accepted, foreign>>

\* The user edits, or commits, the base checkout.
UserTouchesCheckout ==
    /\ dirty' = ~dirty
    /\ UNCHANGED <<graph, disk, unsaved, runs, launches, call, ticked, merged,
                   bare, served, accepted, foreign>>

\* ensure_loaded: no run survived, so nodes that ran are interrupted, and a
\* graph that had such nodes waits for a human.
Lost(nd) == nd.st \in {"running", "review"}

Reconcile(g) ==
    [g EXCEPT !.node = [n \in Nodes |->
                 IF Lost(g.node[n])
                 THEN [g.node[n] EXCEPT !.st = "interrupted", !.run = 0, !.merge = FALSE]
                 ELSE g.node[n]],
              !.status = IF g.status = "running" /\ \E n \in Nodes : Lost(g.node[n])
                         THEN "paused" ELSE g.status]

RestartFrom(d) ==
    /\ graph' = Reconcile(d)
    /\ IF d = NoGraph THEN disk' = NoGraph /\ unsaved' = FALSE
                      ELSE Write(Reconcile(d), d)
    /\ runs' = [n \in Nodes |-> [k \in 1..MaxLaunch |-> NoRun]]
    /\ call' = [h \in Handlers |-> Idle]
    /\ ticked' = FALSE
    /\ UNCHANGED <<launches, dirty, served, accepted, foreign>>

\* The process dies between two saves and comes back.
Restart == RestartFrom(disk) /\ UNCHANGED <<merged, bare>>

\* Nodes whose merge a tick, resume_graph or accept_node is about to make.
Finishing(S) ==
    \/ graph.status = "running" /\ ~ticked /\ S \subseteq ToFinish
    \/ Exists /\ S \subseteq MergeWaiting
    \/ \E h \in Handlers : /\ call[h].op = "accept" /\ S = {call[h].n}
                           /\ Registered(call[h].n, call[h].k)
                           /\ call[h].n \in InPlan(graph)

\* It dies in finish_node, after some merges and before the save.
CrashAfterMerge(S) ==
    LET M == Merges(graph.node, S, {})
    IN  /\ Finishing(S)
        /\ ~dirty
        /\ M # {}
        /\ RestartFrom(disk)
        /\ MergeBranches(M)

\* It dies while graph.json is being rewritten in place.
CrashInSave ==
    /\ Exists \/ \E h \in Handlers : call[h].op = "create"
    /\ RestartFrom(NoGraph)
    /\ UNCHANGED <<merged, bare>>

-----------------------------------------------------------------------------
Next == \/ Tick \/ Purge
        \/ \E p \in Plans : ApproveGraph(p)
        \/ ReviseGraph \/ PauseGraph \/ ResumeGraph
        \/ \E h \in Handlers :
             \/ CreateCheck(h) \/ CreateFail(h) \/ CreateInsert(h)
             \/ \E opt \in Options : CreateSave(h, opt)
             \/ StopGraph(h) \/ StopRuns(h)
             \/ AcceptNode(h) \/ ContinueNode(h) \/ NodeCallIsMoot(h)
             \/ \E n \in Nodes, k \in 1..MaxLaunch :
                  GoalAccept(h, n, k) \/ GoalContinue(h, n, k)
        \/ \E n \in Nodes, k \in 1..MaxLaunch :
             \/ \E st \in {"done", "blocked"} : RunSettles(n, k, st)
             \/ GoalComplete(n, k) \/ GoalStop(n, k) \/ CloseWorkspace(n, k)
        \/ \E n \in Nodes : PanelContinue(n)
        \/ \E S \in SUBSET Nodes : CrashAfterMerge(S)
        \/ UserTouchesCheckout \/ Restart \/ CrashInSave

Spec == Init /\ [][Next]_vars

\* The main loop ticks, and every agent ends its turn one way or the other;
\* humans, crashes and socket clients owe nothing.
Fairness == /\ WF_vars(Tick) /\ WF_vars(Purge)
            /\ \A n \in Nodes, k \in 1..MaxLaunch :
                 WF_vars(\E st \in {"done", "blocked"} : RunSettles(n, k, st))

FairSpec == Spec /\ Fairness

-----------------------------------------------------------------------------
(* Properties. *)

TypeOK == /\ graph \in Graph
          /\ disk \in Graph
          /\ unsaved \in BOOLEAN
          /\ runs \in [Nodes -> [1..MaxLaunch -> Run]]
          /\ launches \in [Nodes -> 0..MaxLaunch]
          /\ call \in [Handlers -> Call]
          /\ ticked \in BOOLEAN
          /\ dirty \in BOOLEAN
          /\ merged \subseteq Nodes \X (0..MaxLaunch)
          /\ bare \subseteq merged
          /\ served \in 0..MaxCalls
          /\ accepted \subseteq Nodes \X (1..MaxLaunch)
          /\ foreign \in BOOLEAN

\* The concurrency cap (process_graph, continue_node, resume_graph,
\* ensure_loaded): nodes that run or wait for review never exceed it, whatever
\* restarts, resumes and verdicts come between two launches.
CapHolds == Cardinality(In(graph.node, {"running", "review"})) <= graph.opt.cap

\* Gate 2 (sync_node_states, accept_node, resume_graph): with
\* --review-iterations no node is finished, and no merge is waiting, unless a
\* human accepted the node's own run; a node finished by a foreign run is
\* AcceptFinishesItsOwnNode's concern.
ReviewGate ==
    foreign \/ (graph.opt.gate2 =>
                  \A n \in Nodes :
                    \/ graph.node[n].st = "done"
                    \/ graph.node[n].st = "blocked" /\ graph.node[n].merge
                    => <<n, graph.node[n].run>> \in accepted)

\* A node that was started works on finished dependencies, and in worktree
\* mode the base checkout its worktree was cut from holds their branches
\* (tick_running, finish_node, and every way back from a crash or from a file
\* that could not be written).  That a branch holds the node's work is
\* DoneMeansCommitted's concern.
Started == Nodes \ In(graph.node, {"absent", "pending"})
DependentsSeeMergedBranches ==
    foreign \/ \A n \in Started : \A d \in graph.deps[n] :
                  /\ graph.node[d].st = "done"
                  /\ graph.opt.worktrees => <<d, graph.node[d].run>> \in merged

\* A graph that reports itself finished left nothing behind: every node of
\* the plan is done, and in worktree mode its branch is in the base checkout.
CompleteMeansMerged ==
    graph.status = "complete" /\ ~foreign =>
        \A n \in InPlan(graph) :
           /\ graph.node[n].st = "done"
           /\ graph.opt.worktrees => <<n, graph.node[n].run>> \in merged

\* tick_running's branch for a running graph without nodes is dead code: no
\* sequence of requests and restarts makes a graph run without a plan.
RunningHasNodes == graph.status \in {"running", "complete"} => InPlan(graph) # {}

\* Finished work is never redone: a done node stays done through late accepts,
\* retried merges and every restart that finds graph.json as it was last meant
\* to be, until its graph is replaced by a new one or its file is lost.  Only a
\* restart that follows a failed write goes back to what the file still holds
\* (finish_node's early return, save_graph, ensure_loaded).
DoneIsFinal ==
    [][\A n \in Nodes :
          graph.node[n].st = "done" =>
              \/ graph'.node[n].st = "done"
              \/ graph'.status \in {"none", "proposing"}
              \/ unsaved /\ graph' = Reconcile(disk)]_vars

\* Left alone, a running graph without iteration review leaves no node waiting
\* or working for ever: it completes, pauses, or is down to nodes a human has
\* to look at (tick_running over all its ticks).
GraphSettles ==
    graph.status = "running" /\ ~graph.opt.gate2
        ~> \/ graph.status # "running"
           \/ In(graph.node, {"pending", "running", "review"}) = {}

-----------------------------------------------------------------------------
(* The inductive invariant.  It speaks of the registered graph and of the  *)
(* saved one alike, since a restart turns the second into the first.       *)

\* A node's run was launched; a node with a run has a worktree exactly if the
\* graph uses worktrees; a pending or interrupted node's run is not registered,
\* so no verdict can reach the node through it.
RunOK(g, ls, rs) ==
    \A n \in Nodes :
       /\ g.node[n].run <= ls[n]
       /\ g.node[n].run > 0 => g.node[n].wt = g.opt.worktrees
       /\ g.node[n].st \in {"pending", "interrupted"} /\ g.node[n].run > 0
             => rs[n][g.node[n].run].st = "none"

\* Dependencies come first, done means merged, a waiting merge has a branch,
\* and Gate 2 was passed.
Solid(g, m, acc) ==
    \A n \in Nodes :
       /\ g.node[n].st \notin {"absent", "pending"} =>
             \A d \in g.deps[n] : g.node[d].st = "done"
       /\ g.node[n].st = "done" /\ g.opt.worktrees => <<n, g.node[n].run>> \in m
       /\ g.node[n].st = "blocked" /\ g.node[n].merge => g.node[n].run > 0
       /\ /\ g.opt.gate2
          /\ \/ g.node[n].st = "done"
             \/ g.node[n].st = "blocked" /\ g.node[n].merge
          => <<n, g.node[n].run>> \in acc

\* A graph that runs or is complete has a plan, and a complete one is done.
PlanOK(g) == /\ g.status \in {"running", "complete"} =>
                   \E n \in Nodes : g.node[n].st # "absent"
             /\ g.status = "complete" =>
                   \A n \in Nodes : g.node[n].st \in {"absent", "done"}

IInv == /\ TypeOK /\ CapHolds
        /\ RunOK(graph, launches, runs) /\ RunOK(disk, launches, runs)
        /\ PlanOK(graph) /\ PlanOK(disk)
        /\ foreign \/ (Solid(graph, merged, accepted) /\ Solid(disk, merged, accepted))

-----------------------------------------------------------------------------
(* What the documentation says and the code does not do. *)

\* graph.rs: "Stalled? (nothing running, nothing launchable, not everything
\* done)" - such a graph is paused and its owner notified.
NothingMoves == /\ Busy(graph.node) = {} /\ Ready(graph.node) = {}
                /\ ~AllDone(graph.node)
StalledGraphPauses ==
    graph.status = "running" /\ NothingMoves
        ~> graph.status # "running" \/ ~NothingMoves

\* resume_graph's error for a paused graph without a plan: "review the plan,
\* then run: jmux graph approve".
PausedPlanCanBeApproved ==
    graph.status = "paused" /\ InPlan(graph) = {} => CanApprove

\* accept_node: "Human accepted a node's current iteration (Gate 2): finish it
\* now" - the node, not a namesake in a later graph.
AcceptFinishesItsOwnNode == ~foreign

\* create_graph: "A stopped or completed graph releases its name; anything live
\* must be stopped explicitly first."
LiveGraphKeepsItsPlan ==
    [][graph.status \in {"running", "paused"} /\ InPlan(graph) # {} =>
         graph'.status \in {"running", "paused", "complete", "stopped", "none"}]_vars

\* GOAL-GRAPH.md, after a restart: "running nodes were interrupted; jmux graph
\* resume <name> relaunches them" - so the graph is still there.
RestartRemembersGraph ==
    [][Exists => Exists' \/ \E h \in Handlers : call'[h].op = "create"]_vars

\* GOAL-GRAPH.md, after a restart: "running nodes were interrupted; jmux graph
\* resume <name> relaunches them" - and only them: a finished node stays so.
DoneSurvivesRestart ==
    [][\A n \in Nodes :
          graph.node[n].st = "done" /\ graph'.status \notin {"none", "proposing"}
              => graph'.node[n].st = "done"]_vars

\* finish_node: "in worktree mode commit its work and merge the branch back;
\* then mark Done".
DoneMeansCommitted ==
    \A n \in Nodes : graph.node[n].st = "done" => <<n, graph.node[n].run>> \notin bare

\* stop_graph: "Terminate the graph's goal runs so the driver stops nudging
\* agents of a stopped graph" - not those of a graph that was resumed, or made
\* anew under the name, by then.
StopSparesRunningGraphs ==
    [][\A h \in Handlers :
          call[h].op = "stop" /\ call'[h].op = "idle" /\ graph.status = "running"
              => \A n \in Nodes : \A k \in 1..MaxLaunch :
                    runs[n][k].st = "live" /\ graph.node[n].run = k
                        => runs'[n][k].st # "blocked"]_vars

\* The panel of a node under review: "Accept merges and unblocks dependents" -
\* it needs the node's run.
ReviewedNodeCanBeAccepted ==
    \A n \in Nodes : graph.node[n].st = "review" =>
                        Registered(n, graph.node[n].run)

\* The notification of a stalled graph: "the nodes that are left are waiting on
\* stopped ones; fix those, then: jmux graph resume".
ResumeSeesFixedNodes ==
    [][graph.status = "paused" /\ graph'.status = "running" =>
         \A n \in Nodes :
            /\ graph.node[n].st = "blocked"
            /\ Registered(n, graph.node[n].run)
            /\ runs[n][graph.node[n].run].st = "done"
            => graph'.node[n].st # "blocked" \/ graph'.node[n].merge]_vars
=============================================================================
