------------------------ MODULE GraphSchedulerProofs ------------------------
(***************************************************************************)
(* Type correctness, the safety invariants of GraphScheduler and that      *)
(* finished work is final, for every set of nodes, plans, options and      *)
(* handlers.                                                               *)
(***************************************************************************)
EXTENDS GraphScheduler, FiniteSetTheorems, TLAPS

-----------------------------------------------------------------------------
(* Types. *)

\* What the fixed records are made of.
LEMMA Constants ==
    /\ NoGraph \in Graph
    /\ \A o \in Options : NewGraph(o) \in Graph
    /\ Idle \in Call
    /\ NoRun \in Run
    /\ AbsentNode \in Node
    /\ PendingNode \in Node
<1>1. AbsentNode \in Node
  BY BoundsAssumption DEF AbsentNode, Node, NodeStates
<1>2. PendingNode \in Node
  BY <1>1 DEF PendingNode, Node, NodeStates
<1>3. \A o \in Options : NewGraph(o) \in Graph
  BY <1>1 DEF NewGraph, Graph, GraphStates
<1>4. NewGraph(CHOOSE o \in Options : TRUE) \in Graph
  BY <1>3, OptionsAssumption
<1>5. NoGraph \in Graph
  BY <1>4 DEF NoGraph, Graph, GraphStates
<1>6. Idle \in Call
  BY NodesAssumption, OptionsAssumption, BoundsAssumption DEF Idle, Call
<1>7. NoRun \in Run
  BY DEF NoRun, Run
<1> QED BY <1>1, <1>2, <1>3, <1>5, <1>6, <1>7

\* The node functions the scheduler computes are typed.
LEMMA MergesType ==
    ASSUME NEW N \in [Nodes -> Node], NEW S \in SUBSET Nodes, NEW C
    PROVE  Merges(N, S, C) \subseteq Nodes \X (0..MaxLaunch)
BY DEF Merges, Node

LEMMA SyncedType ==
    ASSUME TypeOK, NEW C
    PROVE  Synced(C) \in [Nodes -> Node]
<1>1. graph.node \in [Nodes -> Node]
  BY DEF TypeOK, Graph
<1>2. \A n \in Nodes : SyncNode(n) \in Node
  BY ZenonT(40), <1>1 DEF SyncNode, Node, NodeStates
<1>3. \A n \in Nodes : FinishNode(graph.node[n], n \in C) \in Node
  BY <1>1 DEF FinishNode, Node, NodeStates
<1> QED BY <1>2, <1>3 DEF Synced

LEMMA LaunchedType ==
    ASSUME TypeOK, NEW N \in [Nodes -> Node], NEW L, NEW B, CanLaunch(N, L, B)
    PROVE  Launched(N, L, B) \in [Nodes -> Node]
<1>1. graph.opt.worktrees \in BOOLEAN
  BY OptionsAssumption DEF TypeOK, Graph, OptionType
<1>2. \A n \in L : n \in Nodes /\ launches[n] + 1 \in 0..MaxLaunch
  BY BoundsAssumption DEF TypeOK, CanLaunch, Ready
<1>3. \A n \in L : [st |-> "running", run |-> launches[n] + 1,
                    wt |-> graph.opt.worktrees, merge |-> FALSE] \in Node
  BY <1>1, <1>2 DEF Node, NodeStates
<1>4. \A n \in Nodes : [N[n] EXCEPT !.st = "blocked", !.merge = FALSE] \in Node
  BY DEF Node, NodeStates
<1> QED BY <1>3, <1>4 DEF Launched

LEMMA ResumedType ==
    ASSUME TypeOK, NEW C
    PROVE  Resumed(C) \in [Nodes -> Node]
<1>1. graph.node \in [Nodes -> Node]
  BY DEF TypeOK, Graph
<1>2. \A n \in Nodes : FinishNode(graph.node[n], n \in C) \in Node
  BY <1>1 DEF FinishNode, Node, NodeStates
<1>3. \A n \in Nodes : [graph.node[n] EXCEPT !.st = "pending", !.merge = FALSE] \in Node
  BY <1>1 DEF Node, NodeStates
<1> QED BY <1>1, <1>2, <1>3 DEF Resumed

LEMMA AdoptType ==
    ASSUME NEW g \in Graph, NEW p \in Plans
    PROVE  Adopt(g, p) \in Graph
<1> DEFINE N == [n \in Nodes |-> IF n \in p.nodes THEN PendingNode ELSE AbsentNode]
<1>1. N \in [Nodes -> Node] /\ p.deps \in [Nodes -> SUBSET Nodes]
  BY Constants, PlansAssumption DEF PlanType
<1> HIDE DEF N
<1>2. [g EXCEPT !.status = "running", !.deps = p.deps, !.node = N] \in Graph
  BY <1>1 DEF Graph, GraphStates
<1> QED BY <1>2 DEF Adopt, N

LEMMA ReconcileType ==
    ASSUME NEW g \in Graph
    PROVE  Reconcile(g) \in Graph
<1> DEFINE N == [n \in Nodes |->
                   IF Lost(g.node[n])
                   THEN [g.node[n] EXCEPT !.st = "interrupted", !.run = 0, !.merge = FALSE]
                   ELSE g.node[n]]
<1>0. g.node \in [Nodes -> Node]
  BY DEF Graph
<1>1. ASSUME NEW n \in Nodes
      PROVE  [g.node[n] EXCEPT !.st = "interrupted", !.run = 0, !.merge = FALSE] \in Node
  <2>1. 0 \in 0..MaxLaunch
    BY BoundsAssumption
  <2>2. g.node[n] \in Node
    BY <1>0
  <2> QED BY <2>1, <2>2 DEF Node, NodeStates
<1>4. N \in [Nodes -> Node]
  BY <1>0, <1>1 DEF Lost
<1> DEFINE s == IF g.status = "running" /\ \E n \in Nodes : Lost(g.node[n])
                THEN "paused" ELSE g.status
<1>2. s \in GraphStates
  BY DEF Graph, GraphStates
<1>3. Reconcile(g) = [g EXCEPT !.node = N, !.status = s]
  BY DEF Reconcile, Graph
<1> HIDE DEF N, s
<1> QED BY <1>2, <1>3, <1>4 DEF Graph

\* What may be in graph.json after a write, and what merging adds.
LEMMA WriteType ==
    ASSUME NEW g \in Graph, NEW old \in Graph, Write(g, old)
    PROVE  disk' \in Graph /\ unsaved' \in BOOLEAN /\ disk' \in {g, old, NoGraph}
BY Constants DEF Write

LEMMA SaveType ==
    ASSUME TypeOK, NEW g \in Graph, Save(g) \/ SaveIfChanged(g)
    PROVE  /\ graph' = g /\ graph' \in Graph /\ disk' \in Graph /\ unsaved' \in BOOLEAN
           /\ disk' \in {graph', disk, NoGraph}
<1>1. disk \in Graph /\ unsaved \in BOOLEAN
  BY DEF TypeOK
<1>2. graph' = g /\ (Write(g, disk) \/ UNCHANGED <<disk, unsaved>>)
  BY DEF Save, SaveIfChanged
<1> QED BY <1>1, <1>2, WriteType

LEMMA MergeBranchesType ==
    ASSUME TypeOK, NEW M \in SUBSET (Nodes \X (0..MaxLaunch)), MergeBranches(M)
    PROVE  /\ merged' \subseteq Nodes \X (0..MaxLaunch) /\ bare' \subseteq merged'
           /\ merged' = merged \cup M
BY DEF TypeOK, MergeBranches

\* What the small helpers do to the registry and to the handlers.
LEMMA SetRunType ==
    ASSUME TypeOK, NEW n \in Nodes, NEW k \in 1..MaxLaunch,
           NEW st \in {"none", "live", "done", "blocked"}, SetRun(n, k, st)
    PROVE  runs' \in [Nodes -> [1..MaxLaunch -> Run]]
<1>0. runs[n][k] \in Run
  BY DEF TypeOK
<1>1. [runs[n][k] EXCEPT !.st = st] \in Run
  BY <1>0 DEF Run
<1>2. [runs[n] EXCEPT ![k].st = st] \in [1..MaxLaunch -> Run]
  BY <1>1 DEF TypeOK
<1> QED BY <1>2 DEF TypeOK, SetRun

LEMMA BeginType ==
    ASSUME TypeOK, NEW h \in Handlers, NEW op \in {"create", "accept", "continue", "stop"},
           NEW n \in Nodes, NEW k \in 0..MaxLaunch, Begin(h, op, n, k)
    PROVE  call' \in [Handlers -> Call] /\ served' \in 0..MaxCalls
<1>1. [Idle EXCEPT !.op = op, !.n = n, !.k = k] \in Call
  BY Constants DEF Call
<1> QED BY <1>1, BoundsAssumption DEF TypeOK, Begin

LEMMA EndType ==
    ASSUME TypeOK, NEW h \in Handlers, End(h)
    PROVE  call' \in [Handlers -> Call]
BY Constants DEF TypeOK, End

LEMMA BackToRunningType ==
    ASSUME TypeOK, NEW n \in Nodes, BackToRunning(n)
    PROVE  graph' \in Graph /\ disk' \in Graph /\ unsaved' \in BOOLEAN
<1>1. graph \in Graph /\ graph.node[n] \in Node
  BY DEF TypeOK, Graph
<1>2. [graph.node[n] EXCEPT !.st = "running", !.merge = FALSE] \in Node
  BY <1>1 DEF Node, NodeStates
<1>3. [graph EXCEPT !.node[n] =
          [graph.node[n] EXCEPT !.st = "running", !.merge = FALSE]] \in Graph
  BY <1>1, <1>2 DEF Graph
<1> QED BY <1>3, SaveType DEF BackToRunning

LEMMA RestartType ==
    ASSUME TypeOK, NEW d \in Graph, RestartFrom(d),
           merged' \subseteq Nodes \X (0..MaxLaunch), bare' \subseteq merged'
    PROVE  TypeOK'
<1>1. graph' \in Graph /\ disk' \in Graph /\ unsaved' \in BOOLEAN
  BY Constants, ReconcileType, WriteType DEF RestartFrom
<1> QED BY <1>1, Constants DEF TypeOK, RestartFrom

\* Every action keeps the types.
LEMMA TypeTick == TypeOK /\ Tick => TypeOK'
<1> SUFFICES ASSUME TypeOK, Tick PROVE TypeOK'
  OBVIOUS
<1>0. graph \in Graph /\ disk \in Graph /\ graph.node \in [Nodes -> Node]
  BY DEF TypeOK, Graph
<1>1. CASE TickProposing
  <2>1. [graph EXCEPT !.status = "proposed"] \in Graph
    BY <1>0 DEF Graph, GraphStates
  <2>2. /\ graph' \in Graph /\ disk' \in Graph /\ unsaved' \in BOOLEAN
        /\ foreign' \in BOOLEAN /\ UNCHANGED <<accepted, runs, launches, merged, bare>>
    BY <1>0, <1>1, <2>1, AdoptType, SaveType DEF TickProposing, NewPlan, TypeOK
  <2> QED BY <2>2 DEF Tick, TypeOK
<1>2. CASE TickComplete
  <2>1. PICK C \in SUBSET ToFinish :
           /\ SaveIfChanged([graph EXCEPT !.status = "complete", !.node = Synced(C)])
           /\ MergeBranches(Merges(graph.node, ToFinish, C))
    BY <1>2 DEF TickComplete
  <2>2. [graph EXCEPT !.status = "complete", !.node = Synced(C)] \in Graph
    BY <1>0, SyncedType DEF Graph, GraphStates
  <2>3. merged' \subseteq Nodes \X (0..MaxLaunch) /\ bare' \subseteq merged'
    BY <1>0, <2>1, MergesType, MergeBranchesType DEF ToFinish
  <2>4. graph' \in Graph /\ disk' \in Graph /\ unsaved' \in BOOLEAN
    BY <2>1, <2>2, SaveType
  <2> QED BY <1>0, <1>2, <2>3, <2>4 DEF Tick, TickComplete, TypeOK
<1>3. CASE TickLaunch
  <2> DEFINE G(N2) == [graph EXCEPT !.node = N2,
                          !.status = IF Stalled(N2) THEN "paused" ELSE "running"]
  <2>1. PICK C \in SUBSET ToFinish, L \in SUBSET Nodes, B \in SUBSET Nodes :
           /\ CanLaunch(Synced(C), L, B)
           /\ SaveIfChanged(G(Launched(Synced(C), L, B)))
           /\ MergeBranches(Merges(graph.node, ToFinish, C))
           /\ launches' = [n \in Nodes |-> IF n \in L THEN launches[n] + 1
                                                     ELSE launches[n]]
           /\ runs' = [n \in Nodes |->
                         IF n \in L
                         THEN [runs[n] EXCEPT ![launches[n] + 1] =
                                  [st |-> "live", open |-> TRUE]]
                         ELSE runs[n]]
    BY <1>3 DEF TickLaunch
  <2>2. Launched(Synced(C), L, B) \in [Nodes -> Node]
    BY <2>1, SyncedType, LaunchedType
  <2>3. G(Launched(Synced(C), L, B)) \in Graph
    BY <1>0, <2>2 DEF Graph, GraphStates
  <2>4. merged' \subseteq Nodes \X (0..MaxLaunch) /\ bare' \subseteq merged'
    BY <1>0, <2>1, MergesType, MergeBranchesType DEF ToFinish
  <2>5. launches' \in [Nodes -> 0..MaxLaunch]
    BY <2>1, BoundsAssumption DEF TypeOK, CanLaunch
  <2>6. runs' \in [Nodes -> [1..MaxLaunch -> Run]]
    BY <2>1 DEF TypeOK, Run
  <2> HIDE DEF G
  <2>7. graph' \in Graph /\ disk' \in Graph /\ unsaved' \in BOOLEAN
    BY <2>1, <2>3, SaveType
  <2> QED BY <1>0, <1>3, <2>4, <2>5, <2>6, <2>7 DEF Tick, TickLaunch, TypeOK
<1>4. CASE TickIdle
  BY <1>4 DEF Tick, TickIdle, TypeOK
<1> QED BY <1>1, <1>2, <1>3, <1>4 DEF Tick

LEMMA TypeGraphRequests ==
    TypeOK /\ ((\E p \in Plans : ApproveGraph(p)) \/ ReviseGraph \/ PauseGraph \/ ResumeGraph)
    => TypeOK'
<1> SUFFICES ASSUME TypeOK,
                    (\E p \in Plans : ApproveGraph(p)) \/ ReviseGraph \/ PauseGraph \/ ResumeGraph
             PROVE  TypeOK'
  OBVIOUS
<1> USE DEF GraphOnly
<1>0. graph \in Graph /\ graph.node \in [Nodes -> Node]
  BY DEF TypeOK, Graph
<1>1. ASSUME NEW p \in Plans, ApproveGraph(p) PROVE TypeOK'
  <2>1. graph' \in Graph /\ disk' \in Graph /\ unsaved' \in BOOLEAN
    BY <1>0, <1>1, AdoptType, SaveType DEF ApproveGraph
  <2> QED BY <1>1, <2>1 DEF ApproveGraph, NewPlan, TypeOK
<1>2. CASE ReviseGraph
  <2>1. [graph EXCEPT !.status = "proposing"] \in Graph
    BY <1>0 DEF Graph, GraphStates
  <2> QED BY <1>2, <2>1, SaveType DEF ReviseGraph, TypeOK
<1>3. CASE PauseGraph
  <2>1. [graph EXCEPT !.status = "paused"] \in Graph
    BY <1>0 DEF Graph, GraphStates
  <2> QED BY <1>3, <2>1, SaveType DEF PauseGraph, TypeOK
<1>4. CASE ResumeGraph
  <2>1. PICK C \in SUBSET MergeWaiting :
           /\ GraphOnly([graph EXCEPT !.status = "running", !.node = Resumed(C)])
           /\ MergeBranches(Merges(graph.node, MergeWaiting, C))
    BY <1>4 DEF ResumeGraph
  <2>2. [graph EXCEPT !.status = "running", !.node = Resumed(C)] \in Graph
    BY <1>0, ResumedType DEF Graph, GraphStates
  <2>3. merged' \subseteq Nodes \X (0..MaxLaunch) /\ bare' \subseteq merged'
    BY <1>0, <2>1, MergesType, MergeBranchesType DEF MergeWaiting
  <2>4. graph' \in Graph /\ disk' \in Graph /\ unsaved' \in BOOLEAN
    BY <2>1, <2>2, SaveType
  <2> QED BY <1>4, <2>1, <2>3, <2>4 DEF ResumeGraph, TypeOK
<1> QED BY <1>1, <1>2, <1>3, <1>4

LEMMA TypeHandler ==
    ASSUME TypeOK, NEW h \in Handlers,
           \/ CreateCheck(h) \/ CreateFail(h) \/ CreateInsert(h)
           \/ \E opt \in Options : CreateSave(h, opt)
           \/ StopGraph(h) \/ StopRuns(h)
           \/ AcceptNode(h) \/ ContinueNode(h) \/ NodeCallIsMoot(h)
           \/ \E n \in Nodes, k \in 1..MaxLaunch : GoalAccept(h, n, k) \/ GoalContinue(h, n, k)
    PROVE  TypeOK'
<1>0. /\ graph \in Graph /\ graph.node \in [Nodes -> Node]
      /\ call[h] \in Call /\ call[h].n \in Nodes /\ Idle.n \in Nodes
      /\ 0 \in 0..MaxLaunch
  BY Constants, BoundsAssumption DEF TypeOK, Graph, Call
<1>1. CASE CreateCheck(h)
  BY <1>0, <1>1, Constants, BeginType DEF CreateCheck, TypeOK
<1>2. CASE CreateFail(h)
  BY <1>2, EndType DEF CreateFail, TypeOK
<1>3. CASE CreateInsert(h)
  BY <1>0, <1>3, Constants, EndType DEF CreateInsert, TypeOK, Call
<1>4. ASSUME NEW opt \in Options, CreateSave(h, opt) PROVE TypeOK'
  <2>1. [call EXCEPT ![h].op = "insert", ![h].opt = opt] \in [Handlers -> Call]
    BY <1>0 DEF TypeOK, Call
  <2>2. disk' \in Graph /\ unsaved' \in BOOLEAN
    BY <1>4, Constants, WriteType DEF CreateSave, TypeOK
  <2> QED BY <1>4, <2>1, <2>2 DEF CreateSave, TypeOK
<1>5. CASE StopGraph(h)
  <2>1. [graph EXCEPT !.status = "stopped"] \in Graph
    BY <1>0 DEF Graph, GraphStates
  <2>2. graph' \in Graph /\ disk' \in Graph /\ unsaved' \in BOOLEAN
    BY <1>5, <2>1, SaveType DEF StopGraph
  <2> QED BY <1>0, <1>5, <2>2, BeginType DEF StopGraph, TypeOK
<1>6. CASE StopRuns(h)
  <2>0. ASSUME NEW n \in Nodes, NEW k \in 1..MaxLaunch
        PROVE  runs[n][k] \in Run /\ [runs[n][k] EXCEPT !.st = "blocked"] \in Run
    <3>1. runs[n][k] \in Run
      BY DEF TypeOK
    <3> QED BY <3>1 DEF Run
  <2>1. runs' \in [Nodes -> [1..MaxLaunch -> Run]]
    BY <1>6, <2>0 DEF StopRuns
  <2> QED BY <1>6, <2>1, EndType DEF StopRuns, TypeOK
<1>7. CASE AcceptNode(h)
  <2> DEFINE n == call[h].n
  <2>1. PICK C \in SUBSET {n} :
           /\ Save([graph EXCEPT !.node[n] = FinishNode(graph.node[n], n \in C)])
           /\ MergeBranches(Merges(graph.node, {n}, C))
    BY <1>7 DEF AcceptNode
  <2>2. FinishNode(graph.node[n], n \in C) \in Node
    BY ZenonT(40), <1>0 DEF FinishNode, Node, NodeStates
  <2>3. [graph EXCEPT !.node[n] = FinishNode(graph.node[n], n \in C)] \in Graph
    BY <1>0, <2>2 DEF Graph
  <2>4. merged' \subseteq Nodes \X (0..MaxLaunch) /\ bare' \subseteq merged'
    BY <1>0, <2>1, MergesType, MergeBranchesType
  <2>5. accepted' \subseteq Nodes \X (1..MaxLaunch) /\ foreign' \in BOOLEAN
    BY <1>0, <1>7 DEF AcceptNode, Registered, TypeOK
  <2>6. graph' \in Graph /\ disk' \in Graph /\ unsaved' \in BOOLEAN
    BY <2>1, <2>3, SaveType
  <2> QED BY <1>7, <2>4, <2>5, <2>6, EndType DEF AcceptNode, TypeOK
<1>8. CASE ContinueNode(h)
  <2>1. BackToRunning(call[h].n)
    BY <1>8 DEF ContinueNode
  <2>2. graph' \in Graph /\ disk' \in Graph /\ unsaved' \in BOOLEAN
    BY <1>0, <2>1, BackToRunningType
  <2> QED BY <1>8, <2>2, EndType DEF ContinueNode, TypeOK
<1>9. CASE NodeCallIsMoot(h)
  BY <1>9, EndType DEF NodeCallIsMoot, TypeOK
<1>10. ASSUME NEW n \in Nodes, NEW k \in 1..MaxLaunch,
              GoalAccept(h, n, k) \/ GoalContinue(h, n, k)
       PROVE  TypeOK'
  <2>1. k \in 0..MaxLaunch
    BY BoundsAssumption
  <2>2. CASE GoalAccept(h, n, k)
    BY <2>1, <2>2, BeginType, SetRunType DEF GoalAccept, TypeOK
  <2>3. CASE GoalContinue(h, n, k)
    BY <2>1, <2>3, BeginType, SetRunType DEF GoalContinue, TypeOK
  <2> QED BY <1>10, <2>2, <2>3
<1> QED BY <1>1, <1>2, <1>3, <1>4, <1>5, <1>6, <1>7, <1>8, <1>9, <1>10

LEMMA TypeWorld ==
    TypeOK /\ (Purge \/ UserTouchesCheckout \/ Restart \/ CrashInSave) => TypeOK'
<1> SUFFICES ASSUME TypeOK, Purge \/ UserTouchesCheckout \/ Restart \/ CrashInSave
             PROVE  TypeOK'
  OBVIOUS
<1>0. disk \in Graph /\ merged \subseteq Nodes \X (0..MaxLaunch) /\ bare \subseteq merged
  BY DEF TypeOK
<1>1. CASE Purge
  <2>1. runs' \in [Nodes -> [1..MaxLaunch -> Run]]
    BY <1>1, Constants DEF Purge, TypeOK
  <2> QED BY <1>1, <2>1 DEF Purge, TypeOK
<1>2. CASE UserTouchesCheckout
  BY <1>2 DEF UserTouchesCheckout, TypeOK
<1>3. CASE Restart
  BY <1>0, <1>3, RestartType DEF Restart
<1>4. CASE CrashInSave
  BY <1>0, <1>4, RestartType, Constants DEF CrashInSave
<1> QED BY <1>1, <1>2, <1>3, <1>4

LEMMA TypeNode ==
    ASSUME TypeOK, NEW n \in Nodes, PanelContinue(n)
    PROVE  TypeOK'
<1>1. graph' \in Graph /\ disk' \in Graph /\ unsaved' \in BOOLEAN
  BY BackToRunningType DEF PanelContinue
<1> QED BY <1>1 DEF PanelContinue, TypeOK

LEMMA TypeCrash ==
    ASSUME TypeOK, NEW S \in SUBSET Nodes, CrashAfterMerge(S)
    PROVE  TypeOK'
<1>1. graph.node \in [Nodes -> Node] /\ disk \in Graph
  BY DEF TypeOK, Graph
<1>2. RestartFrom(disk) /\ MergeBranches(Merges(graph.node, S, {}))
  BY DEF CrashAfterMerge
<1>3. merged' \subseteq Nodes \X (0..MaxLaunch) /\ bare' \subseteq merged'
  BY <1>1, <1>2, MergesType, MergeBranchesType
<1> QED BY <1>1, <1>2, <1>3, RestartType

LEMMA TypeRun ==
    ASSUME TypeOK, NEW n \in Nodes, NEW k \in 1..MaxLaunch,
           \/ \E st \in {"done", "blocked"} : RunSettles(n, k, st)
           \/ GoalComplete(n, k) \/ GoalStop(n, k) \/ CloseWorkspace(n, k)
    PROVE  TypeOK'
<1>7. ASSUME NEW st \in {"done", "blocked"}, RunSettles(n, k, st) PROVE TypeOK'
  BY <1>7, SetRunType DEF RunSettles, TypeOK
<1>8. CASE GoalComplete(n, k)
  BY <1>8, SetRunType DEF GoalComplete, TypeOK
<1>9. CASE GoalStop(n, k)
  BY <1>9, SetRunType DEF GoalStop, TypeOK
<1>10. CASE CloseWorkspace(n, k)
  <2>0. runs[n][k] \in Run
    BY DEF TypeOK
  <2>1. [runs[n][k] EXCEPT !.open = FALSE] \in Run
    BY <2>0 DEF Run
  <2>2. [runs[n] EXCEPT ![k].open = FALSE] \in [1..MaxLaunch -> Run]
    BY <2>1 DEF TypeOK
  <2> QED BY <1>10, <2>2 DEF CloseWorkspace, TypeOK
<1> QED BY <1>7, <1>8, <1>9, <1>10

THEOREM TypeCorrect == Spec => []TypeOK
<1>1. Init => TypeOK
  <2>1. 0 \in 0..MaxLaunch /\ 0 \in 0..MaxCalls
    BY BoundsAssumption
  <2> QED BY <2>1, Constants DEF Init, TypeOK
<1>2. TypeOK /\ [Next]_vars => TypeOK'
  <2>1. TypeOK /\ Next => TypeOK'
    BY TypeTick, TypeGraphRequests, TypeHandler, TypeWorld, TypeNode, TypeCrash, TypeRun DEF Next
  <2>2. TypeOK /\ UNCHANGED vars => TypeOK'
    BY DEF TypeOK, vars
  <2> QED BY <2>1, <2>2
<1> QED BY <1>1, <1>2, PTL DEF Spec

-----------------------------------------------------------------------------
(* Safety. *)

\* The parts of the invariant survive whatever only adds launches, merges and
\* acceptances and registers no old run again.
LEMMA Monotone ==
    ASSUME NEW g \in Graph,
           NEW ls \in [Nodes -> 0..MaxLaunch], NEW ls2 \in [Nodes -> 0..MaxLaunch],
           NEW rs, NEW rs2, NEW m, NEW m2, NEW acc, NEW acc2,
           \A n \in Nodes : ls[n] <= ls2[n],
           \A n \in Nodes : \A k \in 1..ls[n] :
               rs[n][k].st = "none" => rs2[n][k].st = "none",
           m \subseteq m2, acc \subseteq acc2
    PROVE  /\ RunOK(g, ls, rs) => RunOK(g, ls2, rs2)
           /\ Solid(g, m, acc) => Solid(g, m2, acc2)
<1>1. \A n \in Nodes : g.node[n].run \in Nat /\ ls[n] \in Nat /\ ls2[n] \in Nat
  BY BoundsAssumption DEF Graph, Node
<1>2. RunOK(g, ls, rs) => RunOK(g, ls2, rs2)
  BY <1>1 DEF RunOK
<1>3. Solid(g, m, acc) => Solid(g, m2, acc2)
  BY DEF Solid
<1> QED BY <1>2, <1>3

\* A step that leaves graph and disk alone.
LEMMA EnvStep ==
    ASSUME IInv, TypeOK',
           UNCHANGED <<graph, disk, launches, merged, accepted, foreign>>,
           \A n \in Nodes : \A k \in 1..MaxLaunch :
               runs[n][k].st = "none" => runs'[n][k].st = "none"
    PROVE  IInv'
<1>1. /\ graph \in Graph /\ disk \in Graph
      /\ launches \in [Nodes -> 0..MaxLaunch]
      /\ \A n \in Nodes : 1..launches[n] \subseteq 1..MaxLaunch
  BY BoundsAssumption DEF IInv, TypeOK
<1>2. \A n \in Nodes : \A k \in 1..launches[n] :
         runs[n][k].st = "none" => runs'[n][k].st = "none"
  BY <1>1
<1>3. \A n \in Nodes : launches[n] <= launches[n]
  BY <1>1, BoundsAssumption
<1>4. RunOK(graph, launches, runs') /\ RunOK(disk, launches, runs')
  BY <1>1, <1>2, <1>3, Monotone DEF IInv
<1> QED BY <1>4 DEF IInv, CapHolds

\* A graph without nodes is good.
LEMMA NewGraphGood ==
    ASSUME NEW opt \in Options, NEW ls \in [Nodes -> Nat], NEW rs, NEW m, NEW acc,
           NEW g, g = NewGraph(opt) \/ g = NoGraph
    PROVE  /\ RunOK(g, ls, rs) /\ PlanOK(g) /\ Solid(g, m, acc)
           /\ Cardinality(In(g.node, {"running", "review"})) <= g.opt.cap
<1>0. PICK o \in Options : g = NewGraph(o) \/ g = [NewGraph(o) EXCEPT !.status = "none"]
  BY OptionsAssumption DEF NoGraph
<1>1. (\A n \in Nodes : g.node[n] = AbsentNode) /\ g.opt = o
  BY <1>0 DEF NewGraph
<1>2. g.status \in {"none", "proposing"}
  BY <1>0 DEF NewGraph
<1>3. In(g.node, {"running", "review"}) = {}
  BY <1>1 DEF In, AbsentNode
<1>4. g.opt.cap \in Nat
  BY <1>1, OptionsAssumption DEF OptionType
<1>5. Cardinality(In(g.node, {"running", "review"})) <= g.opt.cap
  BY <1>3, <1>4, FS_EmptySet
<1> QED BY <1>1, <1>2, <1>5 DEF RunOK, PlanOK, Solid, AbsentNode

\* It is enough to look at the new graph: graph.json holds it, or what it held, or
\* nothing that can be read.
LEMMA StoredStep ==
    ASSUME IInv, TypeOK', disk' \in {graph', disk, NoGraph},
           RunOK(graph', launches', runs'), PlanOK(graph'), CapHolds',
           foreign' \/ Solid(graph', merged', accepted'),
           \A n \in Nodes : launches[n] <= launches'[n],
           \A n \in Nodes : \A k \in 1..launches[n] :
               runs[n][k].st = "none" => runs'[n][k].st = "none",
           merged \subseteq merged', accepted \subseteq accepted',
           disk' = disk /\ foreign => foreign'
    PROVE  IInv'
<1>1. /\ disk \in Graph
      /\ launches \in [Nodes -> 0..MaxLaunch] /\ launches' \in [Nodes -> 0..MaxLaunch]
      /\ launches' \in [Nodes -> Nat]
  BY BoundsAssumption DEF IInv, TypeOK
<1>2. CASE disk' = graph'
  BY <1>2 DEF IInv
<1>3. CASE disk' = disk
  <2>1. /\ RunOK(disk, launches, runs) => RunOK(disk, launches', runs')
        /\ Solid(disk, merged, accepted) => Solid(disk, merged', accepted')
    BY <1>1, Monotone
  <2>2. /\ RunOK(disk, launches', runs') /\ PlanOK(disk)
        /\ foreign' \/ Solid(disk, merged', accepted')
    BY <1>3, <2>1 DEF IInv
  <2> QED BY <1>3, <2>2 DEF IInv
<1>4. CASE disk' = NoGraph
  <2>1. /\ RunOK(NoGraph, launches', runs') /\ PlanOK(NoGraph)
        /\ Solid(NoGraph, merged', accepted')
    BY <1>1, NewGraphGood, OptionsAssumption
  <2> QED BY <1>4, <2>1 DEF IInv
<1> QED BY <1>2, <1>3, <1>4

\* A step that launches nothing and registers no run.
LEMMA QuietStep ==
    ASSUME IInv, TypeOK', disk' \in {graph', disk, NoGraph},
           UNCHANGED <<runs, launches>>,
           RunOK(graph', launches', runs'), PlanOK(graph'), CapHolds',
           foreign' \/ Solid(graph', merged', accepted'),
           merged \subseteq merged', accepted \subseteq accepted',
           disk' = disk /\ foreign => foreign'
    PROVE  IInv'
<1>1. \A n \in Nodes : launches[n] \in Nat
  BY BoundsAssumption DEF IInv, TypeOK
<1>2. \A n \in Nodes : launches[n] <= launches'[n]
  BY <1>1
<1> QED BY <1>2, StoredStep

\* A freshly adopted plan is good, with nothing accepted and nothing merged.
LEMMA AdoptGood ==
    ASSUME NEW g \in Graph, NEW p \in Plans,
           NEW ls \in [Nodes -> Nat], NEW rs, NEW m, NEW acc
    PROVE  /\ RunOK(Adopt(g, p), ls, rs) /\ PlanOK(Adopt(g, p)) /\ Solid(Adopt(g, p), m, acc)
           /\ Cardinality(In(Adopt(g, p).node, {"running", "review"})) <= Adopt(g, p).opt.cap
<1> DEFINE a == Adopt(g, p)
<1>1. /\ \A n \in Nodes : a.node[n] = IF n \in p.nodes THEN PendingNode ELSE AbsentNode
      /\ a.opt = g.opt /\ a.status = "running"
  BY DEF Adopt, Graph
<1>2. \E n \in Nodes : n \in p.nodes
  BY PlansAssumption DEF PlanType
<1>3. In(a.node, {"running", "review"}) = {}
  BY <1>1 DEF In, AbsentNode, PendingNode
<1>4. a.opt.cap \in Nat
  BY <1>1, OptionsAssumption DEF Graph, OptionType
<1>5. Cardinality(In(a.node, {"running", "review"})) <= a.opt.cap
  BY <1>3, <1>4, FS_EmptySet
<1> HIDE DEF a
<1>6. RunOK(a, ls, rs)
  BY <1>1 DEF RunOK, AbsentNode, PendingNode
<1>7. Solid(a, m, acc)
  BY <1>1 DEF Solid, AbsentNode, PendingNode
<1>8. PlanOK(a)
  BY <1>1, <1>2 DEF PlanOK, AbsentNode, PendingNode
<1> QED BY <1>5, <1>6, <1>7, <1>8 DEF a

\* A plan is adopted, by the tick or by a human.
LEMMA AdoptStep ==
    ASSUME IInv, TypeOK', NEW p \in Plans, graph' = Adopt(graph, p),
           disk' \in {graph', disk, NoGraph}, NewPlan,
           UNCHANGED <<runs, launches, merged, accepted>>
    PROVE  IInv'
<1>1. graph \in Graph /\ launches \in [Nodes -> Nat]
  BY BoundsAssumption DEF IInv, TypeOK
<1>2. /\ RunOK(graph', launches', runs') /\ PlanOK(graph') /\ CapHolds'
      /\ Solid(graph', merged', accepted')
  BY <1>1, AdoptGood DEF CapHolds
<1>3. disk' = disk /\ foreign => foreign'
  BY DEF NewPlan
<1> QED BY <1>2, <1>3, QuietStep

\* A change of status alone: pause, stop, revise, open the plan review.
LEMMA StatusStep ==
    ASSUME IInv, TypeOK', NEW s \in {"paused", "stopped", "proposing", "proposed"},
           graph' = [graph EXCEPT !.status = s], disk' \in {graph', disk, NoGraph},
           UNCHANGED <<runs, launches, merged, accepted, foreign>>
    PROVE  IInv'
<1>1. /\ graph'.node = graph.node /\ graph'.opt = graph.opt /\ graph'.deps = graph.deps
      /\ graph'.status = s
  BY DEF IInv, TypeOK, Graph
<1>2. RunOK(graph', launches, runs) /\ PlanOK(graph') /\ CapHolds'
  BY <1>1 DEF IInv, RunOK, PlanOK, CapHolds
<1>3. foreign \/ Solid(graph', merged, accepted)
  BY <1>1 DEF IInv, Solid
<1> QED BY <1>2, <1>3, QuietStep

\* Fewer busy nodes keep the cap.
LEMMA CapDown ==
    ASSUME NEW N, NEW N2, NEW cap \in Nat,
           In(N2, {"running", "review"}) \subseteq In(N, {"running", "review"}),
           Cardinality(In(N, {"running", "review"})) <= cap
    PROVE  Cardinality(In(N2, {"running", "review"})) <= cap
<1>1. IsFiniteSet(In(N, {"running", "review"}))
  BY NodesAssumption, FS_Subset DEF In
<1>2. /\ Cardinality(In(N2, {"running", "review"})) \in Nat
      /\ Cardinality(In(N, {"running", "review"})) \in Nat
      /\ Cardinality(In(N2, {"running", "review"}))
           <= Cardinality(In(N, {"running", "review"}))
  BY <1>1, FS_Subset, FS_CardinalityType
<1> QED BY <1>2

\* accept_node: the node is done, or waits for its merge, and a human accepted
\* its own run, or the step is recorded as foreign.
LEMMA AcceptStep ==
    ASSUME IInv, TypeOK', NEW h \in Handlers, AcceptNode(h)
    PROVE  IInv'
<1> DEFINE n == call[h].n
           k == call[h].k
<1>0. /\ graph \in Graph /\ graph.node \in [Nodes -> Node] /\ n \in Nodes
      /\ graph.opt.cap \in Nat /\ graph.node[n] \in Node
      /\ launches \in [Nodes -> 0..MaxLaunch]
  BY OptionsAssumption DEF IInv, TypeOK, Graph, Call, OptionType
<1>1. /\ Registered(n, k) /\ graph.node[n].st # "absent"
      /\ UNCHANGED <<runs, launches>>
      /\ accepted' = IF k = graph.node[n].run THEN accepted \cup {<<n, k>>} ELSE accepted
      /\ foreign' = (foreign \/ (graph.node[n].st # "done" /\ k # graph.node[n].run))
  BY DEF AcceptNode, InPlan
<1>2. PICK C \in SUBSET {n} :
         /\ Save([graph EXCEPT !.node[n] = FinishNode(graph.node[n], n \in C)])
         /\ merged' = merged \cup Merges(graph.node, {n}, C)
  BY DEF AcceptNode, MergeBranches
<1> DEFINE f == FinishNode(graph.node[n], n \in C)
<1>3. /\ graph'.node = [graph.node EXCEPT ![n] = f]
      /\ graph'.opt = graph.opt /\ graph'.deps = graph.deps
      /\ graph'.status = graph.status /\ disk' \in {graph', disk, NoGraph}
  BY <1>0, <1>2 DEF Save, Write, Graph
<1>4. \A m \in Nodes : m # n => graph'.node[m] = graph.node[m]
  BY <1>0, <1>3
<1>5. graph'.node[n] = f
  BY <1>0, <1>3
<1>6. /\ f.run = graph.node[n].run /\ f.wt = graph.node[n].wt
      /\ graph.node[n].st = "done" => f = graph.node[n]
      /\ graph.node[n].st # "done" =>
           \/ f.st = "done" /\ CanMerge(graph.node[n], n \in C)
           \/ f.st = "blocked" /\ f.merge /\ graph.node[n].wt
  BY <1>0 DEF FinishNode, CanMerge, Node
<1> HIDE DEF f
<1>7. RunOK(graph', launches', runs')
  <2> DEFINE RunFits(m) ==
          /\ graph'.node[m].run <= launches[m]
          /\ graph'.node[m].run > 0 => graph'.node[m].wt = graph'.opt.worktrees
          /\ graph'.node[m].st \in {"pending", "interrupted"} /\ graph'.node[m].run > 0
                => runs[m][graph'.node[m].run].st = "none"
  <2>1. RunOK(graph, launches, runs)
    BY DEF IInv
  <2>2. ASSUME NEW m \in Nodes, m # n PROVE RunFits(m)
    BY <1>3, <1>4, <2>1, <2>2 DEF RunOK
  <2>3. RunFits(n)
    BY <1>0, <1>3, <1>5, <1>6, <2>1 DEF RunOK
  <2>4. \A m \in Nodes : RunFits(m)
    BY <2>2, <2>3
  <2> QED BY <1>1, <2>4 DEF RunOK
<1>8. PlanOK(graph')
  BY <1>0, <1>1, <1>3, <1>4, <1>5, <1>6 DEF IInv, PlanOK
<1>9. CapHolds'
  <2>1. In(graph'.node, {"running", "review"}) \subseteq In(graph.node, {"running", "review"})
    BY <1>4, <1>5, <1>6 DEF In
  <2> QED BY <1>0, <1>3, <2>1, CapDown DEF IInv, CapHolds
<1>10. foreign' \/ Solid(graph', merged', accepted')
  <2> SUFFICES ASSUME ~foreign' PROVE Solid(graph', merged', accepted')
    OBVIOUS
  <2>1. Solid(graph, merged, accepted) /\ (graph.node[n].st = "done" \/ k = graph.node[n].run)
    BY <1>1 DEF IInv
  <2>2. merged \subseteq merged' /\ accepted \subseteq accepted'
    BY <1>1, <1>2
  <2>3. CASE graph.node[n].st = "done"
    <3>1. \A m \in Nodes : graph'.node[m] = graph.node[m]
      BY <1>4, <1>5, <1>6, <2>3
    <3>2. graph'.node \in [Nodes -> Node]
      BY DEF TypeOK, Graph
    <3>3. graph'.node = graph.node
      BY <1>0, <3>1, <3>2
    <3> QED BY <1>3, <2>1, <2>2, <3>3 DEF Solid
  <2>4. CASE graph.node[n].st # "done"
    <3>1. /\ k = graph.node[n].run /\ <<n, k>> \in accepted'
          /\ k > 0 /\ runs[n][k].st # "none"
      BY <1>1, <2>1, <2>4, BoundsAssumption DEF Registered
    <3>2. graph.node[n].st \notin {"absent", "pending"}
      <4>1. /\ graph.node[n].st \in {"pending", "interrupted"} /\ graph.node[n].run > 0
                 => runs[n][graph.node[n].run].st = "none"
        BY <1>0 DEF IInv, RunOK
      <4> QED BY <1>1, <3>1, <4>1
    <3>3. \A d \in graph.deps[n] : graph.node[d].st = "done"
      BY <1>0, <2>1, <3>2 DEF Solid
    <3>4. f.st = "done" /\ graph.opt.worktrees => <<n, f.run>> \in merged'
      <4> SUFFICES ASSUME f.st = "done", graph.opt.worktrees
                   PROVE  <<n, f.run>> \in merged'
        OBVIOUS
      <4>1. graph.node[n].wt
        BY <1>0, <3>1 DEF IInv, RunOK
      <4>2. CanMerge(graph.node[n], n \in C)
        BY <1>6, <2>4
      <4> QED BY <1>2, <1>6, <2>4, <4>1, <4>2 DEF Merges
    <3>5. \A m \in Nodes : \A d \in graph.deps[m] : d \in Nodes
      BY <1>0 DEF Graph
    <3>6. \A m \in Nodes : graph.node[m].st = "done" => graph'.node[m].st = "done"
      BY <1>4, <2>4
    <3> HIDE DEF n, k
    <3>7. f.st = "done" \/ (f.st = "blocked" /\ f.merge /\ f.run > 0)
      BY <1>6, <2>4, <3>1
    <3>8. \A d \in graph.deps[n] : graph'.node[d].st = "done"
      BY <1>0, <3>3, <3>5, <3>6
    <3>9. ASSUME NEW m \in Nodes, m # n
          PROVE  /\ graph'.node[m].st \notin {"absent", "pending"} =>
                       \A d \in graph.deps[m] : graph'.node[d].st = "done"
                 /\ graph'.node[m].st = "done" /\ graph.opt.worktrees
                      => <<m, graph'.node[m].run>> \in merged'
                 /\ graph'.node[m].st = "blocked" /\ graph'.node[m].merge
                      => graph'.node[m].run > 0
                 /\ /\ graph.opt.gate2
                    /\ \/ graph'.node[m].st = "done"
                       \/ graph'.node[m].st = "blocked" /\ graph'.node[m].merge
                    => <<m, graph'.node[m].run>> \in accepted'
      <4>1. graph'.node[m] = graph.node[m]
        BY <1>4, <3>9
      <4> QED BY <2>1, <2>2, <3>5, <3>6, <4>1 DEF Solid
    <3>10. <<n, f.run>> \in accepted'
      BY <1>6, <3>1
    <3> QED BY <1>3, <1>5, <3>4, <3>7, <3>8, <3>9, <3>10 DEF Solid
  <2> QED BY <2>3, <2>4
<1>11. merged \subseteq merged' /\ accepted \subseteq accepted' /\ (foreign => foreign')
  BY <1>1, <1>2
<1> QED BY <1>1, <1>3, <1>7, <1>8, <1>9, <1>10, <1>11, QuietStep

\* resume_graph: interrupted nodes wait again, waiting merges are retried.
LEMMA ResumeStep ==
    ASSUME IInv, TypeOK', ResumeGraph
    PROVE  IInv'
<1>0. /\ graph \in Graph /\ graph.node \in [Nodes -> Node]
      /\ graph.opt.cap \in Nat /\ graph.opt \in OptionType
      /\ \A m \in Nodes : \A d \in graph.deps[m] : d \in Nodes
  BY OptionsAssumption DEF IInv, TypeOK, Graph, OptionType
<1>1. PICK C \in SUBSET MergeWaiting :
         /\ GraphOnly([graph EXCEPT !.status = "running", !.node = Resumed(C)])
         /\ merged' = merged \cup Merges(graph.node, MergeWaiting, C)
  BY DEF ResumeGraph, MergeBranches
<1>2. /\ UNCHANGED <<runs, launches, accepted, foreign>>
      /\ \E m \in Nodes : graph.node[m].st # "absent"
  BY <1>1 DEF ResumeGraph, GraphOnly, InPlan
<1>3. /\ graph'.node = Resumed(C) /\ graph'.opt = graph.opt /\ graph'.deps = graph.deps
      /\ graph'.status = "running" /\ disk' \in {graph', disk, NoGraph}
  BY <1>0, <1>1 DEF GraphOnly, Save, Write, Graph
<1> DEFINE o(m) == graph.node[m]
           q(m) == graph'.node[m]
<1>4. ASSUME NEW m \in Nodes
      PROVE  /\ q(m).run = o(m).run /\ q(m).wt = o(m).wt
             /\ \/ /\ o(m).st = "blocked" /\ o(m).merge
                   /\ \/ q(m).st = "done" /\ (o(m).wt => <<m, o(m).run>> \in merged')
                      \/ q(m).st = "blocked" /\ q(m).merge
                \/ o(m).st = "interrupted" /\ q(m).st = "pending"
                \/ o(m).st # "interrupted" /\ q(m) = o(m)
  <2>1. o(m) \in Node /\ q(m) = Resumed(C)[m]
    BY <1>0, <1>3
  <2>2. CASE m \in MergeWaiting
    <3>1. o(m).st = "blocked" /\ o(m).merge
      BY <2>2 DEF MergeWaiting
    <3>2. q(m) = FinishNode(o(m), m \in C)
      BY <2>1, <2>2 DEF Resumed
    <3>3. CanMerge(o(m), m \in C) /\ o(m).wt => <<m, o(m).run>> \in merged'
      BY <1>1, <2>2, <3>1 DEF Merges
    <3> QED BY <2>1, <3>1, <3>2, <3>3 DEF FinishNode, CanMerge, Node
  <2>3. CASE m \notin MergeWaiting
    BY <2>1, <2>3 DEF Resumed, Node, MergeWaiting
  <2> QED BY <2>2, <2>3
<1> HIDE DEF o, q
<1>5. RunOK(graph', launches', runs')
  BY ZenonT(40), <1>2, <1>3, <1>4 DEF IInv, RunOK, o, q
<1>6. PlanOK(graph')
  <2>1. PICK m \in Nodes : o(m).st # "absent"
    BY <1>2 DEF o
  <2>2. q(m).st # "absent"
    BY <1>4, <2>1
  <2> QED BY <1>3, <2>2 DEF PlanOK, q
<1>7. CapHolds'
  <2>1. In(graph'.node, {"running", "review"}) \subseteq In(graph.node, {"running", "review"})
    BY <1>4 DEF In, o, q
  <2> QED BY <1>0, <1>3, <2>1, CapDown DEF IInv, CapHolds
<1>8. foreign' \/ Solid(graph', merged', accepted')
  <2> SUFFICES ASSUME ~foreign' PROVE Solid(graph', merged', accepted')
    OBVIOUS
  <2>1. Solid(graph, merged, accepted) /\ merged \subseteq merged' /\ accepted' = accepted
    BY <1>1, <1>2 DEF IInv
  <2>2. ASSUME NEW m \in Nodes
        PROVE  q(m).st \notin {"absent", "pending"} =>
                   \A d \in graph.deps[m] : q(d).st = "done"
    <3>1. o(m).st \notin {"absent", "pending"} => \A d \in graph.deps[m] : o(d).st = "done"
      BY <2>1 DEF Solid, o
    <3>2. \A d \in graph.deps[m] : o(d).st = "done" => q(d).st = "done"
      BY <1>0, <1>4
    <3> QED BY <1>4, <3>1, <3>2
  <2>3. ASSUME NEW m \in Nodes
        PROVE  /\ q(m).st = "done" /\ graph.opt.worktrees => <<m, q(m).run>> \in merged'
               /\ q(m).st = "blocked" /\ q(m).merge => q(m).run > 0
               /\ /\ graph.opt.gate2
                  /\ q(m).st = "done" \/ (q(m).st = "blocked" /\ q(m).merge)
                  => <<m, q(m).run>> \in accepted'
    <3>1. /\ o(m).st = "done" /\ graph.opt.worktrees => <<m, o(m).run>> \in merged
          /\ o(m).st = "blocked" /\ o(m).merge => o(m).run > 0
          /\ /\ graph.opt.gate2
             /\ o(m).st = "done" \/ (o(m).st = "blocked" /\ o(m).merge)
             => <<m, o(m).run>> \in accepted
      BY <2>1 DEF Solid, o
    <3>2. o(m).run > 0 => o(m).wt = graph.opt.worktrees
      BY DEF IInv, RunOK, o
    <3> QED BY <1>4, <2>1, <3>1, <3>2
  <2> QED BY <1>3, <2>2, <2>3 DEF Solid, q
<1> QED BY <1>1, <1>2, <1>3, <1>5, <1>6, <1>7, <1>8, QuietStep

\* continue_node: only a node under review runs again.
LEMMA BackStep ==
    ASSUME IInv, TypeOK', NEW n \in Nodes, graph.node[n].st = "review", BackToRunning(n),
           UNCHANGED <<runs, launches, merged, accepted, foreign>>
    PROVE  IInv'
<1>0. /\ graph \in Graph /\ graph.node \in [Nodes -> Node] /\ graph.node[n] \in Node
      /\ graph.opt.cap \in Nat /\ graph'.node \in [Nodes -> Node]
      /\ \A m \in Nodes : \A d \in graph.deps[m] : d \in Nodes
  BY OptionsAssumption DEF IInv, TypeOK, Graph, OptionType
<1>1. /\ graph'.node = [graph.node EXCEPT
             ![n] = [graph.node[n] EXCEPT !.st = "running", !.merge = FALSE]]
      /\ graph'.opt = graph.opt /\ graph'.deps = graph.deps
      /\ graph'.status = graph.status /\ disk' \in {graph', disk, NoGraph}
  BY <1>0 DEF BackToRunning, Save, Write, Graph
<1>2. /\ graph'.node[n].st = "running" /\ graph'.node[n].run = graph.node[n].run
      /\ graph'.node[n].wt = graph.node[n].wt
      /\ \A m \in Nodes : m # n => graph'.node[m] = graph.node[m]
  BY <1>0, <1>1 DEF Node
<1>3. RunOK(graph', launches', runs')
  BY <1>1, <1>2 DEF IInv, RunOK
<1>4. PlanOK(graph')
  BY <1>0, <1>1, <1>2 DEF IInv, PlanOK
<1>5. CapHolds'
  <2>1. In(graph'.node, {"running", "review"}) \subseteq In(graph.node, {"running", "review"})
    BY <1>2 DEF In
  <2> QED BY <1>0, <1>1, <2>1, CapDown DEF IInv, CapHolds
<1>6. foreign' \/ Solid(graph', merged', accepted')
  <2> SUFFICES ASSUME ~foreign' PROVE Solid(graph', merged', accepted')
    OBVIOUS
  <2>1. Solid(graph, merged, accepted)
    BY DEF IInv
  <2>2. \A m \in Nodes : graph.node[m].st = "done" => graph'.node[m] = graph.node[m]
    BY <1>2
  <2> QED BY <1>0, <1>1, <1>2, <2>1, <2>2 DEF Solid
<1> QED BY <1>1, <1>3, <1>4, <1>5, <1>6, QuietStep

\* ensure_loaded: what was saved is good, and nothing of it is busy afterwards.
LEMMA RestartStep ==
    ASSUME IInv, TypeOK', NEW d \in {disk, NoGraph}, RestartFrom(d),
           merged \subseteq merged',
           RunOK(d, launches, runs), PlanOK(d), foreign \/ Solid(d, merged, accepted)
    PROVE  IInv'
<1> DEFINE g == Reconcile(d)
<1>0. /\ d.node \in [Nodes -> Node] /\ d.opt.cap \in Nat
      /\ graph' = g
      /\ UNCHANGED <<launches, accepted, foreign>>
      /\ runs' = [n \in Nodes |-> [k \in 1..MaxLaunch |-> NoRun]]
      /\ \A m \in Nodes : \A e \in d.deps[m] : e \in Nodes
      /\ launches \in [Nodes -> 0..MaxLaunch]
  BY OptionsAssumption, Constants DEF IInv, TypeOK, RestartFrom, Graph, OptionType
<1>1. /\ g.opt = d.opt /\ g.deps = d.deps
      /\ g.status = d.status \/ g.status = "paused"
  BY DEF Reconcile, Graph
<1>2. ASSUME NEW m \in Nodes
      PROVE  \/ /\ d.node[m].st \in {"running", "review"}
                /\ g.node[m].st = "interrupted" /\ g.node[m].run = 0
             \/ /\ d.node[m].st \notin {"running", "review"}
                /\ g.node[m] = d.node[m]
  <2>1. g.node[m] = IF Lost(d.node[m])
                    THEN [d.node[m] EXCEPT !.st = "interrupted", !.run = 0, !.merge = FALSE]
                    ELSE d.node[m]
    BY DEF Reconcile, Graph
  <2>2. d.node[m] \in Node
    BY <1>0
  <2> QED BY <2>1, <2>2 DEF Lost, Node
<1> HIDE DEF g
<1>3. RunOK(g, launches', runs')
  <2>1. \A m \in Nodes : d.node[m].run \in 0..MaxLaunch /\ launches[m] \in Nat
    BY <1>0, BoundsAssumption DEF Node
  <2>2. \A m \in Nodes : d.node[m].run <= launches[m] /\ launches[m] <= MaxLaunch
    BY <1>0 DEF RunOK
  <2>3. \A m \in Nodes : \A k \in 1..MaxLaunch : runs'[m][k].st = "none"
    BY <1>0 DEF NoRun
  <2>4. \A m \in Nodes : d.node[m].run > 0 => runs'[m][d.node[m].run].st = "none"
    BY <2>1, <2>3, BoundsAssumption
  <2> QED BY <1>0, <1>1, <1>2, <2>1, <2>2, <2>4 DEF RunOK
<1>4. PlanOK(g)
  BY <1>0, <1>1, <1>2 DEF PlanOK
<1>5. Cardinality(In(g.node, {"running", "review"})) <= g.opt.cap
  <2>1. In(g.node, {"running", "review"}) = {}
    BY <1>2 DEF In
  <2>2. g.opt.cap \in Nat
    BY <1>0, <1>1
  <2> QED BY <2>1, <2>2, FS_EmptySet
<1>6. foreign \/ Solid(g, merged', accepted)
  BY <1>0, <1>1, <1>2 DEF Solid
<1>7. disk' \in {graph', disk, NoGraph}
  BY DEF RestartFrom, Write
<1>8. /\ \A n \in Nodes : launches[n] <= launches'[n]
      /\ \A n \in Nodes : \A k \in 1..launches[n] :
            runs[n][k].st = "none" => runs'[n][k].st = "none"
  <2>1. \A n \in Nodes : launches[n] \in Nat /\ 1..launches[n] \subseteq 1..MaxLaunch
    BY <1>0, BoundsAssumption
  <2> QED BY <1>0, <2>1 DEF NoRun
<1>9. CapHolds'
  BY <1>0, <1>5 DEF CapHolds
<1> QED BY <1>0, <1>3, <1>4, <1>6, <1>7, <1>8, <1>9, StoredStep

\* sync_node_states keeps the invariant of the registered graph.
LEMMA SyncGood ==
    ASSUME IInv, NEW C \in SUBSET ToFinish,
           NEW g, g = [graph EXCEPT !.node = Synced(C)],
           NEW m2, m2 = merged \cup Merges(graph.node, ToFinish, C)
    PROVE  /\ g \in Graph /\ g.node = Synced(C)
           /\ g.opt = graph.opt /\ g.deps = graph.deps /\ g.status = graph.status
           /\ RunOK(g, launches, runs)
           /\ foreign \/ Solid(g, m2, accepted)
           /\ Cardinality(In(g.node, {"running", "review"})) <= g.opt.cap
           /\ \A n \in Nodes : graph.node[n].st # "absent" => g.node[n].st # "absent"
           /\ \A n \in Nodes : graph.node[n].st = "absent" => g.node[n].st = "absent"
           /\ \A n \in Nodes : graph.node[n].st = "done" => g.node[n].st = "done"
<1>0. /\ graph \in Graph /\ graph.node \in [Nodes -> Node] /\ Synced(C) \in [Nodes -> Node]
      /\ graph.opt.cap \in Nat
      /\ \A m \in Nodes : \A d \in graph.deps[m] : d \in Nodes
  BY OptionsAssumption, SyncedType DEF IInv, TypeOK, Graph, OptionType
<1>1. /\ g.node = Synced(C) /\ g.opt = graph.opt /\ g.deps = graph.deps
      /\ g.status = graph.status /\ g \in Graph
  BY <1>0 DEF Graph
<1> DEFINE o(m) == graph.node[m]
           q(m) == g.node[m]
<1>2. ASSUME NEW m \in Nodes
      PROVE  /\ q(m).run = o(m).run /\ q(m).wt = o(m).wt
             /\ \/ q(m) = o(m)
                \/ /\ o(m).st = "running" /\ q(m).st = "interrupted"
                   /\ o(m).run > 0 => runs[m][o(m).run].st = "none"
                \/ o(m).st = "running" /\ q(m).st = "review"
                \/ o(m).st = "running" /\ q(m).st = "blocked" /\ ~q(m).merge
                \/ /\ o(m).st = "running" /\ ~graph.opt.gate2 /\ o(m).run > 0
                   /\ \/ q(m).st = "done" /\ (o(m).wt => <<m, o(m).run>> \in m2)
                      \/ q(m).st = "blocked"
  <2>1. o(m) \in Node /\ q(m) = Synced(C)[m]
    BY <1>0, <1>1
  <2>2. CASE m \in ToFinish
    <3>1. o(m).st = "running" /\ ~graph.opt.gate2 /\ o(m).run > 0
      BY <2>2, BoundsAssumption DEF ToFinish, Registered
    <3>2. q(m) = FinishNode(o(m), m \in C)
      BY <2>1, <2>2 DEF Synced
    <3>3. CanMerge(o(m), m \in C) /\ o(m).wt => <<m, o(m).run>> \in m2
      <4> SUFFICES ASSUME CanMerge(o(m), m \in C), o(m).wt
                   PROVE  <<m, o(m).run>> \in Merges(graph.node, ToFinish, C)
        OBVIOUS
      <4> DEFINE T == {x \in ToFinish : /\ graph.node[x].st # "done"
                                        /\ graph.node[x].wt
                                        /\ CanMerge(graph.node[x], x \in C)}
      <4>1. m \in T
        BY <2>2, <3>1 DEF CanMerge
      <4>2. Merges(graph.node, ToFinish, C) = {<<x, graph.node[x].run>> : x \in T}
        BY DEF Merges
      <4> HIDE DEF T
      <4> QED BY <4>1, <4>2
    <3>4. PICK nd \in Node : nd = o(m)
      BY <2>1
    <3>5. PICK f : f = q(m)
      OBVIOUS
    <3> HIDE DEF o, q
    <3>6. f = FinishNode(nd, m \in C) /\ nd.st # "done"
      BY <3>1, <3>2, <3>4, <3>5
    <3>7. /\ f.run = nd.run /\ f.wt = nd.wt
          /\ \/ f.st = "done" /\ CanMerge(nd, m \in C)
             \/ f.st = "blocked"
      BY <3>6 DEF FinishNode, CanMerge, Node
    <3>8. nd.wt /\ f.st = "done" => <<m, nd.run>> \in m2
      BY <3>3, <3>4, <3>7
    <3> QED BY <3>1, <3>4, <3>5, <3>7, <3>8
  <2>3. CASE m \notin ToFinish
    <3>1. q(m) = SyncNode(m)
      BY <2>1, <2>3 DEF Synced
    <3>2. o(m).run > 0 /\ ~Registered(m, o(m).run) => runs[m][o(m).run].st = "none"
      BY <2>1, BoundsAssumption DEF Registered, Node
    <3>3. \/ q(m) = o(m)
          \/ o(m).st = "running" /\ ~Registered(m, o(m).run)
             /\ q(m) = [o(m) EXCEPT !.st = "interrupted"]
          \/ o(m).st = "running" /\ q(m) = [o(m) EXCEPT !.st = "review"]
          \/ o(m).st = "running" /\ q(m) = [o(m) EXCEPT !.st = "blocked", !.merge = FALSE]
      BY <3>1, Zenon DEF SyncNode
    <3>4. PICK nd \in Node : nd = o(m)
      BY <2>1
    <3>5. PICK f : f = q(m)
      OBVIOUS
    <3> HIDE DEF o, q
    <3>6. CASE q(m) = o(m)
      BY <3>6
    <3>7. CASE /\ o(m).st = "running" /\ ~Registered(m, o(m).run)
               /\ q(m) = [o(m) EXCEPT !.st = "interrupted"]
      <4>1. f.st = "interrupted" /\ f.run = nd.run /\ f.wt = nd.wt
        BY <3>4, <3>5, <3>7 DEF Node
      <4> QED BY <3>2, <3>4, <3>5, <3>7, <4>1
    <3>8. CASE o(m).st = "running" /\ q(m) = [o(m) EXCEPT !.st = "review"]
      <4>1. f.st = "review" /\ f.run = nd.run /\ f.wt = nd.wt
        BY <3>4, <3>5, <3>8 DEF Node
      <4> QED BY <3>4, <3>5, <3>8, <4>1
    <3>9. CASE /\ o(m).st = "running"
               /\ q(m) = [o(m) EXCEPT !.st = "blocked", !.merge = FALSE]
      <4>1. f.st = "blocked" /\ ~f.merge /\ f.run = nd.run /\ f.wt = nd.wt
        BY <3>4, <3>5, <3>9 DEF Node
      <4> QED BY <3>4, <3>5, <3>9, <4>1
    <3> QED BY <3>3, <3>6, <3>7, <3>8, <3>9
  <2> QED BY <2>2, <2>3
<1> HIDE DEF o, q
<1>3. RunOK(g, launches, runs)
  <2>1. ASSUME NEW m \in Nodes
        PROVE  /\ o(m).run <= launches[m]
               /\ o(m).run > 0 => o(m).wt = graph.opt.worktrees
               /\ o(m).st \in {"pending", "interrupted"} /\ o(m).run > 0
                     => runs[m][o(m).run].st = "none"
    BY DEF IInv, RunOK, o
  <2>2. ASSUME NEW m \in Nodes
        PROVE  /\ q(m).run <= launches[m]
               /\ q(m).run > 0 => q(m).wt = graph.opt.worktrees
               /\ q(m).st \in {"pending", "interrupted"} /\ q(m).run > 0
                     => runs[m][q(m).run].st = "none"
    <3>1. q(m).run = o(m).run /\ q(m).wt = o(m).wt
      BY <1>2
    <3>2. q(m).st \in {"pending", "interrupted"} /\ o(m).run > 0
             => runs[m][o(m).run].st = "none"
      BY <1>2, <2>1
    <3> QED BY <2>1, <3>1, <3>2
  <2> QED BY <1>1, <2>2 DEF RunOK, q
<1>4. Cardinality(In(g.node, {"running", "review"})) <= g.opt.cap
  <2>1. In(g.node, {"running", "review"}) \subseteq In(graph.node, {"running", "review"})
    BY <1>2 DEF In, o, q
  <2> QED BY <1>0, <1>1, <2>1, CapDown DEF IInv, CapHolds
<1>5. foreign \/ Solid(g, m2, accepted)
  <2> SUFFICES ASSUME ~foreign PROVE Solid(g, m2, accepted)
    OBVIOUS
  <2>1. Solid(graph, merged, accepted) /\ merged \subseteq m2
    BY DEF IInv
  <2>2. ASSUME NEW m \in Nodes
        PROVE  q(m).st \notin {"absent", "pending"} =>
                   \A d \in graph.deps[m] : q(d).st = "done"
    <3>1. o(m).st \notin {"absent", "pending"} => \A d \in graph.deps[m] : o(d).st = "done"
      BY <2>1 DEF Solid, o
    <3>2. \A d \in graph.deps[m] : o(d).st = "done" => q(d).st = "done"
      BY <1>0, <1>2
    <3> QED BY <1>2, <3>1, <3>2
  <2>3. ASSUME NEW m \in Nodes
        PROVE  /\ q(m).st = "done" /\ graph.opt.worktrees => <<m, q(m).run>> \in m2
               /\ q(m).st = "blocked" /\ q(m).merge => q(m).run > 0
               /\ /\ graph.opt.gate2
                  /\ q(m).st = "done" \/ (q(m).st = "blocked" /\ q(m).merge)
                  => <<m, q(m).run>> \in accepted
    <3>1. /\ o(m).st = "done" /\ graph.opt.worktrees => <<m, o(m).run>> \in merged
          /\ o(m).st = "blocked" /\ o(m).merge => o(m).run > 0
          /\ /\ graph.opt.gate2
             /\ o(m).st = "done" \/ (o(m).st = "blocked" /\ o(m).merge)
             => <<m, o(m).run>> \in accepted
      BY <2>1 DEF Solid, o
    <3>2. o(m).run > 0 => o(m).wt = graph.opt.worktrees
      BY DEF IInv, RunOK, o
    <3> QED BY <1>2, <2>1, <3>1, <3>2
  <2> QED BY <1>1, <2>2, <2>3 DEF Solid, q
<1> QED BY <1>1, <1>2, <1>3, <1>4, <1>5 DEF o, q

\* Launching uses free slots only, and only for nodes whose dependencies are
\* done.
LEMMA LaunchGood ==
    ASSUME IInv, NEW g \in Graph, g.opt = graph.opt, g.deps = graph.deps,
           NEW L \in SUBSET Nodes, NEW B \in SUBSET Nodes, CanLaunch(g.node, L, B),
           RunOK(g, launches, runs),
           Cardinality(In(g.node, {"running", "review"})) <= g.opt.cap,
           NEW m2, foreign \/ Solid(g, m2, accepted),
           launches' = [n \in Nodes |-> IF n \in L THEN launches[n] + 1 ELSE launches[n]],
           runs' = [n \in Nodes |->
                      IF n \in L
                      THEN [runs[n] EXCEPT ![launches[n] + 1] =
                               [st |-> "live", open |-> TRUE]]
                      ELSE runs[n]],
           NEW s, NEW g2, g2 = [g EXCEPT !.node = Launched(g.node, L, B), !.status = s]
    PROVE  /\ RunOK(g2, launches', runs')
           /\ foreign \/ Solid(g2, m2, accepted)
           /\ Cardinality(In(g2.node, {"running", "review"})) <= g2.opt.cap
<1>0. /\ g.node \in [Nodes -> Node] /\ g.opt.cap \in Nat
      /\ \A m \in Nodes : \A d \in g.deps[m] : d \in Nodes
      /\ launches \in [Nodes -> 0..MaxLaunch]
      /\ \A m \in Nodes : launches[m] \in Nat
  BY OptionsAssumption, BoundsAssumption DEF IInv, TypeOK, Graph, OptionType
<1>1. g2.node = Launched(g.node, L, B) /\ g2.opt = g.opt /\ g2.deps = g.deps
  BY DEF Graph
<1>2. /\ L \subseteq Ready(g.node) /\ B \subseteq Ready(g.node)
      /\ Cardinality(L) <= Slots(g.node)
  BY DEF CanLaunch
<1> DEFINE o(m) == g.node[m]
           q(m) == g2.node[m]
<1>3. ASSUME NEW m \in Nodes
      PROVE  \/ /\ m \in L /\ q(m).st = "running" /\ q(m).run = launches[m] + 1
                /\ q(m).wt = g.opt.worktrees
             \/ /\ m \notin L /\ m \in B /\ q(m).st = "blocked" /\ ~q(m).merge
                /\ q(m).run = o(m).run /\ q(m).wt = o(m).wt
             \/ m \notin L /\ m \notin B /\ q(m) = o(m)
  <2>1. o(m) \in Node /\ q(m) = Launched(g.node, L, B)[m]
    BY <1>0, <1>1
  <2> QED BY <2>1 DEF Launched, Node
<1>4. \A m \in Nodes : m \in L \cup B =>
         o(m).st = "pending" /\ \A d \in g.deps[m] : o(d).st = "done"
  BY <1>2 DEF Ready
<1> HIDE DEF o, q
<1>5. RunOK(g2, launches', runs')
  <2>1. ASSUME NEW m \in Nodes
        PROVE  /\ o(m).run <= launches[m] /\ o(m).run \in Nat
               /\ o(m).run > 0 => o(m).wt = g.opt.worktrees
               /\ o(m).st \in {"pending", "interrupted"} /\ o(m).run > 0
                     => runs[m][o(m).run].st = "none"
    BY <1>0, BoundsAssumption DEF RunOK, Node, o
  <2>2. ASSUME NEW m \in Nodes
        PROVE  /\ q(m).run <= launches'[m]
               /\ q(m).run > 0 => q(m).wt = g.opt.worktrees
               /\ q(m).st \in {"pending", "interrupted"} /\ q(m).run > 0
                     => runs'[m][q(m).run].st = "none"
    <3>1. CASE m \in L
      BY <1>0, <1>3, <3>1
    <3>2. CASE m \notin L
      <4>1. launches'[m] = launches[m] /\ runs'[m] = runs[m]
        BY <3>2
      <4> QED BY <1>3, <2>1, <3>2, <4>1
    <3> QED BY <3>1, <3>2
  <2> QED BY <1>1, <2>2 DEF RunOK, q
<1>6. Cardinality(In(g2.node, {"running", "review"})) <= g2.opt.cap
  <2> DEFINE X == In(g.node, {"running", "review"})
             Y == In(g2.node, {"running", "review"})
  <2>1. Y \subseteq X \cup L
    BY <1>3 DEF In, o, q
  <2>2. IsFiniteSet(X) /\ IsFiniteSet(L)
    BY NodesAssumption, FS_Subset DEF In
  <2> HIDE DEF X, Y
  <2>3. Cardinality(X) \in Nat /\ Cardinality(L) \in Nat
    BY <2>2, FS_CardinalityType
  <2>4. /\ IsFiniteSet(X \cup L) /\ Cardinality(X \cap L) \in Nat
        /\ Cardinality(X \cup L) = Cardinality(X) + Cardinality(L) - Cardinality(X \cap L)
    BY <2>2, FS_Union, FS_Intersection, FS_CardinalityType
  <2>5. Cardinality(Y) <= Cardinality(X \cup L) /\ Cardinality(Y) \in Nat
    BY <2>1, <2>4, FS_Subset, FS_CardinalityType
  <2>6. Cardinality(L) <= IF Cardinality(X) < g.opt.cap THEN g.opt.cap - Cardinality(X) ELSE 0
    BY <1>2 DEF Slots, Busy, X
  <2>7. Cardinality(X) <= g.opt.cap
    BY DEF X
  <2>8. Cardinality(Y) <= g.opt.cap
    BY <1>0, <2>3, <2>4, <2>5, <2>6, <2>7
  <2> QED BY <1>1, <2>8 DEF Y
<1>7. foreign \/ Solid(g2, m2, accepted)
  <2> SUFFICES ASSUME ~foreign PROVE Solid(g2, m2, accepted)
    OBVIOUS
  <2>1. \A m \in Nodes : o(m).st = "done" => q(m) = o(m)
    BY <1>3, <1>4
  <2>2. ASSUME NEW m \in Nodes
        PROVE  q(m).st \notin {"absent", "pending"} =>
                   \A d \in g.deps[m] : q(d).st = "done"
    <3>1. o(m).st \notin {"absent", "pending"} => \A d \in g.deps[m] : o(d).st = "done"
      BY DEF Solid, o
    <3> QED BY <1>0, <1>3, <1>4, <2>1, <3>1
  <2>3. ASSUME NEW m \in Nodes
        PROVE  /\ q(m).st = "done" /\ g.opt.worktrees => <<m, q(m).run>> \in m2
               /\ q(m).st = "blocked" /\ q(m).merge => q(m).run > 0
               /\ /\ g.opt.gate2
                  /\ q(m).st = "done" \/ (q(m).st = "blocked" /\ q(m).merge)
                  => <<m, q(m).run>> \in accepted
    <3>1. /\ o(m).st = "done" /\ g.opt.worktrees => <<m, o(m).run>> \in m2
          /\ o(m).st = "blocked" /\ o(m).merge => o(m).run > 0
          /\ /\ g.opt.gate2
             /\ o(m).st = "done" \/ (o(m).st = "blocked" /\ o(m).merge)
             => <<m, o(m).run>> \in accepted
      BY DEF Solid, o
    <3> QED BY <1>3, <3>1
  <2> QED BY <1>1, <2>2, <2>3 DEF Solid, q
<1> QED BY <1>5, <1>6, <1>7

\* The three outcomes of a scheduler tick.
LEMMA TickCompleteStep ==
    ASSUME IInv, TypeOK', TickComplete
    PROVE  IInv'
<1>1. PICK C \in SUBSET ToFinish :
         /\ AllDone(Synced(C))
         /\ SaveIfChanged([graph EXCEPT !.status = "complete", !.node = Synced(C)])
         /\ merged' = merged \cup Merges(graph.node, ToFinish, C)
  BY DEF TickComplete, MergeBranches
<1>2. /\ graph.status = "running" /\ UNCHANGED <<runs, launches, accepted, foreign>>
      /\ graph \in Graph /\ disk \in Graph
  BY DEF TickComplete, IInv, TypeOK
<1> DEFINE g == [graph EXCEPT !.node = Synced(C)]
<1>3. /\ g \in Graph /\ g.node = Synced(C)
      /\ g.opt = graph.opt /\ g.deps = graph.deps /\ g.status = graph.status
      /\ RunOK(g, launches, runs)
      /\ foreign \/ Solid(g, merged', accepted)
      /\ Cardinality(In(g.node, {"running", "review"})) <= g.opt.cap
      /\ \A n \in Nodes : graph.node[n].st # "absent" => g.node[n].st # "absent"
      /\ \A n \in Nodes : graph.node[n].st = "absent" => g.node[n].st = "absent"
  BY <1>1, SyncGood
<1>4. graph'.node = g.node /\ graph'.opt = g.opt /\ graph'.deps = g.deps
      /\ graph'.status = "complete"
  BY <1>1, <1>2, <1>3 DEF SaveIfChanged, Graph
<1>5. disk' \in {graph', disk, NoGraph}
  BY <1>1 DEF SaveIfChanged, Write
<1> HIDE DEF g
<1>6. RunOK(graph', launches', runs') /\ CapHolds'
      /\ (foreign' \/ Solid(graph', merged', accepted'))
  BY <1>2, <1>3, <1>4 DEF RunOK, Solid, CapHolds
<1>7. PlanOK(graph')
  <2>1. \E n \in Nodes : graph.node[n].st # "absent"
    BY <1>2 DEF IInv, PlanOK
  <2>2. \A n \in Nodes : g.node[n].st \in {"absent", "done"}
    BY <1>1, <1>3 DEF AllDone, InPlan
  <2> QED BY <1>3, <1>4, <2>1, <2>2 DEF PlanOK
<1> QED BY <1>1, <1>2, <1>5, <1>6, <1>7, QuietStep

LEMMA TickLaunchStep ==
    ASSUME IInv, TypeOK', TickLaunch
    PROVE  IInv'
<1> DEFINE S(N2) == IF Stalled(N2) THEN "paused" ELSE "running"
<1>1. PICK C \in SUBSET ToFinish, L \in SUBSET Nodes, B \in SUBSET Nodes :
         /\ CanLaunch(Synced(C), L, B)
         /\ SaveIfChanged([graph EXCEPT !.node = Launched(Synced(C), L, B),
                                        !.status = S(Launched(Synced(C), L, B))])
         /\ merged' = merged \cup Merges(graph.node, ToFinish, C)
         /\ launches' = [n \in Nodes |-> IF n \in L THEN launches[n] + 1
                                                   ELSE launches[n]]
         /\ runs' = [n \in Nodes |->
                       IF n \in L
                       THEN [runs[n] EXCEPT ![launches[n] + 1] =
                                [st |-> "live", open |-> TRUE]]
                       ELSE runs[n]]
  BY DEF TickLaunch, MergeBranches
<1>2. /\ graph.status = "running" /\ UNCHANGED <<accepted, foreign>>
      /\ graph \in Graph /\ disk \in Graph
  BY DEF TickLaunch, IInv, TypeOK
<1> DEFINE g  == [graph EXCEPT !.node = Synced(C)]
           s  == S(Launched(Synced(C), L, B))
           g2 == [g EXCEPT !.node = Launched(g.node, L, B), !.status = s]
<1>3. /\ g \in Graph /\ g.node = Synced(C)
      /\ g.opt = graph.opt /\ g.deps = graph.deps /\ g.status = graph.status
      /\ RunOK(g, launches, runs)
      /\ foreign \/ Solid(g, merged', accepted)
      /\ Cardinality(In(g.node, {"running", "review"})) <= g.opt.cap
      /\ \A n \in Nodes : graph.node[n].st # "absent" => g.node[n].st # "absent"
  BY <1>1, SyncGood
<1>4. graph' = g2
  <2>1. graph' = [graph EXCEPT !.node = Launched(Synced(C), L, B), !.status = s]
    BY <1>1 DEF SaveIfChanged
  <2>2. g2 = [g EXCEPT !.node = Launched(Synced(C), L, B), !.status = s]
    BY <1>3
  <2> HIDE DEF s
  <2> QED BY <1>2, <2>1, <2>2 DEF Graph
<1>5. disk' \in {graph', disk, NoGraph}
  BY <1>1 DEF SaveIfChanged, Write
<1>6. s \in {"paused", "running"}
  OBVIOUS
<1>7. CanLaunch(g.node, L, B)
  BY <1>1, <1>3
<1> HIDE DEF g, s
<1>8. /\ RunOK(g2, launches', runs')
      /\ foreign \/ Solid(g2, merged', accepted)
      /\ Cardinality(In(g2.node, {"running", "review"})) <= g2.opt.cap
  BY <1>1, <1>3, <1>7, LaunchGood
<1>9. g2.status = s /\ g2.node = Launched(g.node, L, B)
  BY <1>3 DEF Graph
<1> HIDE DEF g2
<1>10. PlanOK(graph')
  <2>1. PICK n \in Nodes : graph.node[n].st # "absent"
    BY <1>2 DEF IInv, PlanOK
  <2>2. g.node[n].st # "absent" /\ g.node[n] \in Node
    BY <1>3, <2>1 DEF Graph
  <2>3. Launched(g.node, L, B)[n].st # "absent"
    BY <2>2 DEF Launched, Node
  <2> QED BY <1>4, <1>6, <1>9, <2>3 DEF PlanOK
<1>11. merged \subseteq merged' /\ accepted \subseteq accepted'
  BY <1>1, <1>2
<1>12. /\ \A n \in Nodes : launches[n] <= launches'[n]
       /\ \A n \in Nodes : \A k \in 1..launches[n] :
             runs[n][k].st = "none" => runs'[n][k].st = "none"
  <2>1. launches \in [Nodes -> 0..MaxLaunch] /\ \A n \in Nodes : launches[n] \in Nat
    BY BoundsAssumption DEF IInv, TypeOK
  <2>2. \A n \in Nodes : launches[n] <= launches'[n]
    BY <1>1, <2>1
  <2>3. \A n \in Nodes : \A k \in 1..launches[n] : runs'[n][k] = runs[n][k]
    BY <1>1, <2>1
  <2> QED BY <2>2, <2>3
<1>13. CapHolds' /\ RunOK(graph', launches', runs')
       /\ (foreign' \/ Solid(graph', merged', accepted'))
  BY <1>2, <1>4, <1>8 DEF CapHolds
<1> QED BY <1>2, <1>5, <1>10, <1>11, <1>12, <1>13, StoredStep

LEMMA TickStep ==
    ASSUME IInv, TypeOK', Tick
    PROVE  IInv'
<1>0. /\ graph \in Graph /\ disk \in Graph /\ launches \in [Nodes -> Nat]
  BY BoundsAssumption DEF IInv, TypeOK
<1>1. CASE TickProposing
  <2>1. UNCHANGED <<runs, launches, merged>>
    BY <1>1 DEF TickProposing
  <2>2. CASE SaveIfChanged([graph EXCEPT !.status = "proposed"])
             /\ UNCHANGED <<accepted, foreign>>
    BY <2>1, <2>2, StatusStep DEF SaveIfChanged, Write
  <2>3. ASSUME NEW p \in Plans, SaveIfChanged(Adopt(graph, p)), NewPlan, UNCHANGED accepted
        PROVE  IInv'
    <3>1. graph' = Adopt(graph, p) /\ disk' \in {graph', disk, NoGraph}
      BY <2>3 DEF SaveIfChanged, Write
    <3> QED BY <2>1, <2>3, <3>1, AdoptStep
  <2> QED BY <1>1, <2>2, <2>3 DEF TickProposing
<1>2. CASE TickComplete
  BY <1>2, TickCompleteStep
<1>3. CASE TickLaunch
  BY <1>3, TickLaunchStep
<1>4. CASE TickIdle
  BY <1>4 DEF TickIdle, IInv, CapHolds
<1> QED BY <1>1, <1>2, <1>3, <1>4 DEF Tick

\* A verdict on a registered run registers no other.
LEMMA VerdictStep ==
    ASSUME IInv, TypeOK', NEW n \in Nodes, NEW k \in 1..MaxLaunch, NEW st,
           Registered(n, k), SetRun(n, k, st),
           UNCHANGED <<graph, disk, launches, merged, accepted, foreign>>
    PROVE  IInv'
<1>1. runs \in [Nodes -> [1..MaxLaunch -> Run]] /\ runs[n][k].st # "none"
  BY DEF IInv, TypeOK, Registered
<1>2. \A m \in Nodes : \A j \in 1..MaxLaunch :
         runs[m][j].st = "none" => runs'[m][j].st = "none"
  <2> TAKE m \in Nodes
  <2> TAKE j \in 1..MaxLaunch
  <2>1. CASE m = n /\ j = k
    BY <1>1, <2>1
  <2>2. CASE ~(m = n /\ j = k)
    BY <1>1, <2>2 DEF SetRun
  <2> QED BY <2>1, <2>2
<1> QED BY <1>2, EnvStep

LEMMA SafeHandler ==
    ASSUME IInv, TypeOK', NEW h \in Handlers,
           \/ CreateCheck(h) \/ CreateFail(h) \/ CreateInsert(h)
           \/ \E opt \in Options : CreateSave(h, opt)
           \/ StopGraph(h) \/ StopRuns(h)
           \/ AcceptNode(h) \/ ContinueNode(h) \/ NodeCallIsMoot(h)
           \/ \E n \in Nodes, k \in 1..MaxLaunch : GoalAccept(h, n, k) \/ GoalContinue(h, n, k)
    PROVE  IInv'
<1>0. /\ launches \in [Nodes -> Nat] /\ call[h].opt \in Options /\ call[h].n \in Nodes
      /\ runs \in [Nodes -> [1..MaxLaunch -> Run]]
  BY BoundsAssumption DEF IInv, TypeOK, Call
<1>1. CASE CreateCheck(h)
  <2>1. graph' = NoGraph /\ UNCHANGED <<disk, runs, launches, merged, accepted, foreign>>
    BY <1>1 DEF CreateCheck
  <2> QED BY <1>0, <2>1, NewGraphGood, OptionsAssumption DEF IInv, CapHolds
<1>2. CASE CreateFail(h) \/ NodeCallIsMoot(h)
  BY <1>2, EnvStep DEF CreateFail, NodeCallIsMoot
<1>3. CASE CreateInsert(h)
  <2>1. /\ graph' = NewGraph(call[h].opt)
        /\ UNCHANGED <<disk, runs, launches, merged, accepted, foreign>>
    BY <1>3 DEF CreateInsert
  <2> QED BY <1>0, <2>1, NewGraphGood DEF IInv, CapHolds
<1>4. ASSUME NEW opt \in Options, CreateSave(h, opt) PROVE IInv'
  <2>1. /\ UNCHANGED <<graph, runs, launches, merged, accepted, foreign>>
        /\ disk' \in {NewGraph(opt), disk, NoGraph}
    BY <1>4 DEF CreateSave, Write
  <2>2. /\ RunOK(disk', launches, runs) /\ PlanOK(disk')
        /\ foreign \/ Solid(disk', merged, accepted)
    BY <1>0, <2>1, NewGraphGood DEF IInv
  <2> QED BY <2>1, <2>2 DEF IInv, CapHolds
<1>5. CASE StopGraph(h)
  BY <1>5, StatusStep DEF StopGraph, Save, Write
<1>6. CASE StopRuns(h)
  <2>1. \A n \in Nodes : \A k \in 1..MaxLaunch :
           runs[n][k].st = "none" => runs'[n][k].st = "none"
    BY <1>6 DEF StopRuns
  <2> QED BY <1>6, <2>1, EnvStep DEF StopRuns
<1>7. CASE AcceptNode(h)
  BY <1>7, AcceptStep
<1>8. CASE ContinueNode(h)
  BY <1>0, <1>8, BackStep DEF ContinueNode
<1>9. ASSUME NEW n \in Nodes, NEW k \in 1..MaxLaunch, GoalAccept(h, n, k) \/ GoalContinue(h, n, k)
      PROVE  IInv'
  BY <1>9, VerdictStep DEF GoalAccept, GoalContinue
<1> QED BY <1>1, <1>2, <1>3, <1>4, <1>5, <1>6, <1>7, <1>8, <1>9

LEMMA SafeWorld ==
    ASSUME IInv, TypeOK', Purge \/ UserTouchesCheckout \/ Restart \/ CrashInSave
    PROVE  IInv'
<1>0. disk \in Graph /\ launches \in [Nodes -> Nat] /\ NoGraph \in Graph
  BY BoundsAssumption, Constants DEF IInv, TypeOK
<1>1. CASE Purge
  <2>1. \A n \in Nodes : \A k \in 1..MaxLaunch :
           runs[n][k].st = "none" => runs'[n][k].st = "none"
    BY <1>1 DEF Purge, NoRun
  <2> QED BY <1>1, <2>1, EnvStep DEF Purge
<1>2. CASE UserTouchesCheckout
  BY <1>2, EnvStep DEF UserTouchesCheckout
<1>3. CASE Restart
  BY <1>0, <1>3, RestartStep DEF Restart, IInv
<1>4. CASE CrashInSave
  <2>1. /\ RunOK(NoGraph, launches, runs) /\ PlanOK(NoGraph)
        /\ Solid(NoGraph, merged, accepted)
    BY <1>0, NewGraphGood, OptionsAssumption
  <2> QED BY <1>0, <1>4, <2>1, RestartStep DEF CrashInSave
<1> QED BY <1>1, <1>2, <1>3, <1>4

LEMMA SafeRequests ==
    ASSUME IInv, TypeOK',
           (\E p \in Plans : ApproveGraph(p)) \/ ReviseGraph \/ PauseGraph \/ ResumeGraph
    PROVE  IInv'
<1>0. graph \in Graph /\ launches \in [Nodes -> Nat]
  BY BoundsAssumption DEF IInv, TypeOK
<1>1. ASSUME NEW p \in Plans, ApproveGraph(p) PROVE IInv'
  <2>1. /\ graph' = Adopt(graph, p) /\ disk' \in {graph', disk, NoGraph}
        /\ NewPlan /\ UNCHANGED <<runs, launches, merged, accepted>>
    BY <1>1 DEF ApproveGraph, GraphOnly, Save, Write
  <2> QED BY <2>1, AdoptStep
<1>2. CASE ReviseGraph \/ PauseGraph
  BY <1>2, StatusStep DEF ReviseGraph, PauseGraph, GraphOnly, Save, Write
<1>3. CASE ResumeGraph
  BY <1>3, ResumeStep
<1> QED BY <1>1, <1>2, <1>3

LEMMA SafeNode ==
    ASSUME IInv, TypeOK', NEW n \in Nodes, PanelContinue(n)
    PROVE  IInv'
BY BackStep DEF PanelContinue

LEMMA SafeCrash ==
    ASSUME IInv, TypeOK', NEW S \in SUBSET Nodes, CrashAfterMerge(S)
    PROVE  IInv'
<1>1. RestartFrom(disk) /\ merged \subseteq merged'
  BY DEF CrashAfterMerge, MergeBranches
<1> QED BY <1>1, RestartStep DEF IInv

LEMMA SafeRun ==
    ASSUME IInv, TypeOK', NEW n \in Nodes, NEW k \in 1..MaxLaunch,
           \/ \E st \in {"done", "blocked"} : RunSettles(n, k, st)
           \/ GoalComplete(n, k) \/ GoalStop(n, k) \/ CloseWorkspace(n, k)
    PROVE  IInv'
<1>1. ASSUME NEW st \in {"done", "blocked"}, RunSettles(n, k, st) PROVE IInv'
  BY <1>1, VerdictStep DEF RunSettles
<1>2. CASE GoalComplete(n, k) \/ GoalStop(n, k)
  BY <1>2, VerdictStep DEF GoalComplete, GoalStop
<1>3. CASE CloseWorkspace(n, k)
  <2>1. runs \in [Nodes -> [1..MaxLaunch -> Run]]
    BY DEF IInv, TypeOK
  <2>2. runs' = [runs EXCEPT ![n] = [runs[n] EXCEPT ![k] = [runs[n][k] EXCEPT !.open = FALSE]]]
    BY <1>3 DEF CloseWorkspace
  <2>3. runs[n][k] \in Run
    BY <2>1
  <2>4. [runs[n][k] EXCEPT !.open = FALSE].st = runs[n][k].st
    BY <2>3 DEF Run
  <2>5. \A m \in Nodes : \A j \in 1..MaxLaunch : runs'[m][j].st = runs[m][j].st
    BY <2>1, <2>2, <2>4
  <2> QED BY <1>3, <2>5, EnvStep DEF CloseWorkspace
<1> QED BY <1>1, <1>2, <1>3

\* The inductive invariant holds in every reachable state.
THEOREM Inductive == Spec => []IInv
<1>1. Init => IInv
  <2> SUFFICES ASSUME Init PROVE IInv
    OBVIOUS
  <2>1. 0 \in 0..MaxLaunch /\ 0 \in 0..MaxCalls /\ 0 \in Nat
    BY BoundsAssumption
  <2>2. TypeOK
    BY <2>1, Constants DEF Init, TypeOK
  <2>3. launches \in [Nodes -> Nat] /\ graph = NoGraph /\ disk = NoGraph
    BY <2>1 DEF Init
  <2> QED BY <2>2, <2>3, NewGraphGood, OptionsAssumption DEF IInv, CapHolds
<1>2. IInv /\ [Next]_vars => IInv'
  <2> SUFFICES ASSUME IInv, [Next]_vars PROVE IInv'
    OBVIOUS
  <2>1. TypeOK
    BY DEF IInv
  <2>2. CASE Next
    <3>1. TypeOK'
      BY <2>1, <2>2, TypeTick, TypeGraphRequests, TypeHandler, TypeWorld, TypeNode, TypeCrash, TypeRun
         DEF Next
    <3> QED BY <2>2, <3>1, TickStep, SafeHandler, SafeWorld, SafeRequests, SafeNode, SafeCrash,
               SafeRun
            DEF Next
  <2>3. CASE UNCHANGED vars
    BY <2>3 DEF vars, IInv, TypeOK, CapHolds
  <2> QED BY <2>2, <2>3
<1> QED BY <1>1, <1>2, PTL DEF Spec

\* Never more busy nodes than max_concurrency.
THEOREM CapIsKept == Spec => []CapHolds
<1>1. IInv => CapHolds
  BY DEF IInv
<1> QED BY <1>1, Inductive, PTL

\* With iteration review, nothing is finished without a human's verdict.
THEOREM ReviewIsNeverSkipped == Spec => []ReviewGate
<1>1. IInv => ReviewGate
  BY DEF IInv, ReviewGate, Solid
<1> QED BY <1>1, Inductive, PTL

\* Dependencies are done, and merged, before a node starts.
THEOREM DependenciesComeFirst == Spec => []DependentsSeeMergedBranches
<1>1. IInv => DependentsSeeMergedBranches
  <2> SUFFICES ASSUME IInv, ~foreign, NEW n \in Started, NEW d \in graph.deps[n]
               PROVE  /\ graph.node[d].st = "done"
                      /\ graph.opt.worktrees => <<d, graph.node[d].run>> \in merged
    BY DEF DependentsSeeMergedBranches
  <2>1. n \in Nodes /\ d \in Nodes /\ graph.node[n].st \notin {"absent", "pending"}
    BY DEF Started, In, IInv, TypeOK, Graph
  <2> QED BY <2>1 DEF IInv, Solid
<1> QED BY <1>1, Inductive, PTL

\* A complete graph is done and merged.
THEOREM CompleteGraphsAreMerged == Spec => []CompleteMeansMerged
<1>1. IInv => CompleteMeansMerged
  BY DEF IInv, CompleteMeansMerged, PlanOK, Solid, InPlan
<1> QED BY <1>1, Inductive, PTL

\* No graph runs without a plan.
THEOREM RunningGraphsHaveNodes == Spec => []RunningHasNodes
<1>1. IInv => RunningHasNodes
  BY DEF IInv, RunningHasNodes, PlanOK, InPlan
<1> QED BY <1>1, Inductive, PTL

-----------------------------------------------------------------------------
(* Finished work is final.                                                  *)

\* Until its plan is adopted a graph has no nodes.
Unplanned(g) ==
    g.status \in {"none", "proposing", "proposed"} =>
        \A n \in Nodes : g.node[n].st = "absent"

Doing == {"none", "proposing"}

\* What is done is saved as done, unless the last write failed or the file is
\* already the next graph's.
DoneSaved ==
    unsaved \/ \A n \in Nodes :
                  graph.node[n].st = "done" =>
                      disk.node[n].st = "done" \/ disk.status \in Doing

FInv == Unplanned(graph) /\ Unplanned(disk) /\ DoneSaved

\* No step takes a done node back, but a restart after a failed write.
DoneStays ==
    \A n \in Nodes :
       graph.node[n].st = "done" =>
           \/ graph'.node[n].st = "done"
           \/ graph'.status \in Doing
           \/ unsaved /\ graph' = Reconcile(disk)

LEMMA NoNodesYet ==
    ASSUME NEW opt, NEW g, g = NewGraph(opt) \/ g = NoGraph
    PROVE  /\ \A n \in Nodes : g.node[n].st = "absent"
           /\ g.status \in Doing
<1>1. CASE g = NewGraph(opt)
  BY <1>1 DEF NewGraph, AbsentNode, Doing
<1>2. CASE g = NoGraph
  <2>1. PICK o : g = [NewGraph(o) EXCEPT !.status = "none"]
    BY <1>2 DEF NoGraph
  <2> QED BY <2>1 DEF NewGraph, AbsentNode, Doing
<1> QED BY <1>1, <1>2

\* A graph is written, or is as it was.
Put(g) == Write(g, disk) \/ (g = graph /\ UNCHANGED <<disk, unsaved>>)

LEMMA SavedStep ==
    ASSUME FInv, NEW g, Unplanned(g), graph' = g, Put(g)
    PROVE  FInv'
<1>1. Unplanned(NoGraph)
  BY NoNodesYet DEF Unplanned
<1>2. CASE disk' = g /\ unsaved' = FALSE
  BY <1>2 DEF FInv, Unplanned, DoneSaved
<1>3. CASE disk' \in {disk, NoGraph} /\ unsaved' = TRUE
  BY <1>1, <1>3 DEF FInv, Unplanned, DoneSaved
<1>4. CASE g = graph /\ UNCHANGED <<disk, unsaved>>
  BY <1>4 DEF FInv, Unplanned, DoneSaved
<1> QED BY <1>2, <1>3, <1>4 DEF Put, Write

\* A saved graph with its done nodes still done, and a plan.
LEMMA KeptStep ==
    ASSUME FInv, NEW g, graph' = g, Put(g),
           g.status \notin {"none", "proposing", "proposed"},
           \A n \in Nodes : graph.node[n].st = "done" => g.node[n].st = "done"
    PROVE  FInv' /\ DoneStays
<1>1. Unplanned(g)
  BY DEF Unplanned
<1> QED BY <1>1, SavedStep DEF DoneStays

LEMMA TickKeepsDone ==
    ASSUME IInv, FInv, Tick
    PROVE  FInv' /\ DoneStays
<1>1. /\ graph \in Graph /\ graph.node \in [Nodes -> Node] /\ TypeOK
  BY DEF IInv, TypeOK, Graph
<1>2. CASE TickProposing
  <2>1. \A n \in Nodes : graph.node[n].st = "absent"
    BY <1>2 DEF TickProposing, FInv, Unplanned
  <2>2. DoneStays
    BY <2>1 DEF DoneStays
  <2>3. CASE SaveIfChanged([graph EXCEPT !.status = "proposed"])
    <3> DEFINE g == [graph EXCEPT !.status = "proposed"]
    <3>1. g.node = graph.node
      BY <1>1 DEF Graph
    <3>2. Unplanned(g)
      BY <2>1, <3>1 DEF Unplanned
    <3>3. graph' = g /\ Put(g)
      BY <2>3 DEF SaveIfChanged, Put
    <3> HIDE DEF g
    <3> QED BY <2>2, <3>2, <3>3, SavedStep
  <2>4. CASE \E p \in Plans : SaveIfChanged(Adopt(graph, p))
    <3>1. PICK p \in Plans : SaveIfChanged(Adopt(graph, p))
      BY <2>4
    <3> DEFINE g == Adopt(graph, p)
    <3>2. g.status = "running"
      BY <1>1 DEF Adopt, Graph
    <3>3. graph' = g /\ Put(g)
      BY <3>1 DEF SaveIfChanged, Put
    <3> HIDE DEF g
    <3> QED BY <2>2, <3>2, <3>3, SavedStep DEF Unplanned
  <2> QED BY <1>2, <2>3, <2>4 DEF TickProposing
<1>3. \A C : \A n \in Nodes : graph.node[n].st = "done" => Synced(C)[n].st = "done"
  BY DEF Synced, ToFinish, SyncNode
<1>4. CASE TickComplete
  <2>1. PICK C \in SUBSET ToFinish :
          SaveIfChanged([graph EXCEPT !.status = "complete", !.node = Synced(C)])
    BY <1>4 DEF TickComplete
  <2> DEFINE N == Synced(C)
             g == [graph EXCEPT !.status = "complete", !.node = N]
  <2>2. g.status = "complete" /\ g.node = N
    <3> HIDE DEF N
    <3> QED BY <1>1 DEF Graph
  <2>3. graph' = g /\ Put(g)
    BY <2>1 DEF SaveIfChanged, Put
  <2>4. \A n \in Nodes : graph.node[n].st = "done" => N[n].st = "done"
    BY <1>3
  <2> HIDE DEF g, N
  <2> QED BY <2>2, <2>3, <2>4, KeptStep
<1>5. CASE TickLaunch
  <2>1. PICK C \in SUBSET ToFinish, L \in SUBSET Nodes, B \in SUBSET Nodes :
          /\ CanLaunch(Synced(C), L, B)
          /\ SaveIfChanged([graph EXCEPT
                !.node = Launched(Synced(C), L, B),
                !.status = IF Stalled(Launched(Synced(C), L, B)) THEN "paused" ELSE "running"])
    BY <1>5 DEF TickLaunch
  <2> DEFINE N == Launched(Synced(C), L, B)
             s == IF Stalled(N) THEN "paused" ELSE "running"
             g == [graph EXCEPT !.node = N, !.status = s]
  <2>2. \A n \in Nodes : graph.node[n].st = "done" => N[n].st = "done"
    <3> SUFFICES ASSUME NEW n \in Nodes, graph.node[n].st = "done" PROVE N[n].st = "done"
      OBVIOUS
    <3>1. Synced(C)[n].st = "done"
      BY <1>3
    <3>2. n \notin L /\ n \notin B
      BY <2>1, <3>1 DEF CanLaunch, Ready
    <3> QED BY <3>1, <3>2 DEF Launched
  <2>3. s \in {"paused", "running"}
    OBVIOUS
  <2>4. graph' = g /\ Put(g)
    BY <2>1 DEF SaveIfChanged, Put
  <2> HIDE DEF N, s
  <2>5. g.status = s /\ g.node = N
    BY <1>1 DEF Graph
  <2> HIDE DEF g
  <2> QED BY <2>2, <2>3, <2>4, <2>5, KeptStep
<1>6. CASE TickIdle
  BY <1>6 DEF TickIdle, FInv, Unplanned, DoneSaved, DoneStays
<1> QED BY <1>2, <1>4, <1>5, <1>6 DEF Tick

LEMMA RequestKeepsDone ==
    ASSUME IInv, FInv,
           (\E p \in Plans : ApproveGraph(p)) \/ ReviseGraph \/ PauseGraph \/ ResumeGraph
    PROVE  FInv' /\ DoneStays
<1>1. /\ graph \in Graph /\ graph.node \in [Nodes -> Node] /\ TypeOK
  BY DEF IInv, TypeOK, Graph
<1>2. ASSUME NEW p \in Plans, ApproveGraph(p) PROVE FInv' /\ DoneStays
  <2> DEFINE g == Adopt(graph, p)
  <2>1. graph' = g /\ Put(g)
    BY <1>2 DEF ApproveGraph, GraphOnly, Save, Put
  <2>2. g.status = "running"
    BY <1>1 DEF Adopt, Graph
  <2>3. \A n \in Nodes : graph.node[n].st = "absent"
    BY <1>2 DEF ApproveGraph, CanApprove, FInv, Unplanned
  <2> HIDE DEF g
  <2> QED BY <2>1, <2>2, <2>3, KeptStep
<1>3. CASE ReviseGraph
  <2> DEFINE g == [graph EXCEPT !.status = "proposing"]
  <2>1. graph' = g /\ Put(g)
    BY <1>3 DEF ReviseGraph, GraphOnly, Save, Put
  <2>2. \A n \in Nodes : graph.node[n].st = "absent"
    BY <1>3 DEF ReviseGraph, FInv, Unplanned
  <2>3. g.node = graph.node
    BY <1>1 DEF Graph
  <2> HIDE DEF g
  <2> QED BY <2>1, <2>2, <2>3, SavedStep DEF Unplanned, DoneStays
<1>4. CASE PauseGraph
  <2> DEFINE g == [graph EXCEPT !.status = "paused"]
  <2>1. graph' = g /\ Put(g)
    BY <1>4 DEF PauseGraph, GraphOnly, Save, Put
  <2>2. g.node = graph.node /\ g.status = "paused"
    BY <1>1 DEF Graph
  <2> HIDE DEF g
  <2> QED BY <2>1, <2>2, KeptStep
<1>5. CASE ResumeGraph
  <2>1. PICK C \in SUBSET MergeWaiting :
          GraphOnly([graph EXCEPT !.status = "running", !.node = Resumed(C)])
    BY <1>5 DEF ResumeGraph
  <2> DEFINE N == Resumed(C)
             g == [graph EXCEPT !.status = "running", !.node = N]
  <2>2. graph' = g /\ Put(g)
    BY <2>1 DEF GraphOnly, Save, Put
  <2>3. \A n \in Nodes : graph.node[n].st = "done" => N[n].st = "done"
    BY DEF Resumed, MergeWaiting
  <2> HIDE DEF N
  <2>4. g.node = N /\ g.status = "running"
    BY <1>1 DEF Graph
  <2> HIDE DEF g
  <2> QED BY <2>2, <2>3, <2>4, KeptStep
<1> QED BY <1>2, <1>3, <1>4, <1>5

\* One node of the graph written and saved.
LEMMA NodeWritten ==
    ASSUME IInv, FInv, NEW n \in Nodes, NEW nd, Save([graph EXCEPT !.node[n] = nd]),
           graph.node[n].st = "done" => nd.st = "done",
           graph.node[n].st # "absent"
    PROVE  FInv' /\ DoneStays
<1> DEFINE N == [graph.node EXCEPT ![n] = nd]
           g == [graph EXCEPT !.node = N]
<1>1. /\ graph \in Graph /\ graph.node \in [Nodes -> Node]
  BY DEF IInv, TypeOK, Graph
<1>2. graph' = g /\ Put(g)
  BY DEF Save, Put
<1>3. \A m \in Nodes : graph.node[m].st = "done" => N[m].st = "done"
  BY <1>1
<1> HIDE DEF N
<1>4. g.node = N /\ g.status = graph.status
  BY <1>1 DEF Graph
<1>5. graph.status \notin {"none", "proposing", "proposed"}
  BY DEF FInv, Unplanned
<1> HIDE DEF g
<1> QED BY <1>2, <1>3, <1>4, <1>5, KeptStep

\* A restart goes back to what was saved.
LEMMA RestartKeepsDone ==
    ASSUME IInv, FInv, NEW d, d = disk \/ d = NoGraph, RestartFrom(d)
    PROVE  FInv' /\ DoneStays
<1>1. disk \in Graph /\ d \in Graph /\ Unplanned(d)
  <2>1. Unplanned(NoGraph)
    BY NoNodesYet DEF Unplanned
  <2> QED BY <2>1, Constants DEF IInv, TypeOK, FInv
<1> DEFINE s == IF d.status = "running" /\ \E n \in Nodes : Lost(d.node[n])
                THEN "paused" ELSE d.status
           N == [n \in Nodes |->
                   IF Lost(d.node[n])
                   THEN [d.node[n] EXCEPT !.st = "interrupted", !.run = 0, !.merge = FALSE]
                   ELSE d.node[n]]
           g == [d EXCEPT !.node = N, !.status = s]
<1>2. graph' = g /\ Unplanned(NoGraph)
  BY NoNodesYet DEF RestartFrom, Reconcile, Unplanned
<1>3. s = d.status \/ (s = "paused" /\ d.status = "running")
  OBVIOUS
<1>4. \A n \in Nodes : ~Lost(d.node[n]) => N[n].st = d.node[n].st
  OBVIOUS
<1> HIDE DEF N, s
<1>5. g.node = N /\ g.status = s
  BY <1>1 DEF Graph
<1> HIDE DEF g
<1>6. Unplanned(g)
  BY <1>1, <1>3, <1>4, <1>5 DEF Unplanned, Lost
<1>7. FInv'
  <2>1. CASE d = NoGraph
    <3>1. /\ disk' = NoGraph /\ NoGraph.status \in Doing
      BY <2>1, NoNodesYet DEF RestartFrom
    <3> QED BY <1>2, <1>6, <3>1 DEF FInv, Unplanned, DoneSaved
  <2>2. CASE d # NoGraph
    <3>1. Write(Reconcile(d), d) /\ graph' = Reconcile(d)
      BY <2>2 DEF RestartFrom
    <3>2. \/ disk' = graph' /\ unsaved' = FALSE
          \/ disk' \in {d, NoGraph} /\ unsaved' = TRUE
      BY <3>1 DEF Write
    <3> QED BY <1>1, <1>2, <1>6, <3>2 DEF FInv, Unplanned, DoneSaved
  <2> QED BY <2>1, <2>2
<1>8. DoneStays
  <2>1. CASE d = disk /\ unsaved
    BY <2>1 DEF RestartFrom, DoneStays
  <2>2. CASE d = disk /\ ~unsaved
    BY <1>2, <1>3, <1>4, <1>5, <2>2 DEF FInv, DoneSaved, DoneStays, Lost, Doing
  <2>3. CASE d = NoGraph
    <3>1. d.status \in Doing
      BY <2>3, NoNodesYet
    <3> QED BY <1>2, <1>3, <1>5, <3>1 DEF DoneStays, Doing
  <2> QED BY <2>1, <2>2, <2>3
<1> QED BY <1>7, <1>8

LEMMA Untouched ==
    ASSUME FInv, UNCHANGED <<graph, disk, unsaved>>
    PROVE  FInv' /\ DoneStays
BY DEF FInv, Unplanned, DoneSaved, DoneStays

LEMMA HandlerKeepsDone ==
    ASSUME IInv, FInv, NEW h \in Handlers,
           \/ CreateCheck(h) \/ CreateFail(h) \/ CreateInsert(h)
           \/ \E opt \in Options : CreateSave(h, opt)
           \/ StopGraph(h) \/ StopRuns(h)
           \/ AcceptNode(h) \/ ContinueNode(h) \/ NodeCallIsMoot(h)
           \/ \E n \in Nodes, k \in 1..MaxLaunch : GoalAccept(h, n, k) \/ GoalContinue(h, n, k)
    PROVE  FInv' /\ DoneStays
<1>1. /\ graph \in Graph /\ graph.node \in [Nodes -> Node] /\ call[h].n \in Nodes
  BY DEF IInv, TypeOK, Graph, Call
<1>2. CASE CreateCheck(h) \/ CreateInsert(h)
  <2>1. UNCHANGED <<disk, unsaved>> /\ (graph' = NoGraph \/ graph' = NewGraph(call[h].opt))
    BY <1>2 DEF CreateCheck, CreateInsert
  <2>2. /\ \A n \in Nodes : graph'.node[n].st = "absent"
        /\ graph'.status \in Doing
    BY <2>1, NoNodesYet
  <2> QED BY <2>1, <2>2 DEF FInv, Unplanned, DoneSaved, DoneStays
<1>3. ASSUME NEW opt \in Options, CreateSave(h, opt) PROVE FInv' /\ DoneStays
  <2>1. graph' = graph /\ (disk' \in {NewGraph(opt), NoGraph} \/ (disk' = disk /\ unsaved'))
    BY <1>3 DEF CreateSave, Write
  <2>2. CASE disk' = disk /\ unsaved'
    BY <2>1, <2>2 DEF FInv, Unplanned, DoneSaved, DoneStays
  <2>3. CASE disk' \in {NewGraph(opt), NoGraph}
    <3>1. /\ \A n \in Nodes : disk'.node[n].st = "absent"
          /\ disk'.status \in Doing
      BY <2>3, NoNodesYet
    <3> QED BY <2>1, <3>1 DEF FInv, Unplanned, DoneSaved, DoneStays
  <2> QED BY <2>1, <2>2, <2>3
<1>4. CASE StopGraph(h)
  <2> DEFINE g == [graph EXCEPT !.status = "stopped"]
  <2>1. graph' = g /\ Put(g)
    BY <1>4 DEF StopGraph, Save, Put
  <2>2. g.node = graph.node /\ g.status = "stopped"
    BY <1>1 DEF Graph
  <2> HIDE DEF g
  <2> QED BY <2>1, <2>2, KeptStep
<1>5. CASE AcceptNode(h)
  <2>1. PICK C \in SUBSET {call[h].n} :
          Save([graph EXCEPT !.node[call[h].n] = FinishNode(@, call[h].n \in C)])
    BY <1>5 DEF AcceptNode
  <2> DEFINE n  == call[h].n
             nd == FinishNode(graph.node[n], n \in C)
  <2>2. n \in Nodes /\ graph.node[n].st # "absent"
    BY <1>1, <1>5 DEF AcceptNode, InPlan
  <2>3. graph.node[n].st = "done" => nd.st = "done"
    BY DEF FinishNode
  <2>4. Save([graph EXCEPT !.node[n] = nd])
    BY <2>1
  <2> HIDE DEF n, nd
  <2> QED BY <2>2, <2>3, <2>4, NodeWritten
<1>6. CASE ContinueNode(h)
  <2> DEFINE n  == call[h].n
             nd == [graph.node[n] EXCEPT !.st = "running", !.merge = FALSE]
  <2>1. n \in Nodes /\ graph.node[n].st = "review" /\ Save([graph EXCEPT !.node[n] = nd])
    BY <1>1, <1>6 DEF ContinueNode, BackToRunning
  <2> HIDE DEF n, nd
  <2> QED BY <2>1, NodeWritten
<1>7. CASE CreateFail(h) \/ StopRuns(h) \/ NodeCallIsMoot(h)
  BY <1>7, Untouched DEF CreateFail, StopRuns, NodeCallIsMoot
<1>8. ASSUME NEW n \in Nodes, NEW k \in 1..MaxLaunch, GoalAccept(h, n, k) \/ GoalContinue(h, n, k)
      PROVE  FInv' /\ DoneStays
  BY <1>8, Untouched DEF GoalAccept, GoalContinue
<1> QED BY <1>2, <1>3, <1>4, <1>5, <1>6, <1>7, <1>8

LEMMA WorldKeepsDone ==
    ASSUME IInv, FInv,
           \/ Purge \/ UserTouchesCheckout \/ Restart \/ CrashInSave
           \/ \E n \in Nodes : PanelContinue(n)
           \/ \E S \in SUBSET Nodes : CrashAfterMerge(S)
           \/ \E n \in Nodes, k \in 1..MaxLaunch :
                 \/ \E st \in {"done", "blocked"} : RunSettles(n, k, st)
                 \/ GoalComplete(n, k) \/ GoalStop(n, k) \/ CloseWorkspace(n, k)
    PROVE  FInv' /\ DoneStays
<1>1. CASE Purge \/ UserTouchesCheckout
  BY <1>1, Untouched DEF Purge, UserTouchesCheckout
<1>2. CASE Restart
  BY <1>2, RestartKeepsDone DEF Restart
<1>3. CASE CrashInSave
  BY <1>3, RestartKeepsDone DEF CrashInSave
<1>4. ASSUME NEW n \in Nodes, PanelContinue(n) PROVE FInv' /\ DoneStays
  <2> DEFINE nd == [graph.node[n] EXCEPT !.st = "running", !.merge = FALSE]
  <2>1. graph.node[n].st = "review" /\ Save([graph EXCEPT !.node[n] = nd])
    BY <1>4 DEF PanelContinue, BackToRunning
  <2> HIDE DEF nd
  <2> QED BY <2>1, NodeWritten
<1>5. ASSUME NEW S \in SUBSET Nodes, CrashAfterMerge(S) PROVE FInv' /\ DoneStays
  BY <1>5, RestartKeepsDone DEF CrashAfterMerge
<1>6. ASSUME NEW n \in Nodes, NEW k \in 1..MaxLaunch,
             \/ \E st \in {"done", "blocked"} : RunSettles(n, k, st)
             \/ GoalComplete(n, k) \/ GoalStop(n, k) \/ CloseWorkspace(n, k)
      PROVE  FInv' /\ DoneStays
  BY <1>6, Untouched DEF RunSettles, GoalComplete, GoalStop, CloseWorkspace
<1> QED BY <1>1, <1>2, <1>3, <1>4, <1>5, <1>6

LEMMA DoneStep ==
    ASSUME IInv, FInv, [Next]_vars
    PROVE  FInv' /\ DoneStays
<1>1. CASE UNCHANGED vars
  BY <1>1, Untouched DEF vars
<1>2. CASE Next
  <2>1. CASE Tick
    BY <2>1, TickKeepsDone
  <2>2. CASE (\E p \in Plans : ApproveGraph(p)) \/ ReviseGraph \/ PauseGraph \/ ResumeGraph
    BY <2>2, RequestKeepsDone
  <2>3. ASSUME NEW h \in Handlers,
               \/ CreateCheck(h) \/ CreateFail(h) \/ CreateInsert(h)
               \/ \E opt \in Options : CreateSave(h, opt)
               \/ StopGraph(h) \/ StopRuns(h)
               \/ AcceptNode(h) \/ ContinueNode(h) \/ NodeCallIsMoot(h)
               \/ \E n \in Nodes, k \in 1..MaxLaunch : GoalAccept(h, n, k) \/ GoalContinue(h, n, k)
        PROVE  FInv' /\ DoneStays
    BY <2>3, HandlerKeepsDone
  <2>4. CASE \/ Purge \/ UserTouchesCheckout \/ Restart \/ CrashInSave
             \/ \E n \in Nodes : PanelContinue(n)
             \/ \E S \in SUBSET Nodes : CrashAfterMerge(S)
             \/ \E n \in Nodes, k \in 1..MaxLaunch :
                   \/ \E st \in {"done", "blocked"} : RunSettles(n, k, st)
                   \/ GoalComplete(n, k) \/ GoalStop(n, k) \/ CloseWorkspace(n, k)
    BY <2>4, WorldKeepsDone
  <2> QED BY <1>2, <2>1, <2>2, <2>3, <2>4 DEF Next
<1> QED BY <1>1, <1>2

\* A finished node stays finished through late verdicts, retried merges, a stop, a
\* pause, every failed write and every way back from a crash, until its graph is
\* replaced or its file is lost; the one way back is a restart that follows a failed
\* write, since save_graph drops the error (finish_node, accept_node, ensure_loaded).
THEOREM DoneNodesStayDone == Spec => DoneIsFinal
<1>1. Init => FInv
  <2> SUFFICES ASSUME Init PROVE FInv
    OBVIOUS
  <2>1. graph = NoGraph /\ disk = NoGraph
    BY DEF Init
  <2> QED BY <2>1, NoNodesYet DEF FInv, Unplanned, DoneSaved
<1>2. IInv /\ FInv /\ [Next]_vars => FInv'
  BY DoneStep
<1>3. Spec => []FInv
  BY <1>1, <1>2, Inductive, PTL DEF Spec
<1>4. IInv /\ FInv /\ [Next]_vars
        => [\A n \in Nodes :
              graph.node[n].st = "done" =>
                 \/ graph'.node[n].st = "done"
                 \/ graph'.status \in {"none", "proposing"}
                 \/ unsaved /\ graph' = Reconcile(disk)]_vars
  BY DoneStep DEF DoneStays, Doing
<1> QED BY <1>3, <1>4, Inductive, PTL DEF Spec, DoneIsFinal
=============================================================================
