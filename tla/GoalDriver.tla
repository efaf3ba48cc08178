----------------------------- MODULE GoalDriver -----------------------------
(***************************************************************************)
(* The goal auto-driver of jmux (jmux/src/goal/mod.rs) and the goal.*      *)
(* socket handlers (jmux/src/socket/v2/goal.rs): registered goal runs, the *)
(* iteration reports their agents write, and who moves a run on:           *)
(*                                                                         *)
(*   - the driver, one pass every two seconds on the GTK main loop, which  *)
(*     visits the runs one by one, reads a run, then a file or a screen,   *)
(*     and only then locks the registry again to write;                    *)
(*   - socket handlers on their own threads: launch, complete, continue,   *)
(*     accept, stop;                                                       *)
(*   - the world: agents, their workspaces, the wall clock, a restart.     *)
(*                                                                         *)
(* One action is what happens between two moments at which another thread  *)
(* could tell the difference; drv and call[h] are what the driver and a    *)
(* handler carry from one such moment to the next.                         *)
(***************************************************************************)
EXTENDS Integers, FiniteSets, Sequences

CONSTANTS Runs,         \* goal runs (workspaces)
          Dirs,         \* report directories
          DirOf,        \* the directory of each run (cwd and output_dir_rel)
          Custom,       \* the runs whose runner is polled only
          Handlers,     \* socket handler threads
          Cap,          \* max_iterations
          Budget,       \* nudge_budget
          IdleLimit,    \* idle_ticks_before_nudge (0 acts as 1)
          NoTextLimit,  \* ticks without a readable screen before escalating (30)
          MaxCalls,     \* bound: complete and continue requests
          MaxIter       \* bound: agents write reports 1 to MaxIter

ASSUME RunsAssumption == /\ DirOf \in [Runs -> Dirs] /\ Custom \subseteq Runs
                         /\ Runs # {}
ASSUME LimitsAssumption ==
    /\ {Cap, IdleLimit, NoTextLimit} \subseteq Nat \ {0}
    /\ {Budget, MaxCalls, MaxIter} \subseteq Nat

VARIABLES goals,       \* SharedState::goals; st "none": not registered
          open,        \* the run's workspace: "new", "open" or "closed"
          file,        \* file[d][n]: what iteration-n.md of directory d says
          agent,       \* what the pane shows; "none": nothing readable yet
          task,        \* the iteration the agent was last told to work on
          inbox,       \* UiEvent::SendInput prompts not yet typed
          hibernated,  \* SharedState::hibernated_panels
          expired,     \* the wall-clock cap has passed
          quiet,       \* an escalation was notified less than a minute ago
          drv,         \* where the driver is in its pass
          call,        \* where each handler is
          served,      \* complete and continue requests so far
          told,        \* history: the user knows of the run's terminal status
          verdict,     \* history: a human, or a status parameter, said done
          strayed      \* history: a prompt was typed where no agent runs

driven == <<goals, quiet, told, verdict>>
world == <<open, file, agent, task, hibernated, expired>>
vars == <<driven, world, inbox, drv, call, served, strayed>>

-----------------------------------------------------------------------------
\* GoalStatus, with the details the code tells apart.
Attention == {"unreadable", "prompt", "stalled", "noStatus", "odd"}
Terminal == {"done", "time", "exited", "unfinished", "stopped"}
GoalStatus == {"none", "running"} \cup Attention \cup Terminal

\* What parse_iteration_file makes of a report; "odd" is an unknown status.
Reports == {"noStatus", "odd", "blocked", "done"}
File == [kind : Reports \cup {"missing"}, by : SUBSET Runs]

\* Nobody goes past an iteration without a report, so that MaxIter bounds the
\* iteration numbers too: the last one is written by nobody.
Iterations == 1..(MaxIter + 1)

GoalRun == [st : GoalStatus, iter : Iterations \cup {0}, nudges : 0..Budget,
            idle : 0..(IdleLimit - 1), noText : 0..(NoTextLimit + 1)]

NewRun(n) == [st |-> "running", iter |-> n, nudges |-> 0, idle |-> 0, noText |-> 0]
NoRun == [NewRun(0) EXCEPT !.st = "none"]

Driver == [pc : {"idle", "pick", "file", "send", "commit", "screen"},
           r : Runs, n : Iterations \cup {0}, snap : GoalRun, todo : SUBSET Runs]
Call == [op : {"idle", "complete", "continue", "commit"},
         r : Runs, n : Iterations \cup {0}, done : BOOLEAN]

AtRest == [pc |-> "idle", r |-> CHOOSE r \in Runs : TRUE, n |-> 0,
           snap |-> NoRun, todo |-> {}]
Idle == [op |-> "idle", r |-> CHOOSE r \in Runs : TRUE, n |-> 0, done |-> FALSE]

Registered(r) == goals[r].st # "none"
Live(r) == Registered(r) /\ goals[r].st \notin Terminal
Report(r, n) == file[DirOf[r]][n].kind

\* next_iteration_number: one past the highest report in the directory.
Written(d) == {n \in Iterations : file[d][n].kind # "missing"}
\* (Mutant of NextIteration: the highest report itself.)
LastIteration(d) == CHOOSE n \in Written(d) \cup {0} : \A m \in Written(d) : m <= n
NextIteration(d) == LastIteration(d) + 1

\* Writing a registry entry: nothing happens if the run was dropped.
Set(r, g) == goals' = IF Registered(r) THEN [goals EXCEPT ![r] = g] ELSE goals

-----------------------------------------------------------------------------
\* escalate, for a run whose entry is g: the status is written if it differs or
\* a minute has passed; the user is notified once a minute, and always when the
\* run becomes terminal.
Changes(r, g, s) == g.st # s \/ ~quiet[r]
\* (Mutant of Notifies: the rate limit knows no exception.)
RateLimited(r, g, s) == Changes(r, g, s) /\ ~quiet[r]
Notifies(r, g, s) ==
    /\ Changes(r, g, s)
    /\ ~quiet[r] \/ (s \in Terminal /\ g.st \notin Terminal)

EscalateFrom(r, g, s) ==
    LET n == Registered(r) /\ Notifies(r, g, s)
    IN  /\ Set(r, IF Changes(r, g, s) THEN [g EXCEPT !.st = s] ELSE g)
        /\ quiet' = [quiet EXCEPT ![r] = @ \/ n]
        /\ told' = [told EXCEPT ![r] = s \in Terminal /\ (@ \/ n)]
        /\ verdict' = [verdict EXCEPT ![r] = FALSE]

Escalate(r, s) == EscalateFrom(r, goals[r], s)

\* (Mutant of Finish: the user is told, the registry is not.)
FinishUnrecorded(r, human) ==
    /\ told' = [told EXCEPT ![r] = TRUE]
    /\ verdict' = [verdict EXCEPT ![r] = human]
    /\ UNCHANGED <<goals, quiet>>

\* The run is done, and its user is told so.
Finish(r, human) ==
    /\ Set(r, [goals[r] EXCEPT !.st = "done"])
    /\ told' = [told EXCEPT ![r] = TRUE]
    /\ verdict' = [verdict EXCEPT ![r] = human]
    /\ UNCHANGED quiet

\* advance_iteration, guards: the iteration has a report with a status, and a
\* claude agent is alive in the pane.
Alive(r) == agent[r] \in {"working", "idle", "menu"}
\* (Mutant of CanAdvance: a double-fired continue gets through.)
AdvanceUnreported(r, n) == r \in Custom \/ Alive(r)
CanAdvance(r, n) == /\ Report(r, n) \in {"odd", "blocked", "done"}
                    /\ r \in Custom \/ Alive(r)

\* advance_iteration, between the guards and the last lock: the prompt is queued.
SendPrompt(r, n) == inbox' = [inbox EXCEPT ![r] = Append(@, n + 1)]

\* advance_iteration, last lock: the run works on the iteration after n.
CommitAdvance(r, n) ==
    /\ Set(r, NewRun(n + 1))
    /\ told' = [told EXCEPT ![r] = FALSE]
    /\ verdict' = [verdict EXCEPT ![r] = FALSE]
    /\ UNCHANGED quiet

-----------------------------------------------------------------------------
(* The driver. *)

\* The pass goes on to the next run, or ends.
NextRun == drv' = IF drv.todo = {} THEN AtRest
                  ELSE [AtRest EXCEPT !.pc = "pick", !.todo = drv.todo]

\* (Mutant of Dropped: runs of closed workspaces stay if they are terminal.)
NeverDropped(r) == FALSE
Dropped(r) == goals[r].st \in Terminal /\ open[r] = "closed"

\* tick: purge, then collect the runs that are not terminal.
DriverTick ==
    /\ drv.pc = "idle"
    /\ goals' = [r \in Runs |-> IF Dropped(r) THEN NoRun ELSE goals[r]]
    /\ LET live == {r \in Runs : Live(r)}
       IN  drv' = IF live = {} THEN AtRest
                  ELSE [AtRest EXCEPT !.pc = "pick", !.todo = live]
    /\ UNCHANGED <<quiet, told, verdict, world, inbox, call, served, strayed>>

\* ensure_agent_spawned, then drive_one reads the run, and drops it if its
\* workspace is closed.
DriverPick(r) ==
    /\ drv.pc = "pick"
    /\ r \in drv.todo
    /\ IF open[r] = "closed"
       THEN /\ goals' = [goals EXCEPT ![r] = NoRun]
            /\ drv' = IF drv.todo = {r} THEN AtRest
                      ELSE [drv EXCEPT !.todo = @ \ {r}]
            /\ UNCHANGED agent
       ELSE /\ drv' = [pc |-> "file", r |-> r, n |-> 0, snap |-> goals[r],
                       todo |-> drv.todo \ {r}]
            /\ agent' \in IF agent[r] = "none" /\ ~hibernated[r]
                          THEN {agent, [agent EXCEPT ![r] = "working"]}
                          ELSE {agent}
            /\ UNCHANGED goals
    /\ UNCHANGED <<quiet, told, verdict, open, file, task, hibernated, expired,
                   inbox, call, served, strayed>>

\* drive_one, 1: the file, and on_iteration_file.
DriverFile ==
    LET r == drv.r
        k == Report(r, drv.snap.iter)
    IN  /\ drv.pc = "file"
        /\ \/ k = "done" /\ Finish(r, FALSE) /\ NextRun
           \/ k \in {"noStatus", "odd"} /\ Escalate(r, k) /\ NextRun
           \/ /\ k = "blocked" /\ drv.snap.iter >= Cap
              /\ Escalate(r, "unfinished") /\ NextRun
           \/ /\ k = "blocked" /\ drv.snap.iter < Cap
              /\ drv' = [drv EXCEPT !.pc = "send", !.n = goals[r].iter]
              /\ UNCHANGED driven
           \/ /\ k = "missing"
              /\ drv' = [drv EXCEPT !.pc = "screen"]
              /\ UNCHANGED driven
        /\ UNCHANGED <<world, inbox, call, served, strayed>>

\* advance_iteration on behalf of the driver; a refusal is only logged.
DriverSend ==
    /\ drv.pc = "send"
    /\ IF CanAdvance(drv.r, drv.n)
       THEN SendPrompt(drv.r, drv.n) /\ drv' = [drv EXCEPT !.pc = "commit"]
       ELSE NextRun /\ UNCHANGED inbox
    /\ UNCHANGED <<driven, world, call, served, strayed>>

DriverCommit ==
    /\ drv.pc = "commit"
    /\ CommitAdvance(drv.r, drv.n)
    /\ NextRun
    /\ UNCHANGED <<world, inbox, call, served, strayed>>

\* drive_one, 2-4: no report yet.  Each of the following is one way through.
AtScreen == /\ drv.pc = "screen"
            /\ NextRun
            /\ UNCHANGED <<world, inbox, call, served, strayed>>

DriverSkips ==
    /\ AtScreen
    /\ hibernated[drv.r] \/ (drv.r \in Custom /\ ~expired[drv.r])
    /\ UNCHANGED driven

DriverTimesOut ==
    /\ AtScreen
    /\ ~hibernated[drv.r] /\ expired[drv.r]
    /\ Escalate(drv.r, "time")

Watched(r) == ~hibernated[r] /\ ~expired[r] /\ r \notin Custom

\* The terminal cannot be read; the thirtieth time in a row is escalated.
DriverReadsNothing ==
    LET r == drv.r
        t == IF drv.snap.noText > NoTextLimit THEN drv.snap.noText
             ELSE drv.snap.noText + 1
        g == [goals[r] EXCEPT !.noText = t]
    IN  /\ AtScreen
        /\ Watched(r) /\ agent[r] = "none"
        /\ IF t = NoTextLimit THEN EscalateFrom(r, g, "unreadable")
           ELSE Set(r, g) /\ UNCHANGED <<quiet, told, verdict>>

Calm(g) == [g EXCEPT !.st = IF @ \in Attention THEN "running" ELSE @]

\* The terminal is readable (again).
Read(r) == IF drv.snap.noText = 0 THEN goals[r]
           ELSE Calm([goals[r] EXCEPT !.noText = 0])

DriverSeesMenu ==
    /\ AtScreen
    /\ Watched(drv.r) /\ agent[drv.r] = "menu"
    /\ EscalateFrom(drv.r, Read(drv.r), "prompt")

DriverSeesWork ==
    /\ AtScreen
    /\ Watched(drv.r) /\ agent[drv.r] = "working"
    /\ Set(drv.r, Calm([Read(drv.r) EXCEPT !.idle = 0]))
    /\ UNCHANGED <<quiet, told, verdict>>

\* Idle, long enough or not.
SeesIdle == /\ AtScreen
            /\ Watched(drv.r) /\ agent[drv.r] \in {"idle", "exited"}
LongIdle == drv.snap.idle + 1 >= IdleLimit

DriverWaits ==
    /\ SeesIdle /\ ~LongIdle
    /\ Set(drv.r, [Read(drv.r) EXCEPT !.idle = drv.snap.idle + 1])
    /\ UNCHANGED <<quiet, told, verdict>>

DriverSeesExit ==
    /\ SeesIdle /\ LongIdle /\ agent[drv.r] = "exited"
    /\ EscalateFrom(drv.r, Read(drv.r), "exited")

\* (Mutant of Spent: one reminder too many.)
OverSpent(n) == n > Budget
Spent(n) == n >= Budget

\* (Mutant of DriverGivesUp: the reminders are used up, nobody is told.)
GivesUpSilently ==
    /\ SeesIdle /\ LongIdle /\ agent[drv.r] = "idle"
    /\ Spent(drv.snap.nudges)
    /\ UNCHANGED driven

DriverGivesUp ==
    /\ SeesIdle /\ LongIdle /\ agent[drv.r] = "idle"
    /\ Spent(drv.snap.nudges)
    /\ EscalateFrom(drv.r, Read(drv.r), "stalled")

\* The reminder is typed at once: this is the main loop.
DriverNudges ==
    LET g == Read(drv.r)
    IN  /\ SeesIdle /\ LongIdle /\ agent[drv.r] = "idle"
        /\ ~Spent(drv.snap.nudges)
        /\ Set(drv.r, [g EXCEPT !.nudges = @ + 1, !.idle = 0])
        /\ UNCHANGED <<quiet, told, verdict>>

DriverStep == \/ DriverTick \/ DriverFile \/ DriverSend \/ DriverCommit
              \/ DriverSkips \/ DriverTimesOut \/ DriverReadsNothing
              \/ DriverSeesMenu \/ DriverSeesWork \/ DriverWaits
              \/ DriverSeesExit \/ DriverGivesUp \/ DriverNudges
              \/ \E r \in Runs : DriverPick(r)

-----------------------------------------------------------------------------
(* Socket handlers. *)

Begin(h, op, r, done) ==
    /\ call[h].op = "idle"
    /\ served < MaxCalls
    /\ Registered(r)
    /\ served' = served + 1
    /\ call' = [call EXCEPT ![h] = [op |-> op, r |-> r, n |-> goals[r].iter,
                                    done |-> done]]
    /\ UNCHANGED <<driven, world, inbox, drv, strayed>>

End(h) == call' = [call EXCEPT ![h] = Idle]

\* launch_goal (goal.create or the graph scheduler): workspace and registry.
Launch(r) ==
    LET n == NextIteration(DirOf[r])
    IN  /\ open[r] = "new"
        /\ goals' = [goals EXCEPT ![r] = NewRun(n)]
        /\ open' = [open EXCEPT ![r] = "open"]
        /\ task' = [task EXCEPT ![r] = n]
        /\ UNCHANGED <<quiet, told, verdict, file, agent, hibernated, expired,
                       inbox, drv, call, served, strayed>>

\* goal.complete reads the run, with or without a status parameter "done" ...
CompleteRead(h, r, done) == Begin(h, "complete", r, done)

\* ... then the report of the iteration it read; only done is recorded.
CompleteWrite(h) ==
    LET k == Report(call[h].r, call[h].n)
    IN  /\ call[h].op = "complete"
        /\ IF k = "done" \/ (k \in {"missing", "noStatus"} /\ call[h].done)
           THEN Finish(call[h].r, k # "done")
           ELSE UNCHANGED driven
        /\ End(h)
        /\ UNCHANGED <<world, inbox, drv, served, strayed>>

\* goal.continue is advance_iteration, from its first lock to its last.
ContinueRead(h, r) == Begin(h, "continue", r, FALSE)

ContinueSend(h) ==
    /\ call[h].op = "continue"
    /\ IF CanAdvance(call[h].r, call[h].n)
       THEN /\ SendPrompt(call[h].r, call[h].n)
            /\ call' = [call EXCEPT ![h].op = "commit"]
       ELSE End(h) /\ UNCHANGED inbox
    /\ UNCHANGED <<driven, world, drv, served, strayed>>

ContinueCommit(h) ==
    /\ call[h].op = "commit"
    /\ CommitAdvance(call[h].r, call[h].n)
    /\ End(h)
    /\ UNCHANGED <<world, inbox, drv, served, strayed>>

\* goal.accept and goal.stop hold the lock throughout.
GoalAccept(r) ==
    /\ Registered(r)
    /\ Finish(r, TRUE)
    /\ UNCHANGED <<world, inbox, drv, call, served, strayed>>

GoalStop(r) ==
    /\ Registered(r)
    /\ Set(r, [goals[r] EXCEPT !.st = "stopped"])
    /\ told' = [told EXCEPT ![r] = TRUE]
    /\ verdict' = [verdict EXCEPT ![r] = FALSE]
    /\ UNCHANGED <<quiet, world, inbox, drv, call, served, strayed>>

-----------------------------------------------------------------------------
(* The world. *)

\* The main loop, between two passes, types a queued prompt.  A menu may
\* swallow it; without a terminal it is lost.
DeliverPrompt(r) ==
    LET n == Head(inbox[r])
    IN  /\ drv.pc = "idle"
        /\ inbox[r] # <<>>
        /\ inbox' = [inbox EXCEPT ![r] = Tail(@)]
        /\ \/ /\ agent[r] \in {"working", "idle", "menu"}
              /\ task' = [task EXCEPT ![r] = n]
              /\ agent' = [agent EXCEPT ![r] = IF @ = "idle" THEN "working" ELSE @]
           \/ /\ agent[r] \notin {"working", "idle"}
              /\ UNCHANGED <<task, agent>>
        /\ strayed' = (strayed \/ agent[r] = "exited")
        /\ UNCHANGED <<driven, open, file, hibernated, expired, drv, call, served>>

\* A working agent writes, or completes, the report it was asked for.
AgentWrites(r, k) ==
    LET d == DirOf[r]
        n == task[r]
    IN  /\ agent[r] = "working"
        /\ ~hibernated[r]
        /\ n <= MaxIter
        /\ file[d][n].kind \in {"missing", "noStatus", "odd"}
        /\ file[d][n].kind # k
        /\ file' = [file EXCEPT ![d][n] = [kind |-> k, by |-> @.by \cup {r}]]
        /\ UNCHANGED <<driven, open, agent, task, hibernated, expired, inbox,
                       drv, call, served, strayed>>

\* It ends its turn, asks, is answered, is prompted by its user, exits, or is
\* resumed by its user.
AgentMoves == {<<"working", "idle">>, <<"working", "menu">>, <<"menu", "working">>,
               <<"idle", "working">>, <<"working", "exited">>, <<"idle", "exited">>,
               <<"exited", "idle">>}

AgentTurns(r, m) ==
    /\ open[r] = "open"
    /\ ~hibernated[r]
    /\ agent[r] = m[1]
    /\ agent' = [agent EXCEPT ![r] = m[2]]
    /\ UNCHANGED <<driven, open, file, task, hibernated, expired, inbox, drv,
                   call, served, strayed>>

CloseWorkspace(r) ==
    /\ open[r] = "open"
    /\ open' = [open EXCEPT ![r] = "closed"]
    /\ agent' = [agent EXCEPT ![r] = "none"]
    /\ hibernated' = [hibernated EXCEPT ![r] = FALSE]
    /\ UNCHANGED <<driven, file, task, expired, inbox, drv, call, served, strayed>>

\* The user freezes, or wakes, the agent of a pane.
ToggleHibernation(r) ==
    /\ agent[r] # "none"
    /\ hibernated' = [hibernated EXCEPT ![r] = ~@]
    /\ UNCHANGED <<driven, open, file, agent, task, expired, inbox, drv, call,
                   served, strayed>>

ClockExpires(r) ==
    /\ open[r] # "new" /\ ~expired[r]
    /\ expired' = [expired EXCEPT ![r] = TRUE]
    /\ UNCHANGED <<driven, open, file, agent, task, hibernated, inbox, drv, call,
                   served, strayed>>

MinutePasses(r) ==
    /\ quiet[r]
    /\ quiet' = [quiet EXCEPT ![r] = FALSE]
    /\ UNCHANGED <<goals, told, verdict, world, inbox, drv, call, served, strayed>>

\* The process dies; the registry lives in memory only.
Restart ==
    /\ goals' = [r \in Runs |-> NoRun]
    /\ open' = [r \in Runs |-> IF open[r] = "new" THEN "new" ELSE "closed"]
    /\ agent' = [r \in Runs |-> "none"]
    /\ inbox' = [r \in Runs |-> <<>>]
    /\ hibernated' = [r \in Runs |-> FALSE]
    /\ drv' = AtRest
    /\ call' = [h \in Handlers |-> Idle]
    /\ UNCHANGED <<quiet, told, verdict, file, task, expired, served, strayed>>

-----------------------------------------------------------------------------
Init == /\ goals = [r \in Runs |-> NoRun]
        /\ open = [r \in Runs |-> "new"]
        /\ file = [d \in Dirs |-> [n \in Iterations |-> [kind |-> "missing", by |-> {}]]]
        /\ agent = [r \in Runs |-> "none"]
        /\ task = [r \in Runs |-> 0]
        /\ inbox = [r \in Runs |-> <<>>]
        /\ hibernated = [r \in Runs |-> FALSE]
        /\ expired = [r \in Runs |-> FALSE]
        /\ quiet = [r \in Runs |-> FALSE]
        /\ drv = AtRest
        /\ call = [h \in Handlers |-> Idle]
        /\ served = 0
        /\ told = [r \in Runs |-> FALSE]
        /\ verdict = [r \in Runs |-> FALSE]
        /\ strayed = FALSE

Next == \/ DriverStep
        \/ \E h \in Handlers :
             \/ CompleteWrite(h) \/ ContinueSend(h) \/ ContinueCommit(h)
             \/ \E r \in Runs : \/ ContinueRead(h, r)
                                \/ \E done \in BOOLEAN : CompleteRead(h, r, done)
        \/ \E r \in Runs :
             \/ Launch(r) \/ GoalAccept(r) \/ GoalStop(r)
             \/ DeliverPrompt(r) \/ \E k \in Reports : AgentWrites(r, k)
             \/ \E m \in AgentMoves : AgentTurns(r, m)
             \/ CloseWorkspace(r) \/ ToggleHibernation(r)
             \/ ClockExpires(r) \/ MinutePasses(r)
        \/ Restart

Spec == Init /\ [][Next]_vars

\* The main loop keeps running, and a pass visits every run it collected.
\* Agents, users, clocks and socket clients owe nothing.
Fairness == WF_vars(DriverStep)

FairSpec == Spec /\ Fairness

-----------------------------------------------------------------------------
(* Properties. *)

TypeOK == /\ goals \in [Runs -> GoalRun]
          /\ open \in [Runs -> {"new", "open", "closed"}]
          /\ file \in [Dirs -> [Iterations -> File]]
          /\ agent \in [Runs -> {"none", "working", "idle", "menu", "exited"}]
          /\ task \in [Runs -> Iterations \cup {0}]
          /\ inbox \in [Runs -> Seq(Iterations)]
          /\ hibernated \in [Runs -> BOOLEAN]
          /\ expired \in [Runs -> BOOLEAN]
          /\ quiet \in [Runs -> BOOLEAN]
          /\ drv \in Driver
          /\ call \in [Handlers -> Call]
          /\ served \in 0..MaxCalls
          /\ told \in [Runs -> BOOLEAN]
          /\ verdict \in [Runs -> BOOLEAN]
          /\ strayed \in BOOLEAN

\* advance_iteration's first guard: whoever continues a run, and however often
\* at once, no iteration is skipped - every iteration before the polled one has
\* a report, so the driver does not poll a report nobody was asked for.
NoIterationIsSkipped ==
    \A r \in Runs : Registered(r) =>
       \A n \in 1..(goals[r].iter - 1) : Report(r, n) # "missing"

\* escalate's exception to its rate limit: a run the driver will not look at
\* again never ended without its user being notified, whatever escalations,
\* verdicts and continuations overlapped.
TerminalIsAnnounced ==
    \A r \in Runs : goals[r].st \in Terminal => told[r]

\* tick's purge and drive_one's check: closing a workspace gets rid of its run,
\* wherever the driver was in its pass and whatever its copy of the run says.
ClosedRunsAreDropped ==
    \A r \in Runs : open[r] = "closed" ~> ~Registered(r)

\* Reminders and the screen watchdog: a run whose agent neither works nor writes
\* does not stay "running" for ever; its user is called.
SilentRunsEscalate ==
    \A r \in Runs \ Custom :
       goals[r].st = "running" /\ Report(r, goals[r].iter) = "missing"
         ~> \/ goals[r].st # "running"
            \/ Report(r, goals[r].iter) # "missing"
            \/ agent[r] = "working" \/ hibernated[r]

\* "The source of truth": a report is acted upon, even one of a paused agent -
\* the run ends, waits for its user, or goes on to another iteration - unless
\* there is no agent to go on with.
ReportsAreActedOn ==
    \A r \in Runs, n \in 1..MaxIter :
       goals[r].st = "running" /\ goals[r].iter = n /\ Report(r, n) # "missing"
         ~> goals[r].st # "running" \/ goals[r].iter # n \/ ~Alive(r)

-----------------------------------------------------------------------------
(* What the documentation says and the code does not do. *)

\* stop_run: "mark the run Blocked so the driver stops driving it".
StoppedStaysStopped ==
    [][\A r \in Runs : goals[r].st = "stopped" /\ goals'[r].st # "stopped" =>
          \/ goals'[r].st \in {"none", "done"}
          \/ \E h \in Handlers : call[h].op = "commit" /\ call'[h].op = "idle"]_vars

\* DESIGN-goal-graph.md: "No live claude process: never send anything.  Treat
\* as runner exit."
ExitedRunsEnd ==
    \A r \in Runs \ Custom :
       goals[r].st = "running" /\ agent[r] = "exited"
         ~> goals[r].st # "running" \/ agent[r] # "exited" \/ hibernated[r]

\* advance_iteration: "never type into a pane without a live agent - an idle
\* shell would EXECUTE the prompt".
PromptsReachLiveAgents == ~strayed

\* GoalRun.output_dir_rel: the "directory holding this run's iteration files".
RunReadsItsOwnReport ==
    \A r \in Runs : goals[r].st = "done" /\ ~verdict[r] =>
       r \in file[DirOf[r]][goals[r].iter].by

\* goal.complete: "The file is the source of truth; the param is only a
\* fallback" - a run that is done, and not by a verdict, has a report saying so.
FileIsTheSourceOfTruth ==
    \A r \in Runs : goals[r].st = "done" /\ ~verdict[r] =>
       Report(r, goals[r].iter) = "done"

\* GOAL-GRAPH.md, of a run that stopped on a permission prompt: "you answer once
\* and jmux goal continue" - which advance_iteration must then not refuse.
PromptedRunCanContinue ==
    \A r \in Runs : goals[r].st = "prompt" /\ Alive(r) =>
       CanAdvance(r, goals[r].iter)

\* DESIGN-goal-graph.md: "restarts reconcile instead of forgetting".
RestartKeepsRuns ==
    [][\A r \in Runs : Live(r) /\ goals'[r].st = "none" => open[r] = "closed"]_vars
=============================================================================
