-------------------------- MODULE GoalDriverProofs --------------------------
(***************************************************************************)
(* Proofs about GoalDriver, for any runs, directories and handlers and any *)
(* limits: types, NoIterationIsSkipped and TerminalIsAnnounced.            *)
(*                                                                         *)
(* TerminalIsAnnounced is inductive as it stands.  NoIterationIsSkipped is *)
(* not: an iteration number lives in many places between the moment a      *)
(* report is seen and the moment the number is used - the driver's copy, a *)
(* handler, a queued prompt, the agent - and the claim is needed of each.  *)
(***************************************************************************)
EXTENDS GoalDriver, WellFoundedInduction, TLAPS

\* Iteration n of run r may be asked for: all iterations before it are reported.
Reached(r, n) == /\ n \in Iterations
                 /\ \A m \in 1..(n - 1) : Report(r, m) # "missing"

\* The reports of a directory have no gap, and the last one is never written.
NoGaps == \A d \in Dirs :
             /\ file[d][MaxIter + 1].kind = "missing"
             /\ \A n \in Iterations : file[d][n].kind # "missing" =>
                   \A m \in 1..(n - 1) : file[d][m].kind # "missing"

RunsReached == \A r \in Runs :
                  /\ Registered(r) => Reached(r, goals[r].iter)
                  /\ Registered(r) => open[r] # "new"
                  /\ open[r] # "new" => Reached(r, task[r])
                  /\ open[r] = "new" => agent[r] = "none"
                  /\ \A i \in 1..Len(inbox[r]) : Reached(r, inbox[r][i])

\* The driver only holds registered runs: it alone drops runs.
DriverReached ==
    /\ drv.pc # "idle" => \A r \in drv.todo : Registered(r)
    /\ drv.pc \in {"file", "send", "commit", "screen"} =>
          /\ Registered(drv.r)
          /\ drv.snap.iter \in Iterations
          /\ goals[drv.r].nudges <= drv.snap.nudges
    /\ drv.pc = "send" => Reached(drv.r, drv.n)
    /\ drv.pc = "commit" => Reached(drv.r, drv.n + 1)

CallsReached == \A h \in Handlers :
                   /\ call[h].op \in {"complete", "continue"} => Reached(call[h].r, call[h].n)
                   /\ call[h].op = "commit" => Reached(call[h].r, call[h].n + 1)

IInv == /\ TypeOK
        /\ NoGaps
        /\ RunsReached
        /\ DriverReached
        /\ CallsReached
        /\ TerminalIsAnnounced

-----------------------------------------------------------------------------
(* What the operations on a run do to the registry. *)

\* Every write to the registry that neither adds nor drops a run does this.
Kept == /\ goals' \in [Runs -> GoalRun]
        /\ quiet' \in [Runs -> BOOLEAN]
        /\ told' \in [Runs -> BOOLEAN]
        /\ verdict' \in [Runs -> BOOLEAN]
        /\ \A x \in Runs : goals'[x].st = "none" <=> goals[x].st = "none"
        /\ \A x \in Runs : Registered(x) => Reached(x, goals'[x].iter)
        /\ TerminalIsAnnounced'

\* Only the driver counts a reminder; every other write keeps or resets the count.
NoMoreNudges == \A x \in Runs : goals'[x].nudges <= goals[x].nudges

\* set_run.
LEMMA SetWrites ==
  ASSUME TypeOK, NEW r \in Runs, NEW g \in GoalRun, Set(r, g)
  PROVE  /\ goals' \in [Runs -> GoalRun]
         /\ Registered(r) => goals'[r] = g
         /\ ~Registered(r) => goals'[r] = goals[r]
         /\ \A x \in Runs \ {r} : goals'[x] = goals[x]
BY DEF Set, TypeOK

LEMMA NothingKept ==
  ASSUME IInv, UNCHANGED driven
  PROVE  Kept /\ NoMoreNudges
<1>1. \A x \in Runs : goals[x].nudges \in 0..Budget
  BY DEF IInv, TypeOK, GoalRun
<1> QED BY <1>1, LimitsAssumption DEF driven, IInv, TypeOK, Kept, NoMoreNudges, RunsReached, Registered,
              TerminalIsAnnounced

\* escalate, on an entry that is the registry's with other counters and, if it
\* was waiting for attention, calmed.
LEMMA EscalateKept ==
  ASSUME IInv, NEW r \in Runs, NEW g \in GoalRun, NEW s \in Attention \cup Terminal,
         g.iter = goals[r].iter, g.st \in Terminal <=> goals[r].st \in Terminal,
         Registered(r) => g.st # "none",
         EscalateFrom(r, g, s)
  PROVE  Kept
<1>1. PICK h : h = IF Changes(r, g, s) THEN [g EXCEPT !.st = s] ELSE g
  OBVIOUS
<1>2. /\ h \in GoalRun /\ h.iter = g.iter
      /\ h.st = IF Changes(r, g, s) THEN s ELSE g.st
  <2>1. s \in GoalStatus
    BY DEF GoalStatus
  <2> QED BY <1>1, <2>1 DEF GoalRun
<1>3. /\ goals' \in [Runs -> GoalRun]
      /\ Registered(r) => goals'[r] = h
      /\ ~Registered(r) => goals'[r] = goals[r]
      /\ \A x \in Runs \ {r} : goals'[x] = goals[x]
  <2>1. Set(r, h)
    BY <1>1 DEF EscalateFrom
  <2> QED BY <1>2, <2>1, SetWrites DEF IInv
<1>4. /\ quiet' \in [Runs -> BOOLEAN] /\ told' \in [Runs -> BOOLEAN]
      /\ verdict' \in [Runs -> BOOLEAN]
      /\ \A x \in Runs \ {r} : told'[x] = told[x]
      /\ told'[r] = (s \in Terminal /\ (told[r] \/ (Registered(r) /\ Notifies(r, g, s))))
  BY DEF EscalateFrom, IInv, TypeOK
<1>5. s # "none" /\ "none" \notin Terminal
  BY DEF Attention, Terminal
<1>6. g.st # "none" => h.st # "none"
  BY <1>2, <1>5
<1>7. \A x \in Runs : goals'[x].st = "none" <=> goals[x].st = "none"
  BY <1>3, <1>6 DEF Registered
<1>8. \A x \in Runs : Registered(x) => Reached(x, goals'[x].iter)
  BY <1>2, <1>3 DEF IInv, RunsReached
<1>9. TerminalIsAnnounced'
  <2>1. ASSUME NEW x \in Runs \ {r}, goals'[x].st \in Terminal
        PROVE  told'[x]
    BY <1>3, <1>4, <2>1 DEF IInv, TerminalIsAnnounced
  <2>2. ASSUME goals'[r].st \in Terminal
        PROVE  told'[r]
    <3>1. CASE ~Registered(r)
      BY <1>3, <1>5, <2>2, <3>1 DEF Registered
    <3>2. CASE Registered(r) /\ goals[r].st \in Terminal
      <4>1. told[r] /\ g.st \in Terminal
        BY <3>2 DEF IInv, TerminalIsAnnounced
      <4>2. s \in Terminal
        BY <1>2, <1>3, <2>2, <3>2, <4>1 DEF Changes
      <4> QED BY <1>4, <4>1, <4>2
    <3>3. CASE Registered(r) /\ goals[r].st \notin Terminal
      <4>1. g.st \notin Terminal
        BY <3>3
      <4>2. Changes(r, g, s) /\ s \in Terminal
        BY <1>2, <1>3, <2>2, <3>3, <4>1
      <4> QED BY <1>4, <3>3, <4>1, <4>2 DEF Notifies
    <3> QED BY <3>1, <3>2, <3>3
  <2> QED BY <2>1, <2>2 DEF TerminalIsAnnounced
<1> QED BY <1>3, <1>4, <1>7, <1>8, <1>9 DEF Kept

\* The special case of a status written over the run as it is.
LEMMA PlainEscalateKept ==
  ASSUME IInv, NEW r \in Runs, NEW s \in Attention \cup Terminal, Escalate(r, s)
  PROVE  Kept
<1>1. goals[r] \in GoalRun
  BY DEF IInv, TypeOK
<1> QED BY <1>1, EscalateKept DEF Escalate, Registered

\* A status that is written and announced: done, or stopped.
LEMMA AnnounceKept ==
  ASSUME IInv, NEW r \in Runs, NEW s \in {"done", "stopped"}, NEW v \in BOOLEAN,
         Set(r, [goals[r] EXCEPT !.st = s]),
         told' = [told EXCEPT ![r] = TRUE],
         verdict' = [verdict EXCEPT ![r] = v],
         UNCHANGED quiet
  PROVE  Kept /\ NoMoreNudges
<1>1. PICK h : h = [goals[r] EXCEPT !.st = s]
  OBVIOUS
<1>2. \A x \in Runs : goals[x] \in GoalRun /\ goals[x].nudges \in 0..Budget
  BY DEF IInv, TypeOK, GoalRun
<1>3. h \in GoalRun /\ h.iter = goals[r].iter /\ h.nudges = goals[r].nudges /\ h.st = s
  <2>1. s \in GoalStatus
    BY DEF GoalStatus, Terminal
  <2> QED BY <1>1, <1>2, <2>1 DEF GoalRun
<1>4. /\ goals' \in [Runs -> GoalRun]
      /\ Registered(r) => goals'[r] = h
      /\ ~Registered(r) => goals'[r] = goals[r]
      /\ \A x \in Runs \ {r} : goals'[x] = goals[x]
  BY <1>1, <1>3, SetWrites DEF IInv
<1>5. /\ quiet' \in [Runs -> BOOLEAN] /\ told' \in [Runs -> BOOLEAN]
      /\ verdict' \in [Runs -> BOOLEAN]
      /\ \A x \in Runs \ {r} : told'[x] = told[x]
      /\ told'[r]
  BY DEF IInv, TypeOK
<1>6. \A x \in Runs : goals'[x].st = "none" <=> goals[x].st = "none"
  BY <1>3, <1>4 DEF Registered
<1>7. \A x \in Runs : Registered(x) => Reached(x, goals'[x].iter)
  BY <1>3, <1>4 DEF IInv, RunsReached
<1>8. TerminalIsAnnounced'
  BY <1>4, <1>5 DEF IInv, TerminalIsAnnounced
<1>9. NoMoreNudges
  BY <1>2, <1>3, <1>4, LimitsAssumption DEF NoMoreNudges
<1> QED BY <1>4, <1>5, <1>6, <1>7, <1>8, <1>9 DEF Kept

LEMMA FinishKept ==
  ASSUME IInv, NEW r \in Runs, NEW v \in BOOLEAN, Finish(r, v)
  PROVE  Kept /\ NoMoreNudges
BY AnnounceKept DEF Finish

\* advance_iteration's last lock, when its guards saw the report of n.
LEMMA CommitKept ==
  ASSUME IInv, NEW r \in Runs, NEW n, n + 1 \in Iterations, Reached(r, n + 1),
         CommitAdvance(r, n)
  PROVE  Kept /\ NoMoreNudges
<1>1. PICK h : h = NewRun(n + 1)
  OBVIOUS
<1>2. \A x \in Runs : goals[x] \in GoalRun /\ goals[x].nudges \in 0..Budget
  BY DEF IInv, TypeOK, GoalRun
<1>3. h \in GoalRun /\ h.iter = n + 1 /\ h.nudges = 0 /\ h.st = "running"
  BY <1>1, LimitsAssumption DEF NewRun, GoalRun, GoalStatus, Iterations
<1>4. /\ goals' \in [Runs -> GoalRun]
      /\ Registered(r) => goals'[r] = h
      /\ ~Registered(r) => goals'[r] = goals[r]
      /\ \A x \in Runs \ {r} : goals'[x] = goals[x]
  BY <1>1, <1>3, SetWrites DEF IInv, CommitAdvance
<1>5. /\ quiet' \in [Runs -> BOOLEAN] /\ told' \in [Runs -> BOOLEAN]
      /\ verdict' \in [Runs -> BOOLEAN]
      /\ \A x \in Runs \ {r} : told'[x] = told[x]
  BY DEF CommitAdvance, IInv, TypeOK
<1>6. \A x \in Runs : goals'[x].st = "none" <=> goals[x].st = "none"
  BY <1>3, <1>4 DEF Registered
<1>7. \A x \in Runs : Registered(x) => Reached(x, goals'[x].iter)
  BY <1>3, <1>4 DEF IInv, RunsReached
<1>8. goals'[r].st \notin Terminal
  BY <1>3, <1>4 DEF Registered, Terminal
<1>9. TerminalIsAnnounced'
  BY <1>4, <1>5, <1>8 DEF IInv, TerminalIsAnnounced
<1>10. NoMoreNudges
  BY <1>2, <1>3, <1>4, LimitsAssumption DEF NoMoreNudges
<1> QED BY <1>4, <1>5, <1>6, <1>7, <1>9, <1>10 DEF Kept

-----------------------------------------------------------------------------
(* From the registry to the whole state. *)

\* Reports do not disappear, so what was reached stays reached.
FilesGrow == \A d \in Dirs, n \in Iterations :
                file[d][n].kind # "missing" => file'[d][n].kind # "missing"

LEMMA ReachedStays ==
  ASSUME FilesGrow, NEW r \in Runs, NEW n, Reached(r, n)
  PROVE  Reached(r, n)'
<1>1. DirOf[r] \in Dirs
  BY RunsAssumption
<1>2. 1..(n - 1) \subseteq Iterations
  BY LimitsAssumption DEF Reached, Iterations
<1> QED BY <1>1, <1>2 DEF FilesGrow, Reached, Report

LEMMA SameFilesGrow ==
  ASSUME UNCHANGED file
  PROVE  FilesGrow /\ (NoGaps => NoGaps')
BY DEF FilesGrow, NoGaps

\* The runs' part of the invariant after a write to the registry.
LEMMA KeptRuns ==
  ASSUME IInv, Kept, UNCHANGED <<world, inbox>>
  PROVE  NoGaps' /\ RunsReached'
<1>1. UNCHANGED <<open, file, agent, task, inbox>>
  BY DEF world
<1>2. FilesGrow /\ NoGaps'
  BY <1>1, SameFilesGrow DEF IInv
<1>3. ASSUME NEW r \in Runs
      PROVE  /\ Registered(r)' => Reached(r, goals[r].iter)'
             /\ Registered(r)' => open'[r] # "new"
             /\ open'[r] # "new" => Reached(r, task[r])'
             /\ open'[r] = "new" => agent'[r] = "none"
             /\ \A i \in 1..Len(inbox'[r]) : Reached(r, inbox[r][i])'
  <2>1. Registered(r)' <=> Registered(r)
    BY DEF Kept, Registered
  <2>2. Registered(r) => Reached(r, goals'[r].iter)
    BY DEF Kept
  <2>3. \A n : Reached(r, n) <=> Reached(r, n)'
    BY <1>1 DEF Reached, Report
  <2>4. Registered(r)' => Reached(r, goals[r].iter)'
    BY <1>1, <2>1, <2>2 DEF Reached, Report
  <2>5. open[r] # "new" => Reached(r, task[r])'
    BY <1>1 DEF IInv, RunsReached, Reached, Report
  <2>6. \A i \in 1..Len(inbox[r]) : Reached(r, inbox[r][i])'
    BY <1>1 DEF IInv, RunsReached, Reached, Report
  <2> QED BY <1>1, <2>1, <2>4, <2>5, <2>6 DEF IInv, RunsReached
<1> QED BY <1>2, <1>3 DEF RunsReached

\* The driver's records.
LEMMA NextRunTyped ==
  ASSUME IInv, NextRun
  PROVE  /\ drv' \in Driver
         /\ drv'.todo = drv.todo
         /\ drv'.pc \in {"idle", "pick"}
<1>1. /\ AtRest \in Driver /\ AtRest.todo = {} /\ AtRest.pc = "idle"
  BY RunsAssumption, LimitsAssumption DEF AtRest, Driver, NoRun, NewRun, GoalRun, GoalStatus
<1>2. drv \in Driver /\ drv.todo \in SUBSET Runs
  BY DEF IInv, TypeOK, Driver
<1> QED BY <1>1, <1>2 DEF NextRun, Driver

\* A step of the driver that ends its work on a run.
LEMMA DriverWrites ==
  ASSUME IInv, Kept, NextRun, drv.pc # "idle",
         UNCHANGED <<world, inbox, call, served, strayed>>
  PROVE  IInv'
<1>1. drv' \in Driver /\ drv'.todo = drv.todo /\ drv'.pc \in {"idle", "pick"}
  BY NextRunTyped
<1>2. TypeOK'
  BY <1>1 DEF IInv, TypeOK, Kept, world
<1>3. NoGaps' /\ RunsReached'
  BY KeptRuns
<1>4. DriverReached'
  <2>1. drv.todo \in SUBSET Runs
    BY DEF IInv, TypeOK, Driver
  <2> QED BY <1>1, <2>1 DEF IInv, DriverReached, Kept, Registered
<1>5. CallsReached'
  BY DEF world, IInv, CallsReached, Reached, Report
<1> QED BY <1>2, <1>3, <1>4, <1>5 DEF IInv, Kept

\* A step of a handler: its own record is dropped or unchanged.
LEMMA HandlerWrites ==
  ASSUME IInv, Kept, NoMoreNudges, call' \in [Handlers -> Call],
         \A h \in Handlers : call'[h] = call[h] \/ call'[h] = Idle,
         UNCHANGED <<world, inbox, drv, served, strayed>>
  PROVE  IInv'
<1>1. TypeOK'
  BY DEF IInv, TypeOK, Kept, world
<1>2. NoGaps' /\ RunsReached'
  BY KeptRuns
<1>3. DriverReached'
  <2>1. drv.todo \in SUBSET Runs /\ drv.r \in Runs /\ drv.snap \in GoalRun
    BY DEF IInv, TypeOK, Driver
  <2>2. drv.snap.nudges \in Nat /\ goals[drv.r].nudges \in Nat /\ goals'[drv.r].nudges \in Nat
    <3>1. \A g \in GoalRun : g.nudges \in Nat
      BY LimitsAssumption DEF GoalRun
    <3>2. goals[drv.r] \in GoalRun /\ goals'[drv.r] \in GoalRun
      BY <2>1 DEF IInv, TypeOK, Kept
    <3> QED BY <2>1, <3>1, <3>2
  <2>3. goals'[drv.r].nudges <= goals[drv.r].nudges
    BY <2>1 DEF NoMoreNudges
  <2>4. \A x \in Runs : Registered(x)' <=> Registered(x)
    BY DEF Kept, Registered
  <2>5. \A x, n : Reached(x, n)' <=> Reached(x, n)
    BY DEF Reached, Report, world
  <2> QED BY <2>1, <2>2, <2>3, <2>4, <2>5 DEF IInv, DriverReached, Registered
<1>4. CallsReached'
  <2>1. Idle.op = "idle"
    BY DEF Idle
  <2>2. \A x, n : Reached(x, n)' <=> Reached(x, n)
    BY DEF Reached, Report, world
  <2> QED BY <2>1, <2>2 DEF IInv, CallsReached
<1> QED BY <1>1, <1>2, <1>3, <1>4 DEF IInv, Kept

-----------------------------------------------------------------------------
(* The driver's steps. *)

LEMMA Records ==
  /\ NoRun \in GoalRun /\ NoRun.st = "none"
  /\ AtRest \in Driver /\ AtRest.todo = {} /\ AtRest.pc = "idle"
  /\ Idle.op = "idle"
  /\ Handlers # {} => Idle \in Call
<1>1. NoRun \in GoalRun /\ NoRun.st = "none"
  BY LimitsAssumption DEF NoRun, NewRun, GoalRun, GoalStatus
<1> QED BY <1>1, RunsAssumption, LimitsAssumption DEF AtRest, Driver, Idle, Call

\* tick's purge.
LEMMA DriverTickKeeps == ASSUME IInv, DriverTick PROVE IInv'
<1>1. /\ UNCHANGED <<quiet, told, verdict, inbox, call, served, strayed>>
      /\ UNCHANGED <<open, file, agent, task, hibernated, expired>>
      /\ goals' = [r \in Runs |-> IF Dropped(r) THEN NoRun ELSE goals[r]]
  BY DEF DriverTick, world
<1>2. /\ drv' \in Driver /\ drv'.pc \in {"idle", "pick"}
      /\ \A r \in drv'.todo : r \in Runs /\ Live(r)
  <2> DEFINE live == {r \in Runs : Live(r)}
             d == [AtRest EXCEPT !.pc = "pick", !.todo = live]
  <2>1. live \in SUBSET Runs
    OBVIOUS
  <2>2. drv' = IF live = {} THEN AtRest ELSE d
    BY DEF DriverTick
  <2>3. \A r \in live : r \in Runs /\ Live(r)
    OBVIOUS
  <2> HIDE DEF live
  <2>4. d \in Driver /\ d.pc = "pick" /\ d.todo = live
    BY <2>1, Records DEF Driver
  <2> HIDE DEF d
  <2> QED BY <2>2, <2>3, <2>4, Records
<1>3. \A r \in Runs :
         goals'[r] = goals[r] \/ (Dropped(r) /\ goals'[r].st = "none")
  BY <1>1, Records
<1>4. TypeOK'
  <2>1. goals' \in [Runs -> GoalRun]
    BY <1>1, Records DEF IInv, TypeOK
  <2> QED BY <1>1, <1>2, <2>1 DEF IInv, TypeOK
<1>5. NoGaps' /\ \A r, n : Reached(r, n)' <=> Reached(r, n)
  BY <1>1 DEF IInv, NoGaps, Reached, Report
<1>6. RunsReached'
  BY <1>1, <1>3, <1>5 DEF IInv, RunsReached, Registered
<1>7. DriverReached'
  <2>1. \A r \in drv'.todo : Registered(r)'
    BY <1>2, <1>3 DEF Live, Dropped, Registered
  <2> QED BY <1>2, <2>1 DEF DriverReached
<1>8. CallsReached'
  BY <1>1, <1>5 DEF IInv, CallsReached
<1>9. TerminalIsAnnounced'
  BY <1>1, <1>3 DEF IInv, TerminalIsAnnounced, Terminal
<1> QED BY <1>4, <1>5, <1>6, <1>7, <1>8, <1>9 DEF IInv

\* The driver's copy of a run, or its removal.
LEMMA DriverPickKeeps == ASSUME IInv, NEW r \in Runs, DriverPick(r) PROVE IInv'
<1>1. /\ UNCHANGED <<quiet, told, verdict, open, file, task, hibernated, expired,
                     inbox, call, served, strayed>>
      /\ drv.pc = "pick" /\ r \in drv.todo
  BY DEF DriverPick
<1>2. Registered(r) /\ open[r] # "new"
  BY <1>1 DEF IInv, DriverReached, RunsReached
<1>3. NoGaps' /\ \A x, n : Reached(x, n)' <=> Reached(x, n)
  BY <1>1 DEF IInv, NoGaps, Reached, Report
<1>4. CallsReached'
  BY <1>1, <1>3 DEF IInv, CallsReached
<1>5. drv \in Driver /\ drv.todo \in SUBSET Runs
  BY DEF IInv, TypeOK, Driver
<1>6. CASE open[r] = "closed"
  <2>1. /\ UNCHANGED agent
        /\ goals' = [goals EXCEPT ![r] = NoRun]
        /\ drv' = IF drv.todo = {r} THEN AtRest ELSE [drv EXCEPT !.todo = @ \ {r}]
    BY <1>6 DEF DriverPick
  <2>2. /\ drv' \in Driver /\ drv'.pc \in {"idle", "pick"}
        /\ drv'.todo \subseteq drv.todo \ {r}
    BY <1>1, <1>5, <2>1, Records DEF Driver
  <2>3. \A x \in Runs :
           goals'[x] = goals[x] \/ (x = r /\ goals'[x].st = "none")
    BY <2>1, Records DEF IInv, TypeOK
  <2>4. TypeOK'
    BY <1>1, <2>1, <2>2, Records DEF IInv, TypeOK
  <2>5. RunsReached'
    BY <1>1, <1>3, <2>1, <2>3 DEF IInv, RunsReached, Registered
  <2>6. DriverReached'
    BY <1>1, <1>5, <2>2, <2>3 DEF IInv, DriverReached, Registered
  <2>7. TerminalIsAnnounced'
    BY <1>1, <2>3 DEF IInv, TerminalIsAnnounced, Terminal
  <2> QED BY <1>3, <1>4, <2>4, <2>5, <2>6, <2>7 DEF IInv
<1>7. CASE open[r] # "closed"
  <2>1. /\ UNCHANGED goals
        /\ drv' = [pc |-> "file", r |-> r, n |-> 0, snap |-> goals[r],
                   todo |-> drv.todo \ {r}]
        /\ agent' = agent \/ agent' = [agent EXCEPT ![r] = "working"]
    BY <1>7 DEF DriverPick
  <2>2. goals[r] \in GoalRun /\ goals[r].nudges \in Nat
    BY LimitsAssumption DEF IInv, TypeOK, GoalRun
  <2>3. TypeOK'
    <3>1. drv' \in Driver
      BY <1>5, <2>1, <2>2 DEF Driver
    <3>2. agent' \in [Runs -> {"none", "working", "idle", "menu", "exited"}]
      BY <2>1 DEF IInv, TypeOK
    <3> QED BY <1>1, <2>1, <3>1, <3>2 DEF IInv, TypeOK
  <2>4. RunsReached'
    <3>1. \A x \in Runs : open[x] = "new" => agent'[x] = agent[x]
      BY <1>2, <2>1 DEF IInv, TypeOK
    <3> QED BY <1>1, <1>3, <2>1, <3>1 DEF IInv, RunsReached, Registered
  <2>5. DriverReached'
    <3>1. /\ drv'.pc = "file" /\ drv'.r = r /\ drv'.snap = goals[r]
          /\ drv'.todo \subseteq drv.todo
      BY <2>1
    <3>2. goals[r].iter \in Iterations
      BY <1>2 DEF IInv, RunsReached, Reached
    <3> QED BY <1>1, <1>2, <2>1, <2>2, <3>1, <3>2 DEF IInv, DriverReached, Registered
  <2>6. TerminalIsAnnounced'
    BY <1>1, <2>1 DEF IInv, TerminalIsAnnounced
  <2> QED BY <1>3, <1>4, <2>3, <2>4, <2>5, <2>6 DEF IInv
<1> QED BY <1>6, <1>7

\* What the driver holds when it is between two runs' visits.
LEMMA DriverHolds ==
  ASSUME IInv, drv.pc \in {"file", "send", "commit", "screen"}
  PROVE  /\ drv \in Driver
         /\ drv.r \in Runs /\ drv.snap \in GoalRun /\ goals[drv.r] \in GoalRun
         /\ Registered(drv.r)
         /\ Reached(drv.r, goals[drv.r].iter)
         /\ drv.snap.iter \in Iterations
         /\ goals[drv.r].nudges <= drv.snap.nudges
         /\ drv.snap.nudges \in 0..Budget /\ goals[drv.r].nudges \in 0..Budget
<1>1. drv \in Driver /\ drv.r \in Runs /\ drv.snap \in GoalRun
  BY DEF IInv, TypeOK, Driver
<1>2. goals[drv.r] \in GoalRun
  BY <1>1 DEF IInv, TypeOK
<1>3. drv.snap.nudges \in 0..Budget /\ goals[drv.r].nudges \in 0..Budget
  BY <1>1, <1>2 DEF GoalRun
<1> QED BY <1>1, <1>2, <1>3 DEF IInv, DriverReached, RunsReached

\* The driver goes on with the same run: only its own record, and perhaps the
\* queue of prompts, change.
LEMMA DriverGoesOn ==
  ASSUME IInv, NEW pc \in {"send", "commit", "screen"}, NEW n \in Iterations \cup {0},
         drv.pc \in {"file", "send"},
         drv' = [drv EXCEPT !.pc = pc, !.n = n],
         pc = "send" => Reached(drv.r, n),
         pc = "commit" => Reached(drv.r, n + 1),
         inbox' \in [Runs -> Seq(Iterations)],
         \A x \in Runs : \A i \in 1..Len(inbox'[x]) : Reached(x, inbox'[x][i]),
         UNCHANGED <<driven, world, call, served, strayed>>
  PROVE  IInv'
<1>1. UNCHANGED <<goals, quiet, told, verdict, open, file, agent, task, hibernated,
                 expired, call, served, strayed>>
  BY DEF driven, world
<1>2. /\ drv' \in Driver /\ drv'.pc = pc /\ drv'.n = n /\ drv'.r = drv.r
      /\ drv'.snap = drv.snap /\ drv'.todo = drv.todo
  <2>1. drv \in Driver
    BY DEF IInv, TypeOK
  <2> QED BY <2>1 DEF Driver
<1>3. NoGaps' /\ \A x, k : Reached(x, k)' <=> Reached(x, k)
  BY <1>1 DEF IInv, NoGaps, Reached, Report
<1>4. TypeOK'
  BY <1>1, <1>2 DEF IInv, TypeOK
<1>5. RunsReached'
  BY <1>1, <1>3 DEF IInv, RunsReached, Registered
<1>6. DriverReached'
  <2>1. drv.todo \in SUBSET Runs
    BY DEF IInv, TypeOK, Driver
  <2> QED BY <1>1, <1>2, <1>3, <2>1 DEF IInv, DriverReached, Registered
<1>7. CallsReached' /\ TerminalIsAnnounced'
  BY <1>1, <1>3 DEF IInv, CallsReached, TerminalIsAnnounced
<1> QED BY <1>3, <1>4, <1>5, <1>6, <1>7 DEF IInv

\* on_iteration_file.
LEMMA DriverFileKeeps == ASSUME IInv, DriverFile PROVE IInv'
<1>1. /\ drv.pc = "file"
      /\ UNCHANGED <<world, inbox, call, served, strayed>>
  BY DEF DriverFile
<1>2. /\ drv.r \in Runs /\ Reached(drv.r, goals[drv.r].iter)
      /\ drv \in Driver
  BY <1>1, DriverHolds
<1>3. CASE Finish(drv.r, FALSE) /\ NextRun
  BY <1>1, <1>2, <1>3, FinishKept, DriverWrites
<1>4. CASE \E s \in Attention \cup Terminal : Escalate(drv.r, s) /\ NextRun
  BY <1>1, <1>2, <1>4, PlainEscalateKept, DriverWrites
<1>5. CASE drv' = [drv EXCEPT !.pc = "send", !.n = goals[drv.r].iter] /\ UNCHANGED driven
  <2>1. inbox' \in [Runs -> Seq(Iterations)]
    BY <1>1 DEF IInv, TypeOK
  <2>2. \A x \in Runs : \A i \in 1..Len(inbox'[x]) : Reached(x, inbox'[x][i])
    BY <1>1 DEF IInv, RunsReached
  <2>3. goals[drv.r].iter \in Iterations
    BY <1>2 DEF Reached
  <2> QED BY <1>1, <1>2, <1>5, <2>1, <2>2, <2>3, DriverGoesOn
<1>6. CASE drv' = [drv EXCEPT !.pc = "screen"] /\ UNCHANGED driven
  <2>1. inbox' \in [Runs -> Seq(Iterations)]
    BY <1>1 DEF IInv, TypeOK
  <2>2. \A x \in Runs : \A i \in 1..Len(inbox'[x]) : Reached(x, inbox'[x][i])
    BY <1>1 DEF IInv, RunsReached
  <2>3. drv.n \in Iterations \cup {0} /\ drv' = [drv EXCEPT !.pc = "screen", !.n = drv.n]
    BY <1>2, <1>6 DEF Driver
  <2> QED BY <1>1, <2>1, <2>2, <2>3, <1>6, DriverGoesOn
<1>7. {"noStatus", "odd", "unfinished"} \subseteq Attention \cup Terminal
  BY DEF Attention, Terminal
<1> QED BY <1>3, <1>4, <1>5, <1>6, <1>7 DEF DriverFile

\* advance_iteration's guards: an iteration with a report can be followed by
\* another one.
LEMMA AdvanceReaches ==
  ASSUME IInv, NEW r \in Runs, NEW n, Reached(r, n), CanAdvance(r, n)
  PROVE  Reached(r, n + 1)
<1>1. n \in Iterations /\ Report(r, n) # "missing"
  BY DEF CanAdvance, Reached
<1>2. DirOf[r] \in Dirs
  BY RunsAssumption
<1>3. n # MaxIter + 1
  BY <1>1, <1>2 DEF IInv, NoGaps, Report
<1>4. n + 1 \in Iterations
  BY <1>1, <1>3, LimitsAssumption DEF Iterations
<1>5. \A m \in 1..n : m = n \/ m \in 1..(n - 1)
  BY <1>1 DEF Iterations
<1> QED BY <1>1, <1>4, <1>5 DEF Reached, Iterations

\* The prompt for iteration n + 1 is queued.
LEMMA PromptQueued ==
  ASSUME IInv, NEW r \in Runs, NEW n, Reached(r, n + 1), SendPrompt(r, n)
  PROVE  /\ inbox' \in [Runs -> Seq(Iterations)]
         /\ \A x \in Runs : \A i \in 1..Len(inbox'[x]) : Reached(x, inbox'[x][i])
<1>1. n + 1 \in Iterations /\ inbox \in [Runs -> Seq(Iterations)]
  BY DEF Reached, IInv, TypeOK
<1>2. /\ inbox' = [inbox EXCEPT ![r] = Append(inbox[r], n + 1)]
      /\ Append(inbox[r], n + 1) \in Seq(Iterations)
  BY <1>1 DEF SendPrompt
<1>3. \A i \in 1..Len(inbox'[r]) : Reached(r, inbox'[r][i])
  <2> SUFFICES ASSUME NEW i \in 1..Len(inbox'[r]) PROVE Reached(r, inbox'[r][i])
    OBVIOUS
  <2>1. inbox'[r] = Append(inbox[r], n + 1) /\ inbox[r] \in Seq(Iterations)
    BY <1>1, <1>2
  <2>2. CASE i \in 1..Len(inbox[r])
    <3>1. inbox'[r][i] = inbox[r][i]
      BY <2>1, <2>2
    <3> QED BY <2>2, <3>1 DEF IInv, RunsReached
  <2>3. CASE i \notin 1..Len(inbox[r])
    <3>1. inbox'[r][i] = n + 1
      BY <2>1, <2>3
    <3> QED BY <3>1
  <2> QED BY <2>2, <2>3
<1>4. \A x \in Runs \ {r} : inbox'[x] = inbox[x]
  BY <1>1, <1>2
<1> QED BY <1>1, <1>2, <1>3, <1>4 DEF IInv, RunsReached

LEMMA DriverSendKeeps == ASSUME IInv, DriverSend PROVE IInv'
<1>1. /\ drv.pc = "send"
      /\ UNCHANGED <<driven, world, call, served, strayed>>
  BY DEF DriverSend
<1>2. drv \in Driver /\ drv.r \in Runs /\ Reached(drv.r, drv.n)
  BY <1>1, DriverHolds DEF IInv, DriverReached
<1>3. CASE CanAdvance(drv.r, drv.n)
  <2>1. Reached(drv.r, drv.n + 1)
    BY <1>2, <1>3, AdvanceReaches
  <2>2. SendPrompt(drv.r, drv.n) /\ drv' = [drv EXCEPT !.pc = "commit"]
    BY <1>3 DEF DriverSend
  <2>3. drv.n \in Iterations \cup {0} /\ drv' = [drv EXCEPT !.pc = "commit", !.n = drv.n]
    BY <1>2, <2>2 DEF Driver
  <2> QED BY <1>1, <1>2, <2>1, <2>2, <2>3, PromptQueued, DriverGoesOn
<1>4. CASE ~CanAdvance(drv.r, drv.n)
  BY <1>1, <1>4, NothingKept, DriverWrites DEF DriverSend
<1> QED BY <1>3, <1>4

LEMMA DriverCommitKeeps == ASSUME IInv, DriverCommit PROVE IInv'
<1>1. drv.pc = "commit" /\ drv.r \in Runs /\ Reached(drv.r, drv.n + 1)
  BY DriverHolds DEF DriverCommit, IInv, DriverReached
<1>2. drv.n + 1 \in Iterations
  BY <1>1 DEF Reached
<1> QED BY <1>1, <1>2, CommitKept, DriverWrites DEF DriverCommit

-----------------------------------------------------------------------------
(* The driver in front of the screen. *)

\* What the driver writes with set_run: other counters, a calmed status.
LEMMA CountersKept ==
  ASSUME IInv, NEW r \in Runs, NEW g \in GoalRun, Set(r, g),
         g.iter = goals[r].iter, g.st \in Terminal <=> goals[r].st \in Terminal,
         Registered(r) => g.st # "none",
         UNCHANGED <<quiet, told, verdict>>
  PROVE  Kept
<1>1. /\ goals' \in [Runs -> GoalRun]
      /\ Registered(r) => goals'[r] = g
      /\ ~Registered(r) => goals'[r] = goals[r]
      /\ \A x \in Runs \ {r} : goals'[x] = goals[x]
  BY SetWrites DEF IInv
<1>2. \A x \in Runs : goals'[x].st = "none" <=> goals[x].st = "none"
  BY <1>1 DEF Registered
<1>3. \A x \in Runs : Registered(x) => Reached(x, goals'[x].iter)
  BY <1>1 DEF IInv, RunsReached
<1>4. TerminalIsAnnounced'
  BY <1>1 DEF IInv, TerminalIsAnnounced
<1> QED BY <1>1, <1>2, <1>3, <1>4 DEF Kept, IInv, TypeOK

\* Read and Calm change counters and calm a status, no more.
LEMMA CalmChanges ==
  ASSUME NEW g \in GoalRun
  PROVE  /\ Calm(g) \in GoalRun
         /\ Calm(g).iter = g.iter /\ Calm(g).nudges = g.nudges
         /\ Calm(g).st \in Terminal <=> g.st \in Terminal
         /\ Calm(g).st = "none" <=> g.st = "none"
<1>1. PICK s : s = IF g.st \in Attention THEN "running" ELSE g.st
  OBVIOUS
<1>2. s \in GoalStatus /\ (s \in Terminal <=> g.st \in Terminal) /\ (s = "none" <=> g.st = "none")
  BY <1>1 DEF GoalRun, GoalStatus, Attention, Terminal
<1>3. Calm(g) = [g EXCEPT !.st = s]
  BY <1>1 DEF Calm
<1> QED BY <1>2, <1>3 DEF GoalRun

LEMMA ReadChanges ==
  ASSUME IInv, drv.pc = "screen", NEW r, r = drv.r
  PROVE  /\ Read(r) \in GoalRun
         /\ Read(r).iter = goals[r].iter /\ Read(r).nudges = goals[r].nudges
         /\ Read(r).st \in Terminal <=> goals[r].st \in Terminal
         /\ Registered(r) => Read(r).st # "none"
<1>1. goals[r] \in GoalRun /\ Registered(r)
  BY DriverHolds
<1>2. PICK g : g = [goals[r] EXCEPT !.noText = 0]
  OBVIOUS
<1>3. g \in GoalRun /\ g.iter = goals[r].iter /\ g.nudges = goals[r].nudges /\ g.st = goals[r].st
  BY <1>1, <1>2, LimitsAssumption DEF GoalRun
<1>4. Read(r) = goals[r] \/ Read(r) = Calm(g)
  BY <1>2 DEF Read
<1> QED BY <1>1, <1>3, <1>4, CalmChanges DEF Registered

\* drive_one's ways through the screen: each is a write to the run, or none.
LEMMA ScreenKeeps ==
  ASSUME IInv,
         \/ DriverSkips \/ DriverTimesOut \/ DriverReadsNothing
         \/ DriverSeesMenu \/ DriverSeesWork \/ DriverWaits
         \/ DriverSeesExit \/ DriverGivesUp \/ DriverNudges
  PROVE  IInv'
<1> DEFINE r == drv.r
<1>1. AtScreen /\ drv.pc = "screen"
  BY DEF DriverSkips, DriverTimesOut, DriverReadsNothing, DriverSeesMenu, DriverSeesWork,
         DriverWaits, DriverSeesExit, DriverGivesUp, DriverNudges, SeesIdle, AtScreen
<1>2. SUFFICES Kept
  BY <1>1, DriverWrites DEF AtScreen
<1>3. /\ r \in Runs /\ goals[r] \in GoalRun /\ Registered(r)
      /\ drv.snap \in GoalRun
      /\ goals[r].nudges <= drv.snap.nudges
      /\ drv.snap.nudges \in 0..Budget /\ goals[r].nudges \in 0..Budget
  BY <1>1, DriverHolds
<1>4. PICK g : g = Read(r)
  OBVIOUS
<1>5. /\ g \in GoalRun /\ g.iter = goals[r].iter /\ g.nudges = goals[r].nudges
      /\ g.st \in Terminal <=> goals[r].st \in Terminal
      /\ Registered(r) => g.st # "none"
  BY <1>1, <1>4, ReadChanges
<1>6. {"unreadable", "prompt", "stalled", "time", "exited"} \subseteq Attention \cup Terminal
  BY DEF Attention, Terminal
<1> HIDE DEF r
<1>7. CASE DriverSkips
  BY <1>7, NothingKept DEF DriverSkips
<1>8. CASE DriverTimesOut
  BY <1>3, <1>6, <1>8, PlainEscalateKept DEF DriverTimesOut, r
<1>9. CASE DriverReadsNothing
  <2>1. PICK t : t = IF drv.snap.noText > NoTextLimit THEN drv.snap.noText
                     ELSE drv.snap.noText + 1
    OBVIOUS
  <2>2. t \in 0..(NoTextLimit + 1)
    BY <1>3, <2>1, LimitsAssumption DEF GoalRun
  <2>3. PICK e : e = [goals[r] EXCEPT !.noText = t]
    OBVIOUS
  <2>4. e \in GoalRun /\ e.iter = goals[r].iter /\ e.st = goals[r].st
    BY <1>3, <2>2, <2>3 DEF GoalRun
  <2>5. \/ EscalateFrom(r, e, "unreadable")
        \/ Set(r, e) /\ UNCHANGED <<quiet, told, verdict>>
    BY <1>9, <2>1, <2>3, Zenon DEF DriverReadsNothing, r
  <2> QED BY <1>3, <1>6, <2>4, <2>5, EscalateKept, CountersKept DEF Registered
<1>10. CASE DriverSeesMenu
  BY <1>3, <1>4, <1>5, <1>6, <1>10, EscalateKept DEF DriverSeesMenu, r
<1>11. CASE DriverSeesWork
  <2>1. PICK e : e = [g EXCEPT !.idle = 0]
    OBVIOUS
  <2>2. e \in GoalRun /\ e.iter = g.iter /\ e.st = g.st
    BY <1>5, <2>1, LimitsAssumption DEF GoalRun
  <2>3. Set(r, Calm(e)) /\ UNCHANGED <<quiet, told, verdict>>
    BY <1>4, <1>11, <2>1 DEF DriverSeesWork, r
  <2>4. PICK c : c = Calm(e)
    OBVIOUS
  <2>5. /\ c \in GoalRun /\ c.iter = goals[r].iter
        /\ c.st \in Terminal <=> goals[r].st \in Terminal
        /\ Registered(r) => c.st # "none"
    BY <1>5, <2>2, <2>4, CalmChanges
  <2> QED BY <1>3, <2>3, <2>4, <2>5, CountersKept
<1>12. CASE DriverWaits
  <2>1. PICK e : e = [g EXCEPT !.idle = drv.snap.idle + 1]
    OBVIOUS
  <2>2. drv.snap.idle + 1 \in 0..(IdleLimit - 1)
    BY <1>3, <1>12, LimitsAssumption DEF DriverWaits, LongIdle, GoalRun
  <2>3. e \in GoalRun /\ e.iter = g.iter /\ e.st = g.st
    BY <1>5, <2>1, <2>2 DEF GoalRun
  <2>4. Set(r, e) /\ UNCHANGED <<quiet, told, verdict>>
    BY <1>4, <1>12, <2>1 DEF DriverWaits, r
  <2> QED BY <1>3, <1>5, <2>3, <2>4, CountersKept
<1>13. CASE DriverSeesExit
  BY <1>3, <1>4, <1>5, <1>6, <1>13, EscalateKept DEF DriverSeesExit, r
<1>14. CASE DriverGivesUp
  BY <1>3, <1>4, <1>5, <1>6, <1>14, EscalateKept DEF DriverGivesUp, r
<1>15. CASE DriverNudges
  <2>0. PICK k : k = g.nudges + 1
    OBVIOUS
  <2>1. PICK e : e = [g EXCEPT !.nudges = k, !.idle = 0]
    OBVIOUS
  <2>2. k \in 0..Budget /\ 0 \in 0..(IdleLimit - 1)
    BY <1>3, <1>5, <1>15, <2>0, LimitsAssumption DEF DriverNudges, Spent
  <2>3. e \in GoalRun /\ e.iter = g.iter /\ e.st = g.st
    BY <1>5, <2>1, <2>2 DEF GoalRun
  <2>4. Set(r, e) /\ UNCHANGED <<quiet, told, verdict>>
    BY <1>4, <1>15, <2>0, <2>1 DEF DriverNudges, r
  <2> QED BY <1>3, <1>5, <2>3, <2>4, CountersKept
<1> QED BY <1>7, <1>8, <1>9, <1>10, <1>11, <1>12, <1>13, <1>14, <1>15

LEMMA DriverKeeps == ASSUME IInv, DriverStep PROVE IInv'
BY DriverTickKeeps, DriverPickKeeps, DriverFileKeeps, DriverSendKeeps, DriverCommitKeeps,
   ScreenKeeps DEF DriverStep

-----------------------------------------------------------------------------
(* Socket handlers. *)

\* A request reads the run it is about.
LEMMA BeginKeeps ==
  ASSUME IInv, NEW h \in Handlers, NEW op \in {"complete", "continue"},
         NEW r \in Runs, NEW done \in BOOLEAN, Begin(h, op, r, done)
  PROVE  IInv'
<1>1. /\ UNCHANGED <<goals, quiet, told, verdict, open, file, agent, task, hibernated,
                     expired, inbox, drv, strayed>>
      /\ Registered(r) /\ served' = served + 1 /\ served < MaxCalls
  BY DEF Begin, driven, world
<1>2. PICK c : c = [op |-> op, r |-> r, n |-> goals[r].iter, done |-> done]
  OBVIOUS
<1>3. Reached(r, goals[r].iter)
  BY <1>1 DEF IInv, RunsReached
<1>4. c \in Call /\ c.op = op /\ c.r = r /\ c.n = goals[r].iter
  BY <1>2, <1>3 DEF Call, Reached
<1>5. /\ call' \in [Handlers -> Call] /\ call'[h] = c
      /\ \A k \in Handlers \ {h} : call'[k] = call[k]
  BY <1>2, <1>4 DEF Begin, IInv, TypeOK
<1>6. NoGaps' /\ \A x, k : Reached(x, k)' <=> Reached(x, k)
  BY <1>1 DEF IInv, NoGaps, Reached, Report
<1>7. TypeOK'
  BY <1>1, <1>5, LimitsAssumption DEF IInv, TypeOK
<1>8. RunsReached' /\ DriverReached'
  BY <1>1, <1>6 DEF IInv, RunsReached, DriverReached, Registered
<1>9. CallsReached'
  BY <1>3, <1>4, <1>5, <1>6 DEF IInv, CallsReached
<1>10. TerminalIsAnnounced'
  BY <1>1 DEF IInv, TerminalIsAnnounced
<1> QED BY <1>6, <1>7, <1>8, <1>9, <1>10 DEF IInv

\* What a handler carries, and how it ends.
LEMMA CallHolds ==
  ASSUME IInv, NEW h \in Handlers
  PROVE  call[h] \in Call /\ call[h].r \in Runs /\ call[h].done \in BOOLEAN
BY DEF IInv, TypeOK, Call

LEMMA EndTyped ==
  ASSUME IInv, NEW h \in Handlers, End(h)
  PROVE  /\ call' \in [Handlers -> Call]
         /\ \A k \in Handlers : call'[k] = call[k] \/ call'[k] = Idle
BY Records DEF End, IInv, TypeOK

LEMMA CompleteWriteKeeps == ASSUME IInv, NEW h \in Handlers, CompleteWrite(h) PROVE IInv'
<1>1. End(h) /\ UNCHANGED <<world, inbox, drv, served, strayed>>
  BY DEF CompleteWrite
<1>2. (\E v \in BOOLEAN : Finish(call[h].r, v)) \/ UNCHANGED driven
  BY DEF CompleteWrite
<1> QED BY <1>1, <1>2, CallHolds, EndTyped, FinishKept, NothingKept, HandlerWrites

LEMMA ContinueSendKeeps == ASSUME IInv, NEW h \in Handlers, ContinueSend(h) PROVE IInv'
<1> DEFINE r == call[h].r
           n == call[h].n
<1>1. /\ call[h].op = "continue"
      /\ UNCHANGED <<driven, world, drv, served, strayed>>
  BY DEF ContinueSend
<1>2. r \in Runs /\ Reached(r, n)
  BY <1>1, CallHolds DEF IInv, CallsReached
<1>3. CASE CanAdvance(r, n)
  <2>1. Reached(r, n + 1)
    BY <1>2, <1>3, AdvanceReaches
  <2>2. SendPrompt(r, n) /\ call' = [call EXCEPT ![h].op = "commit"]
    BY <1>3 DEF ContinueSend
  <2>3. /\ inbox' \in [Runs -> Seq(Iterations)]
        /\ \A x \in Runs : \A i \in 1..Len(inbox'[x]) : Reached(x, inbox'[x][i])
    BY <1>2, <2>1, <2>2, PromptQueued
  <2>4. /\ call' \in [Handlers -> Call]
        /\ call'[h].op = "commit" /\ call'[h].r = r /\ call'[h].n = n
        /\ \A k \in Handlers \ {h} : call'[k] = call[k]
    BY <2>2, CallHolds DEF IInv, TypeOK, Call
  <2>5. UNCHANGED <<goals, quiet, told, verdict, open, file, agent, task, hibernated,
                   expired, drv, served, strayed>>
    BY <1>1 DEF driven, world
  <2>6. NoGaps' /\ \A x, k : Reached(x, k)' <=> Reached(x, k)
    BY <2>5 DEF IInv, NoGaps, Reached, Report
  <2> HIDE DEF r, n
  <2>7. TypeOK'
    BY <2>3, <2>4, <2>5 DEF IInv, TypeOK
  <2>8. RunsReached' /\ DriverReached'
    BY <2>3, <2>5, <2>6 DEF IInv, RunsReached, DriverReached, Registered
  <2>9. CallsReached'
    BY <2>1, <2>4, <2>6 DEF IInv, CallsReached
  <2>10. TerminalIsAnnounced'
    BY <2>5 DEF IInv, TerminalIsAnnounced
  <2> QED BY <2>6, <2>7, <2>8, <2>9, <2>10 DEF IInv
<1>4. CASE ~CanAdvance(r, n)
  BY <1>1, <1>4, EndTyped, NothingKept, HandlerWrites DEF ContinueSend
<1> QED BY <1>3, <1>4

LEMMA ContinueCommitKeeps == ASSUME IInv, NEW h \in Handlers, ContinueCommit(h) PROVE IInv'
<1>1. Reached(call[h].r, call[h].n + 1) /\ call[h].n + 1 \in Iterations
  BY DEF ContinueCommit, IInv, CallsReached, Reached
<1> QED BY <1>1, CallHolds, EndTyped, CommitKept, HandlerWrites DEF ContinueCommit

\* goal.accept and goal.stop.
LEMMA VerdictKeeps ==
  ASSUME IInv, NEW r \in Runs, GoalAccept(r) \/ GoalStop(r)
  PROVE  IInv'
<1>1. call' \in [Handlers -> Call] /\ UNCHANGED call
  BY DEF GoalAccept, GoalStop, IInv, TypeOK
<1>2. CASE GoalAccept(r)
  BY <1>1, <1>2, FinishKept, HandlerWrites DEF GoalAccept
<1>3. CASE GoalStop(r)
  BY <1>1, <1>3, AnnounceKept, HandlerWrites DEF GoalStop
<1> QED BY <1>2, <1>3

-----------------------------------------------------------------------------
(* Launch, and the world. *)

\* The numbers of the reports in a directory have a greatest one.
LEMMA LastExists ==
  ASSUME NEW W \in SUBSET Iterations
  PROVE  \E n \in W \cup {0} : \A m \in W : m <= n
<1> DEFINE R == {p \in Nat \X Nat : p[1] < p[2]}
           B == {b \in Nat : \A m \in W : m <= b}
<1>1. IsWellFoundedOn(R, Nat)
  BY NatLessThanWellFounded DEF OpToRel
<1>2. MaxIter + 1 \in B
  BY LimitsAssumption DEF Iterations
<1>3. B \subseteq Nat
  OBVIOUS
<1> HIDE DEF B
<1>4. PICK b \in B : \A c \in B : <<c, b>> \notin R
  BY <1>1, <1>2, <1>3, WFMin
<1>5. ASSUME NEW c \in B
      PROVE  b <= c
  <2> DEFINE p == <<c, b>>
  <2>1. p \in Nat \X Nat /\ p[1] = c /\ p[2] = b
    BY <1>3
  <2>2. p \notin R
    BY <1>4
  <2> HIDE DEF p
  <2> QED BY <1>3, <2>1, <2>2
<1>6. \A m \in W : m \in Nat \ {0} /\ m <= b
  BY LimitsAssumption DEF B, Iterations
<1>7. b \in W \cup {0}
  <2> SUFFICES ASSUME b \notin W, b # 0 PROVE FALSE
    OBVIOUS
  <2>1. b - 1 \in Nat /\ b \in Nat
    BY <1>3
  <2>2. \A m \in W : m <= b - 1
    BY <1>6, <2>1
  <2>3. b - 1 \in B
    BY <2>1, <2>2 DEF B
  <2> QED BY <1>5, <2>1, <2>3
<1> QED BY <1>6, <1>7

\* next_iteration_number: with no gap in the reports, nothing is skipped.
LEMMA NextIsReached ==
  ASSUME IInv, NEW r \in Runs
  PROVE  Reached(r, NextIteration(DirOf[r]))
<1> DEFINE d == DirOf[r]
           W == Written(d)
           l == LastIteration(d)
<1>1. d \in Dirs
  BY RunsAssumption
<1>2. W \subseteq Iterations /\ \A n \in Iterations : n \in W <=> file[d][n].kind # "missing"
  BY DEF Written
<1>3. l \in W \cup {0} /\ \A m \in W : m <= l
  <2>1. \E n \in W \cup {0} : \A m \in W : m <= n
    BY <1>2, LastExists
  <2> QED BY <2>1 DEF LastIteration
<1>4. NextIteration(d) = l + 1
  BY DEF NextIteration
<1>5. MaxIter + 1 \notin W
  BY <1>1, <1>2, LimitsAssumption DEF IInv, NoGaps, Iterations
<1> HIDE DEF d, W, l
<1>6. l + 1 \in Iterations /\ l \in Nat
  BY <1>2, <1>3, <1>5, LimitsAssumption DEF Iterations
<1>7. ASSUME NEW m \in 1..l
      PROVE  file[d][m].kind # "missing"
  <2>1. l \in Iterations /\ file[d][l].kind # "missing"
    BY <1>2, <1>3, <1>6
  <2>2. m = l \/ m \in 1..(l - 1)
    BY <1>6
  <2> QED BY <1>1, <2>1, <2>2 DEF IInv, NoGaps
<1> QED BY <1>4, <1>6, <1>7 DEF Reached, Report, d

LEMMA LaunchKeeps == ASSUME IInv, NEW r \in Runs, Launch(r) PROVE IInv'
<1> DEFINE n == NextIteration(DirOf[r])
<1>1. /\ UNCHANGED <<quiet, told, verdict, file, agent, hibernated, expired, inbox,
                     drv, call, served, strayed>>
      /\ open[r] = "new"
      /\ goals' = [goals EXCEPT ![r] = NewRun(n)]
      /\ open' = [open EXCEPT ![r] = "open"]
      /\ task' = [task EXCEPT ![r] = n]
  BY DEF Launch
<1>2. Reached(r, n) /\ n \in Iterations
  BY NextIsReached DEF Reached
<1> HIDE DEF n
<1>3. ~Registered(r)
  BY <1>1 DEF IInv, RunsReached
<1>4. PICK g : g = NewRun(n)
  OBVIOUS
<1>5. g \in GoalRun /\ g.iter = n /\ g.st = "running"
  BY <1>2, <1>4, LimitsAssumption DEF NewRun, GoalRun, GoalStatus
<1>6. /\ goals' \in [Runs -> GoalRun] /\ goals'[r] = g /\ open'[r] = "open" /\ task'[r] = n
      /\ \A x \in Runs \ {r} : goals'[x] = goals[x] /\ open'[x] = open[x] /\ task'[x] = task[x]
  BY <1>1, <1>4, <1>5 DEF IInv, TypeOK
<1>7. NoGaps' /\ \A x, k : Reached(x, k)' <=> Reached(x, k)
  BY <1>1 DEF IInv, NoGaps, Reached, Report
<1>8. TypeOK'
  BY <1>1, <1>2, <1>6 DEF IInv, TypeOK
<1>9. RunsReached'
  BY <1>1, <1>2, <1>5, <1>6, <1>7 DEF IInv, RunsReached, Registered
<1>10. DriverReached'
  <2>1. drv.todo \in SUBSET Runs /\ drv.r \in Runs
    BY DEF IInv, TypeOK, Driver
  <2>2. drv.pc \in {"file", "send", "commit", "screen"} => drv.r # r
    BY <1>3 DEF IInv, DriverReached
  <2>3. drv.pc # "idle" => r \notin drv.todo
    BY <1>3 DEF IInv, DriverReached
  <2> QED BY <1>1, <1>6, <1>7, <2>1, <2>2, <2>3 DEF IInv, DriverReached, Registered
<1>11. CallsReached'
  BY <1>1, <1>7 DEF IInv, CallsReached
<1>12. TerminalIsAnnounced'
  BY <1>1, <1>5, <1>6 DEF IInv, TerminalIsAnnounced, Terminal
<1> QED BY <1>7, <1>8, <1>9, <1>10, <1>11, <1>12 DEF IInv

\* Steps of the world that leave the registry and the reports alone.
LEMMA WorldKeeps ==
  ASSUME IInv, TypeOK',
         UNCHANGED <<goals, file, drv, call, told>>,
         NEW r \in Runs,
         \A x \in Runs \ {r} : /\ open'[x] = open[x] /\ task'[x] = task[x]
                               /\ agent'[x] = agent[x] /\ inbox'[x] = inbox[x],
         open'[r] = "new" <=> open[r] = "new",
         open[r] = "new" => agent'[r] = "none",
         open[r] # "new" => Reached(r, task'[r]),
         \A i \in 1..Len(inbox'[r]) : Reached(r, inbox'[r][i])
  PROVE  IInv'
<1>1. NoGaps' /\ \A x, k : Reached(x, k)' <=> Reached(x, k)
  BY DEF IInv, NoGaps, Reached, Report
<1>2. RunsReached'
  BY <1>1 DEF IInv, RunsReached, Registered
<1>3. DriverReached' /\ CallsReached' /\ TerminalIsAnnounced'
  BY <1>1 DEF IInv, DriverReached, CallsReached, TerminalIsAnnounced, Registered
<1> QED BY <1>1, <1>2, <1>3 DEF IInv

LEMMA DeliverPromptKeeps == ASSUME IInv, NEW r \in Runs, DeliverPrompt(r) PROVE IInv'
<1> DEFINE n == Head(inbox[r])
<1>1. /\ inbox[r] # <<>> /\ inbox' = [inbox EXCEPT ![r] = Tail(inbox[r])]
      /\ UNCHANGED <<driven, open, file, hibernated, expired, drv, call, served>>
      /\ strayed' = (strayed \/ agent[r] = "exited")
  BY DEF DeliverPrompt
<1>2. \/ /\ agent[r] # "none"
         /\ task' = [task EXCEPT ![r] = n]
         /\ agent' = [agent EXCEPT ![r] = IF @ = "idle" THEN "working" ELSE @]
      \/ UNCHANGED <<task, agent>>
  BY DEF DeliverPrompt
<1>3. inbox[r] \in Seq(Iterations) /\ inbox \in [Runs -> Seq(Iterations)]
  BY DEF IInv, TypeOK
<1>4. n = inbox[r][1] /\ 1 \in 1..Len(inbox[r])
  BY <1>1, <1>3
<1>5. Reached(r, n) /\ n \in Iterations
  BY <1>4 DEF IInv, RunsReached, Reached
<1>6. /\ inbox'[r] = Tail(inbox[r]) /\ inbox' \in [Runs -> Seq(Iterations)]
      /\ \A x \in Runs \ {r} : inbox'[x] = inbox[x]
      /\ \A i \in 1..Len(inbox'[r]) : /\ i + 1 \in 1..Len(inbox[r])
                                      /\ inbox'[r][i] = inbox[r][i + 1]
  BY <1>1, <1>3
<1> HIDE DEF n
<1>7. \A i \in 1..Len(inbox'[r]) : Reached(r, inbox'[r][i])
  BY <1>6 DEF IInv, RunsReached
<1>8. /\ task' \in [Runs -> Iterations \cup {0}]
      /\ agent' \in [Runs -> {"none", "working", "idle", "menu", "exited"}]
      /\ \A x \in Runs \ {r} : task'[x] = task[x] /\ agent'[x] = agent[x]
      /\ task'[r] = task[r] \/ task'[r] = n
      /\ agent[r] = "none" => agent'[r] = "none"
  BY <1>2, <1>5 DEF IInv, TypeOK
<1>9. TypeOK'
  BY <1>1, <1>6, <1>8 DEF IInv, TypeOK, driven
<1>10. open[r] # "new" => Reached(r, task'[r])
  BY <1>5, <1>8 DEF IInv, RunsReached
<1>11. open[r] = "new" => agent'[r] = "none"
  BY <1>8 DEF IInv, RunsReached
<1> QED BY <1>1, <1>6, <1>7, <1>8, <1>9, <1>10, <1>11, WorldKeeps DEF driven

\* The steps that change what the screen shows, or a clock.
LEMMA PaneKeeps ==
  ASSUME IInv, NEW r \in Runs,
         \/ \E m \in AgentMoves : AgentTurns(r, m)
         \/ CloseWorkspace(r) \/ ToggleHibernation(r)
         \/ ClockExpires(r) \/ MinutePasses(r)
  PROVE  IInv'
<1>1. UNCHANGED <<goals, told, verdict, file, task, inbox, drv, call, served, strayed>>
  BY DEF AgentTurns, CloseWorkspace, ToggleHibernation, ClockExpires, MinutePasses, driven, world
<1>2. /\ TypeOK'
      /\ \A x \in Runs \ {r} : open'[x] = open[x] /\ agent'[x] = agent[x]
      /\ open'[r] = "new" <=> open[r] = "new"
      /\ open[r] = "new" => agent'[r] = agent[r]
  <2> USE <1>1 DEF IInv, TypeOK
  <2>1. CASE \E m \in AgentMoves : AgentTurns(r, m)
    BY <2>1 DEF AgentMoves, AgentTurns, driven
  <2>2. CASE CloseWorkspace(r)
    BY <2>2 DEF CloseWorkspace, driven
  <2>3. CASE ToggleHibernation(r)
    BY <2>3 DEF ToggleHibernation, driven
  <2>4. CASE ClockExpires(r)
    BY <2>4 DEF ClockExpires, driven
  <2>5. CASE MinutePasses(r)
    BY <2>5 DEF MinutePasses, world
  <2> QED BY <2>1, <2>2, <2>3, <2>4, <2>5
<1>3. /\ open[r] # "new" => Reached(r, task[r])
      /\ open[r] = "new" => agent[r] = "none"
      /\ \A i \in 1..Len(inbox[r]) : Reached(r, inbox[r][i])
  BY DEF IInv, RunsReached
<1> QED BY <1>1, <1>2, <1>3, WorldKeeps

\* An agent writes the report it was asked for: the one step that changes a file.
LEMMA AgentWritesKeeps ==
  ASSUME IInv, NEW r \in Runs, NEW k \in Reports, AgentWrites(r, k)
  PROVE  IInv'
<1> DEFINE d == DirOf[r]
           n == task[r]
           f == [kind |-> k, by |-> file[d][n].by \cup {r}]
<1>1. /\ UNCHANGED <<goals, quiet, told, verdict, open, agent, task, hibernated, expired,
                     inbox, drv, call, served, strayed>>
      /\ agent[r] = "working" /\ n <= MaxIter
      /\ file' = [file EXCEPT ![d][n] = f]
  BY DEF AgentWrites, driven
<1>2. d \in Dirs
  BY RunsAssumption
<1>3. open[r] # "new" /\ Reached(r, n)
  BY <1>1 DEF IInv, RunsReached
<1>4. n \in Iterations
  BY <1>3 DEF Reached
<1>5. k # "missing"
  BY DEF Reports
<1>6. file \in [Dirs -> [Iterations -> File]] /\ f \in File
  BY <1>2, <1>4 DEF IInv, TypeOK, File
<1>7. f.kind = k
  OBVIOUS
<1> HIDE DEF d, n, f
<1>8. /\ file' \in [Dirs -> [Iterations -> File]]
      /\ file'[d][n] = f
      /\ \A c \in Dirs, i \in Iterations : c # d \/ i # n => file'[c][i] = file[c][i]
  BY <1>1, <1>2, <1>4, <1>6
<1>9. FilesGrow
  BY <1>5, <1>7, <1>8 DEF FilesGrow
<1>10. \A x \in Runs : \A i : Reached(x, i) => Reached(x, i)'
  BY <1>9, ReachedStays
<1>11. TypeOK'
  BY <1>1, <1>8 DEF IInv, TypeOK
<1>12. NoGaps'
  <2>1. ASSUME NEW c \in Dirs
        PROVE  file'[c][MaxIter + 1].kind = "missing"
    BY <1>1, <1>4, <1>8, LimitsAssumption DEF IInv, NoGaps, Iterations
  <2>2. ASSUME NEW c \in Dirs, NEW i \in Iterations, file'[c][i].kind # "missing",
               NEW m \in 1..(i - 1)
        PROVE  file'[c][m].kind # "missing"
    <3>1. m \in Iterations
      BY LimitsAssumption DEF Iterations
    <3>2. CASE c = d /\ i = n
      <4>1. file[d][m].kind # "missing"
        BY <1>3, <3>2 DEF Reached, Report, d
      <4> QED BY <1>9, <3>1, <3>2, <4>1 DEF FilesGrow
    <3>3. CASE c # d \/ i # n
      <4>1. file[c][m].kind # "missing"
        BY <1>8, <2>2, <3>3 DEF IInv, NoGaps
      <4> QED BY <1>9, <3>1, <4>1 DEF FilesGrow
    <3> QED BY <3>2, <3>3
  <2> QED BY <2>1, <2>2 DEF NoGaps
<1>13. RunsReached'
  BY <1>1, <1>10 DEF IInv, RunsReached, Registered
<1>14. DriverReached'
  <2>1. drv.r \in Runs
    BY DEF IInv, TypeOK, Driver
  <2> QED BY <1>1, <1>10, <2>1 DEF IInv, DriverReached, Registered
<1>15. CallsReached'
  BY <1>1, <1>10, CallHolds DEF IInv, CallsReached
<1>16. TerminalIsAnnounced'
  BY <1>1 DEF IInv, TerminalIsAnnounced
<1> QED BY <1>11, <1>12, <1>13, <1>14, <1>15, <1>16 DEF IInv

\* SharedState is empty after a restart; the reports are on disk.
LEMMA RestartKeeps == ASSUME IInv, Restart PROVE IInv'
<1>1. /\ UNCHANGED <<quiet, told, verdict, file, task, expired, served, strayed>>
      /\ goals' = [r \in Runs |-> NoRun]
      /\ open' = [r \in Runs |-> IF open[r] = "new" THEN "new" ELSE "closed"]
      /\ agent' = [r \in Runs |-> "none"]
      /\ inbox' = [r \in Runs |-> <<>>]
      /\ hibernated' = [r \in Runs |-> FALSE]
      /\ drv' = AtRest
      /\ call' = [h \in Handlers |-> Idle]
  BY DEF Restart
<1>2. NoGaps' /\ \A x, k : Reached(x, k)' <=> Reached(x, k)
  BY <1>1 DEF IInv, NoGaps, Reached, Report
<1>3. TypeOK'
  BY <1>1, Records DEF IInv, TypeOK
<1>4. RunsReached'
  BY <1>1, <1>2, Records DEF IInv, RunsReached, Registered
<1>5. DriverReached' /\ CallsReached'
  BY <1>1, Records DEF DriverReached, CallsReached
<1>6. TerminalIsAnnounced'
  BY <1>1, Records DEF TerminalIsAnnounced, Terminal
<1> QED BY <1>2, <1>3, <1>4, <1>5, <1>6 DEF IInv

LEMMA InitHolds == Init => IInv
<1> SUFFICES ASSUME Init PROVE IInv
  OBVIOUS
<1>1. \A d \in Dirs, n \in Iterations : file[d][n] = [kind |-> "missing", by |-> {}]
  BY DEF Init
<1>2. [kind |-> "missing", by |-> {}] \in File
  BY DEF File
<1>3. MaxIter + 1 \in Iterations
  BY LimitsAssumption DEF Iterations
<1>4. TypeOK
  <2>1. file \in [Dirs -> [Iterations -> File]]
    BY <1>2 DEF Init
  <2>2. inbox \in [Runs -> Seq(Iterations)] /\ served \in 0..MaxCalls
    BY LimitsAssumption DEF Init
  <2>3. goals \in [Runs -> GoalRun] /\ drv \in Driver /\ call \in [Handlers -> Call]
    BY Records DEF Init
  <2> QED BY <2>1, <2>2, <2>3 DEF Init, TypeOK
<1>5. NoGaps
  BY <1>1, <1>3 DEF NoGaps
<1>6. RunsReached /\ DriverReached /\ CallsReached /\ TerminalIsAnnounced
  BY Records DEF Init, RunsReached, Registered, DriverReached, CallsReached,
                 TerminalIsAnnounced, Terminal
<1> QED BY <1>4, <1>5, <1>6 DEF IInv

LEMMA StutterKeeps == ASSUME IInv, UNCHANGED vars PROVE IInv'
<1>1. UNCHANGED <<goals, quiet, told, verdict, open, file, agent, task, hibernated,
                 expired, inbox, drv, call, served, strayed>>
  BY DEF vars, driven, world
<1>2. NoGaps' /\ \A x, k : Reached(x, k)' <=> Reached(x, k)
  BY <1>1 DEF IInv, NoGaps, Reached, Report
<1>3. TypeOK'
  BY <1>1 DEF IInv, TypeOK
<1>4. RunsReached' /\ DriverReached'
  BY <1>1, <1>2 DEF IInv, RunsReached, DriverReached, Registered
<1>5. CallsReached' /\ TerminalIsAnnounced'
  BY <1>1, <1>2 DEF IInv, CallsReached, TerminalIsAnnounced
<1> QED BY <1>2, <1>3, <1>4, <1>5 DEF IInv

-----------------------------------------------------------------------------
(* The theorems. *)

\* Whoever holds an iteration number - a run, the driver's copy, a request, a
\* queued prompt, an agent - all iterations before it have been reported.
THEOREM Inductive == Spec => []IInv
<1>1. IInv /\ [Next]_vars => IInv'
  <2> SUFFICES ASSUME IInv, [Next]_vars PROVE IInv'
    OBVIOUS
  <2>1. CASE DriverStep
    BY <2>1, DriverKeeps
  <2>2. ASSUME NEW h \in Handlers,
               CompleteWrite(h) \/ ContinueSend(h) \/ ContinueCommit(h)
        PROVE  IInv'
    BY <2>2, CompleteWriteKeeps, ContinueSendKeeps, ContinueCommitKeeps
  <2>3. ASSUME NEW h \in Handlers, NEW r \in Runs,
               ContinueRead(h, r) \/ \E done \in BOOLEAN : CompleteRead(h, r, done)
        PROVE  IInv'
    BY <2>3, BeginKeeps DEF ContinueRead, CompleteRead
  <2>4. ASSUME NEW r \in Runs, Launch(r) PROVE IInv'
    BY <2>4, LaunchKeeps
  <2>5. ASSUME NEW r \in Runs, GoalAccept(r) \/ GoalStop(r) PROVE IInv'
    BY <2>5, VerdictKeeps
  <2>6. ASSUME NEW r \in Runs, DeliverPrompt(r) PROVE IInv'
    BY <2>6, DeliverPromptKeeps
  <2>7. ASSUME NEW r \in Runs, NEW k \in Reports, AgentWrites(r, k) PROVE IInv'
    BY <2>7, AgentWritesKeeps
  <2>8. ASSUME NEW r \in Runs,
               \/ \E m \in AgentMoves : AgentTurns(r, m)
               \/ CloseWorkspace(r) \/ ToggleHibernation(r)
               \/ ClockExpires(r) \/ MinutePasses(r)
        PROVE  IInv'
    BY <2>8, PaneKeeps
  <2>9. CASE Restart
    BY <2>9, RestartKeeps
  <2>10. CASE UNCHANGED vars
    BY <2>10, StutterKeeps
  <2> QED BY <2>1, <2>2, <2>3, <2>4, <2>5, <2>6, <2>7, <2>8, <2>9, <2>10 DEF Next
<1> QED BY <1>1, InitHolds, PTL DEF Spec

\* Types, with the limits drive_one keeps: idle ticks and reminders never exceed
\* the configured ones, although they are compared on a copy of the run.
THEOREM TypeCorrect == Spec => []TypeOK
<1>1. IInv => TypeOK
  BY DEF IInv
<1> QED BY <1>1, Inductive, PTL

\* advance_iteration: no run ever polls an iteration while an earlier one has no
\* report, for any number of runs, shared directories, requests and limits.
THEOREM IterationsAreNotSkipped == Spec => []NoIterationIsSkipped
<1>1. IInv => NoIterationIsSkipped
  BY DEF IInv, RunsReached, Reached, NoIterationIsSkipped
<1> QED BY <1>1, Inductive, PTL

\* escalate: no run ends without its user being told, for any interleaving of
\* escalations, verdicts, stops and continuations.
THEOREM EndsAreAnnounced == Spec => []TerminalIsAnnounced
<1>1. IInv => TerminalIsAnnounced
  BY DEF IInv
<1> QED BY <1>1, Inductive, PTL
=============================================================================
