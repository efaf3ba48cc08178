---------------------------- MODULE SessionStore ----------------------------
(***************************************************************************)
(* The saved session of jmux (session/store.rs and its callers in app.rs): *)
(* session.json, its rolling backup session.json.bak, and who writes them. *)
(* The autosave runs every 8 s on a thread of its own, one at a time; the  *)
(* shutdown and the memory watchdog save on the main thread.  The two may  *)
(* overlap, each in its own place of save_session, and the process may be  *)
(* killed between any two of their steps, or the disk be full at one.      *)
(*                                                                         *)
(* Of a session only what tells two of them apart is kept: which           *)
(* of its workspaces a launch brings back and whether the scrollback is in *)
(* it.  A process starts with a default workspace (SharedState::new), and  *)
(* keeps it unless a session is restored; open_window may add another.     *)
(***************************************************************************)
CONSTANTS
    Sessions,   \* sets of workspaces a user works on
    Fresh,      \* default workspaces alone
    Hollow,     \* workspaces without panels alone (an old file: or the quick terminal's)
    Empty,      \* no workspace
    Absent,     \* no file
    Broken,     \* a file that does not parse
    DiskFills   \* whether a write may fail

Held     == Sessions \cup {Fresh, Hollow}
Contents == Held \cup {Empty}

ASSUME Apart ==
    /\ Fresh \notin {Hollow, Empty, Absent, Broken} /\ Hollow \notin {Empty, Absent, Broken}
    /\ Empty \notin {Absent, Broken} /\ Absent # Broken
    /\ Sessions \cap {Fresh, Hollow, Empty, Absent, Broken} = {}
    /\ DiskFills \in BOOLEAN

VARIABLES
    primary,    \* session.json
    backup,     \* session.json.bak
    life,       \* of the process: down, up, quitting (the shutdown save), leaving
    mem,        \* the workspaces in memory
    had,        \* HAD_WORKSPACES
    save        \* what each thread does in save_session, and with which snapshot

vars == <<primary, backup, life, mem, had, save>>

Savers  == {"auto", "main"}
Snap(c, full) == [content |-> c, full |-> full]
Missing == Snap(Absent, FALSE)
Unread  == Snap(Broken, FALSE)
Files   == [content : Contents \cup {Absent, Broken}, full : BOOLEAN]
Threads == [at : {"idle", "begun", "copy", "write"}, snap : Files, src : Files, mixed : BOOLEAN]
Idle    == [at |-> "idle", snap |-> Missing, src |-> Missing, mixed |-> FALSE]

\* live_workspace_count > 0.
Live(f) == f.content \in Held

Exists(f) == f.content # Absent

-----------------------------------------------------------------------------
(* load_session.                                                            *)

LoadBackup(b) == IF Live(b) THEN b ELSE Missing

Loaded(p, b) ==
    IF p.content \in {Absent, Broken} \/ (~Live(p) /\ Live(b)) THEN LoadBackup(b) ELSE p

\* restore_session leaves a process as it was when the session has no workspaces.
\* When it has only such as are not brought back, it takes the default workspace
\* away; open_window adds another, but where there is a welcome or no window.
Restored(f) ==
    IF ~Live(f) THEN {Fresh} ELSE IF f.content = Hollow THEN {Empty, Fresh} ELSE {f.content}

-----------------------------------------------------------------------------
(* The process.                                                             *)

Init ==
    /\ primary = Missing /\ backup = Missing
    /\ life = "down" /\ mem = Fresh /\ had = FALSE
    /\ save = [s \in Savers |-> Idle]

\* first_launch_init; a file that does not parse is renamed away.
Start ==
    /\ life = "down"
    /\ life' = "up" /\ had' = FALSE
    /\ mem' \in Restored(Loaded(primary, backup))
    /\ primary' = IF primary = Unread THEN Missing ELSE primary
    /\ UNCHANGED <<backup, save>>

\* The file cannot be read (or is no text at all), or JMUX_DISABLE_SESSION_RESTORE is set.
StartWithout ==
    /\ life = "down"
    /\ life' = "up" /\ had' = FALSE /\ mem' = Fresh
    /\ UNCHANGED <<primary, backup, save>>

Running == life = "up" /\ save["main"] = Idle

\* Workspaces are opened and closed.
Work(c) ==
    /\ Running
    /\ mem' = c
    /\ UNCHANGED <<primary, backup, life, had, save>>

\* enforce_workspace_invariant in the quake console.
Respawn ==
    /\ Running /\ mem = Empty
    /\ mem' = Fresh
    /\ UNCHANGED <<primary, backup, life, had, save>>

Begin(s, full) ==
    save' = [save EXCEPT ![s] = [Idle EXCEPT !.at = "begun", !.snap = Snap(mem, full)]]

\* The 8 s timer; a tick is skipped while AUTOSAVE_WRITING.
Autosave ==
    /\ Running /\ save["auto"] = Idle
    /\ Begin("auto", FALSE)
    /\ UNCHANGED <<primary, backup, life, mem, had>>

Watchdog ==
    /\ Running
    /\ Begin("main", TRUE)
    /\ UNCHANGED <<primary, backup, life, mem, had>>

\* connect_shutdown: the user, SIGTERM or the last workspace closed.
Quit ==
    /\ Running
    /\ life' = "quitting" /\ Begin("main", TRUE)
    /\ UNCHANGED <<primary, backup, mem, had>>

Stopped == [s \in Savers |-> Idle]

\* The remote sessions have been stopped and app.run returns.
Exit ==
    /\ life = "leaving"
    /\ life' = "down" /\ save' = Stopped
    /\ UNCHANGED <<primary, backup, mem, had>>

\* SIGKILL, the OOM killer, a power cut.
Kill ==
    /\ life # "down"
    /\ life' = "down" /\ save' = Stopped
    /\ UNCHANGED <<primary, backup, mem, had>>

\* session.json is damaged by something else, while the backup is good.
Damage ==
    /\ life = "down" /\ Exists(primary) /\ Live(backup)
    /\ primary' = Unread
    /\ UNCHANGED <<backup, life, mem, had, save>>

-----------------------------------------------------------------------------
(* save_session.                                                            *)

\* Mutant: the end of the shutdown's save is not the end of the quitting.
ReturnsOnly(s) == save' = [save EXCEPT ![s] = Idle] /\ UNCHANGED life

Returns(s) ==
    /\ save' = [save EXCEPT ![s] = Idle]
    /\ life' = IF s = "main" /\ life = "quitting" THEN "leaving" ELSE life

\* Mutant: an empty session is always saved.
RefusesNever(s) == FALSE

\* An empty snapshot of a process that never saved a workspace.
Refuses(s) == ~Live(save[s].snap) /\ ~had /\ Live(primary)

Refuse(s) ==
    /\ save[s].at = "begun" /\ Refuses(s)
    /\ Returns(s)
    /\ UNCHANGED <<primary, backup, mem, had>>

SkipCopy(s) ==
    /\ save[s].at = "begun" /\ ~Refuses(s)
    /\ ~(Live(save[s].snap) /\ Exists(primary))
    /\ had' = (had \/ Live(save[s].snap))
    /\ save' = [save EXCEPT ![s].at = "write"]
    /\ UNCHANGED <<primary, backup, life, mem>>

\* fs::copy opens session.json and truncates the backup.
OpenCopy(s) ==
    /\ save[s].at = "begun" /\ Live(save[s].snap) /\ Exists(primary)
    /\ had' = TRUE
    /\ backup' = Unread
    /\ LET with == {o \in Savers \ {s} : save[o].at = "copy" /\ save[o].src # primary}
       IN  save' = [o \in Savers |->
                      IF o = s THEN [save[s] EXCEPT !.at = "copy", !.src = primary,
                                                    !.mixed = with # {}]
                      ELSE IF o \in with THEN [save[o] EXCEPT !.mixed = TRUE] ELSE save[o]]
    /\ UNCHANGED <<primary, life, mem>>

\* Its result is ignored: the disk may be full, or two copies may mix.
EndCopy(s) ==
    /\ save[s].at = "copy"
    /\ backup' = IF save[s].mixed THEN Unread ELSE save[s].src
    /\ save' = [save EXCEPT ![s].at = "write"]
    /\ UNCHANGED <<primary, life, mem, had>>

FailCopy(s) ==
    /\ DiskFills /\ save[s].at = "copy"
    /\ save' = [save EXCEPT ![s].at = "write"]
    /\ UNCHANGED <<primary, backup, life, mem, had>>

\* write_atomic: a file of its own, synced, then renamed over session.json.
Write(s) ==
    /\ save[s].at = "write"
    /\ primary' = save[s].snap
    /\ Returns(s)
    /\ UNCHANGED <<backup, mem, had>>

\* Mutant: AUTOSAVE_WRITING is not taken back when the save fails.
FailWriteBusy(s) ==
    /\ DiskFills /\ save[s].at = "write"
    /\ IF s = "main" THEN Returns(s) ELSE save' = [save EXCEPT ![s].at = "busy"] /\ UNCHANGED life
    /\ UNCHANGED <<primary, backup, mem, had>>

FailWrite(s) ==
    /\ DiskFills /\ save[s].at = "write"
    /\ Returns(s)
    /\ UNCHANGED <<primary, backup, mem, had>>

Step(s) ==
    \/ Refuse(s) \/ SkipCopy(s)
    \/ OpenCopy(s) \/ EndCopy(s) \/ FailCopy(s)
    \/ Write(s) \/ FailWrite(s)

Next ==
    \/ Start \/ StartWithout \/ Exit \/ Kill \/ Damage
    \/ \E c \in Contents : Work(c)
    \/ Respawn \/ Autosave \/ Watchdog \/ Quit
    \/ \E s \in Savers : Step(s)

\* The timers fire, a thread in save_session goes on, and the disk is not full for ever.
Spec ==
    /\ Init /\ [][Next]_vars
    /\ WF_vars(Autosave)
    /\ \A s \in Savers : WF_vars(Step(s)) /\ SF_vars(Write(s))

-----------------------------------------------------------------------------

\* A thread saves only in a living process, and the main thread for as long as it quits.
TypeOK ==
    /\ primary \in Files /\ backup \in Files
    /\ life \in {"down", "up", "quitting", "leaving"}
    /\ mem \in Contents /\ had \in BOOLEAN
    /\ save \in [Savers -> Threads]
    /\ \A s \in Savers :
          IF save[s].at = "idle" THEN save[s] = Idle ELSE save[s].snap.content \in Contents
    /\ life = "down" => save = Stopped
    /\ life = "quitting" => save["main"] # Idle
    /\ life = "leaving" => save["main"] = Idle

\* "even a bad overwrite or corruption leaves a recoverable generation behind": as long as
\* session.json holds workspaces, no step of a save, of two at once, of a failure or a kill
\* leaves nothing to load, except a process saving that its user closed them all.
SavedSessionIsKept ==
    [][Live(primary) /\ ~Live(Loaded(primary', backup'))
         => had /\ \E s \in Savers : save[s].at = "write" /\ ~Live(save[s].snap)]_vars

\* Autosave: what the user works on is saved, unless he changes it or the process ends.
WorkIsSaved ==
    \A c \in Held : (life = "up" /\ mem = c) ~> (life # "up" \/ mem # c \/ primary.content = c)

-----------------------------------------------------------------------------
(* What the code says of itself and does not do.                            *)

\* "A relaunch starts fresh with one workspace and one tab" after the last one is closed
\* and the shutdown has saved that.
RelaunchStartsFresh ==
    [][primary.content = Empty /\ mem = Empty /\ Exit => ~Live(Loaded(primary, backup))]_vars

\* "capture full scrollback here, so a clean quit/SIGTERM preserves it".
CleanQuitIsSaved ==
    [][life = "leaving" /\ mem # Empty /\ Exit => primary = Snap(mem, TRUE)]_vars

\* "Keep one rolling backup of the last good (non-empty) session": next to an empty
\* session.json, the session in the backup stays there until it is in session.json again.
BackupIsGood ==
    [][primary.content = Empty /\ Live(backup) => Live(Loaded(primary', backup'))]_vars
=============================================================================
