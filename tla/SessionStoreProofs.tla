------------------------- MODULE SessionStoreProofs -------------------------
(***************************************************************************)
(* That a saved session is kept, for every set of sessions and whether or  *)
(* not the disk fills.  The invariant behind it is about a thread on its   *)
(* way through save_session: one that has passed the guard with workspaces *)
(* has recorded that the process had some, and one that has passed it      *)
(* without any could do so only because the process had some, or because   *)
(* there was nothing to lose.  Files only ever change by a thread's step.  *)
(***************************************************************************)
EXTENDS SessionStore, TLAPS

\* A thread past the guard of save_session.
Guarded ==
    \A s \in Savers :
        /\ save[s].at = "copy" => had /\ Live(save[s].snap)
        /\ save[s].at = "write" /\ Live(save[s].snap) => had
        /\ save[s].at = "write" /\ ~Live(save[s].snap) => had \/ ~Live(primary)

IInv == TypeOK /\ Guarded

\* What the constants are not.
LEMMA Distinct ==
    /\ Absent \notin Contents /\ Broken \notin Contents
    /\ Empty \notin Held /\ Absent # Broken
  BY Apart DEF Contents, Held

\* The values save_session and load_session put in files are files.
LEMMA FileTypes ==
    /\ Missing \in Files /\ Unread \in Files
    /\ ~Live(Missing) /\ ~Live(Unread)
    /\ Idle \in Threads /\ Stopped \in [Savers -> Threads]
    /\ \A c \in Contents, b \in BOOLEAN : Snap(c, b) \in Files
  BY Distinct DEF Missing, Unread, Snap, Files, Live, Idle, Threads, Stopped, Contents

\* What a process starts with is a session, of workspaces or of none.
LEMMA RestoredIsContents ==
  ASSUME NEW f
  PROVE  Restored(f) \subseteq Contents
  BY DEF Restored, Live, Held, Contents

\* While session.json holds workspaces, it is what is loaded.
LEMMA PrimaryIsLoaded ==
  ASSUME NEW p \in Files, NEW b \in Files, Live(p)
  PROVE  Live(Loaded(p, b))
  BY Distinct DEF Loaded, Live, Contents

\* The initial state.
LEMMA InitInv == Init => IInv
<1> SUFFICES ASSUME Init PROVE IInv
  OBVIOUS
<1>1. TypeOK
  BY FileTypes DEF Init, TypeOK, Stopped, Idle, Contents, Held, Savers
<1>2. Guarded
  BY DEF Init, Guarded, Idle
<1> QED BY <1>1, <1>2 DEF IInv

\* A thread takes up a new snapshot of what is in memory.
LEMMA BeginTypes ==
  ASSUME TypeOK, NEW s \in Savers, NEW full \in BOOLEAN, Begin(s, full)
  PROVE  /\ save' \in [Savers -> Threads]
         /\ save'[s].at = "begun" /\ save'[s].snap.content \in Contents
         /\ \A o \in Savers \ {s} : save'[o] = save[o]
<1>1. [Idle EXCEPT !.at = "begun", !.snap = Snap(mem, full)] \in Threads
  BY FileTypes DEF TypeOK, Idle, Threads
<1>2. Snap(mem, full).content \in Contents
  BY DEF TypeOK, Snap
<1> QED BY <1>1, <1>2 DEF TypeOK, Begin, Idle

\* Operations of the process leave the threads that are past the guard as they are.
LEMMA ProcessInv ==
  ASSUME IInv,
         \/ Start \/ StartWithout \/ Exit \/ Kill \/ Damage
         \/ \E c \in Contents : Work(c)
         \/ Respawn \/ Autosave \/ Watchdog \/ Quit
  PROVE  IInv'
<1> USE DEF IInv
<1>1. CASE Start
  <2>1. mem' \in Contents
    BY <1>1, RestoredIsContents DEF Start
  <2>2. save = Stopped /\ save' = save
    BY <1>1 DEF Start, TypeOK
  <2>3. TypeOK'
    BY <1>1, <2>1, <2>2, FileTypes DEF Start, TypeOK
  <2>4. Guarded'
    BY <2>2 DEF Guarded, Stopped, Idle
  <2> QED BY <2>3, <2>4
<1>2. CASE StartWithout
  <2>1. save = Stopped /\ save' = save
    BY <1>2 DEF StartWithout, TypeOK
  <2>2. TypeOK'
    BY <1>2, <2>1 DEF StartWithout, TypeOK, Contents, Held
  <2>3. Guarded'
    BY <2>1 DEF Guarded, Stopped, Idle
  <2> QED BY <2>2, <2>3
<1>3. CASE Exit \/ Kill
  <2>1. life' = "down" /\ save' = Stopped /\ UNCHANGED <<primary, backup, mem, had>>
    BY <1>3 DEF Exit, Kill
  <2>2. \A s \in Savers : save'[s] = Idle /\ Idle.at = "idle"
    BY <2>1 DEF Stopped, Idle
  <2>3. TypeOK'
    BY <2>1, <2>2, FileTypes DEF TypeOK
  <2>4. Guarded'
    BY <2>2 DEF Guarded
  <2> QED BY <2>3, <2>4
<1>4. CASE Damage
  <2>1. save = Stopped /\ save' = save
    BY <1>4 DEF Damage, TypeOK
  <2>2. TypeOK'
    BY <1>4, <2>1, FileTypes DEF Damage, TypeOK
  <2>3. Guarded'
    BY <2>1 DEF Guarded, Stopped, Idle
  <2> QED BY <2>2, <2>3
<1>5. CASE (\E c \in Contents : Work(c)) \/ Respawn
  <2>1. mem' \in Contents /\ UNCHANGED <<primary, backup, life, had, save>>
    BY <1>5 DEF Work, Respawn, Contents, Held
  <2>2. TypeOK'
    BY <2>1 DEF TypeOK
  <2>3. Guarded'
    BY <2>1 DEF Guarded
  <2> QED BY <2>2, <2>3
<1>6. CASE Autosave
  <2>1. Begin("auto", FALSE) /\ Running /\ UNCHANGED <<primary, backup, life, mem, had>>
    BY <1>6 DEF Autosave
  <2>2. /\ save' \in [Savers -> Threads]
        /\ save'["auto"].at = "begun" /\ save'["auto"].snap.content \in Contents
        /\ \A o \in Savers \ {"auto"} : save'[o] = save[o]
    BY <2>1, BeginTypes DEF Savers
  <2>3. TypeOK'
    BY <2>1, <2>2 DEF TypeOK, Running, Savers
  <2>4. Guarded'
    BY <2>1, <2>2 DEF Guarded
  <2> QED BY <2>3, <2>4
<1>7. CASE Watchdog \/ Quit
  <2>1. /\ Begin("main", TRUE) /\ Running /\ UNCHANGED <<primary, backup, mem, had>>
        /\ life' \in {"up", "quitting"}
    BY <1>7 DEF Watchdog, Quit, Running
  <2>2. /\ save' \in [Savers -> Threads]
        /\ save'["main"].at = "begun" /\ save'["main"].snap.content \in Contents
        /\ \A o \in Savers \ {"main"} : save'[o] = save[o]
    BY <2>1, BeginTypes DEF Savers
  <2>3. TypeOK'
    BY <2>1, <2>2 DEF TypeOK, Running, Savers, Idle
  <2>4. Guarded'
    BY <2>1, <2>2 DEF Guarded
  <2> QED BY <2>3, <2>4
<1> QED BY <1>1, <1>2, <1>3, <1>4, <1>5, <1>6, <1>7

\* A thread saves only in a living process.
LEMMA SavingIsAlive ==
  ASSUME TypeOK, NEW s \in Savers, save[s].at # "idle"
  PROVE  life # "down"
<1>1. Stopped[s].at = "idle"
  BY DEF Stopped, Idle
<1> QED BY <1>1 DEF TypeOK

\* The end of save_session, whatever became of the save.
LEMMA ReturnsTypes ==
  ASSUME TypeOK, NEW s \in Savers, save[s].at # "idle", Returns(s)
  PROVE  /\ save' \in [Savers -> Threads] /\ save'[s] = Idle
         /\ \A o \in Savers \ {s} : save'[o] = save[o]
         /\ \A o \in Savers : IF save'[o].at = "idle" THEN save'[o] = Idle
                               ELSE save'[o].snap.content \in Contents
         /\ life' \in {"down", "up", "quitting", "leaving"}
         /\ life' = "down" => save' = Stopped
         /\ life' = "quitting" => save'["main"] # Idle
         /\ life' = "leaving" => save'["main"] = Idle
<1>1. save' \in [Savers -> Threads] /\ save'[s] = Idle
        /\ \A o \in Savers \ {s} : save'[o] = save[o]
  BY FileTypes DEF TypeOK, Returns
<1>2. life # "down"
  BY SavingIsAlive
<1>3. \A o \in Savers : IF save'[o].at = "idle" THEN save'[o] = Idle
                        ELSE save'[o].snap.content \in Contents
  BY <1>1 DEF TypeOK, Idle
<1>4. CASE s = "main"
  BY <1>1, <1>2, <1>3, <1>4 DEF TypeOK, Returns
<1>5. CASE s = "auto"
  <2>1. save'["main"] = save["main"] /\ life' = life
    BY <1>1, <1>5 DEF Returns, Savers
  <2> QED BY <1>1, <1>2, <1>3, <2>1 DEF TypeOK
<1> QED BY <1>4, <1>5 DEF Savers

\* A thread goes on to write_atomic.
LEMMA AdvanceTypes ==
  ASSUME TypeOK, NEW s \in Savers, save[s].at # "idle",
         save' = [save EXCEPT ![s].at = "write"]
  PROVE  /\ save' \in [Savers -> Threads]
         /\ save'[s].at = "write" /\ save'[s].snap = save[s].snap
         /\ \A o \in Savers \ {s} : save'[o] = save[o]
         /\ \A o \in Savers : IF save'[o].at = "idle" THEN save'[o] = Idle
                               ELSE save'[o].snap.content \in Contents
         /\ \A o \in Savers : (save'[o] = Idle) = (save[o] = Idle)
<1>1. save[s] \in Threads /\ Idle.at = "idle"
  BY DEF TypeOK, Idle
<1>2. /\ save' \in [Savers -> Threads]
      /\ save'[s].at = "write" /\ save'[s].snap = save[s].snap
      /\ \A o \in Savers \ {s} : save'[o] = save[o]
  BY <1>1 DEF TypeOK, Threads
<1>3. save'[s] # Idle /\ save[s] # Idle
  BY <1>1, <1>2
<1> QED BY <1>2, <1>3 DEF TypeOK

\* One step of a thread in save_session.
LEMMA StepInv ==
  ASSUME IInv, NEW s \in Savers, Step(s)
  PROVE  IInv'
<1> USE DEF IInv
<1>1. save[s] \in Threads /\ save[s].at # "idle" /\ life # "down"
  <2>1. save[s].at # "idle"
    BY DEF Step, Refuse, SkipCopy, OpenCopy, EndCopy, FailCopy, Write, FailWrite
  <2> QED BY <2>1, SavingIsAlive DEF TypeOK
<1>2. save[s].snap \in Files /\ save[s].snap.content \in Contents /\ save[s].src \in Files
  BY <1>1 DEF TypeOK, Threads
<1>3. CASE Refuse(s) \/ FailWrite(s)
  <2>1. Returns(s) /\ UNCHANGED <<primary, backup, mem, had>>
    BY <1>3 DEF Refuse, FailWrite
  <2>2. TypeOK'
    <3>1. mem' \in Contents /\ had' \in BOOLEAN /\ primary' \in Files /\ backup' \in Files
      BY <2>1 DEF TypeOK
    <3> QED BY <1>1, <2>1, <3>1, ReturnsTypes DEF TypeOK
  <2>3. Guarded'
    BY <1>1, <2>1, ReturnsTypes DEF Guarded, Idle
  <2> QED BY <2>2, <2>3
<1>4. CASE Write(s)
  <2>1. Returns(s) /\ primary' = save[s].snap /\ UNCHANGED <<backup, mem, had>>
    BY <1>4 DEF Write
  <2>2. TypeOK'
    <3>1. mem' \in Contents /\ had' \in BOOLEAN /\ primary' \in Files /\ backup' \in Files
      BY <1>2, <2>1 DEF TypeOK
    <3> QED BY <1>1, <2>1, <3>1, ReturnsTypes DEF TypeOK
  <2>3. Live(primary') => had
    BY <1>4, <2>1 DEF Guarded, Write
  <2>4. Guarded'
    BY <1>1, <2>1, <2>3, ReturnsTypes DEF Guarded, Idle
  <2> QED BY <2>2, <2>4
<1>5. CASE SkipCopy(s)
  <2>1. /\ save' = [save EXCEPT ![s].at = "write"]
        /\ had' = (had \/ Live(save[s].snap)) /\ UNCHANGED <<primary, backup, life, mem>>
        /\ Live(save[s].snap) \/ had \/ ~Live(primary)
    BY <1>5 DEF SkipCopy, Refuses
  <2>2. TypeOK'
    <3>1. mem' \in Contents /\ had' \in BOOLEAN /\ primary' \in Files /\ backup' \in Files
      BY <2>1 DEF TypeOK, Live
    <3> QED BY <1>1, <2>1, <3>1, AdvanceTypes DEF TypeOK, Savers
  <2>3. Guarded'
    BY <1>1, <2>1, AdvanceTypes DEF Guarded
  <2> QED BY <2>2, <2>3
<1>6. CASE OpenCopy(s)
  <2> DEFINE with == {o \in Savers \ {s} : save[o].at = "copy" /\ save[o].src # primary}
  <2>1. /\ save' = [o \in Savers |->
                      IF o = s THEN [save[s] EXCEPT !.at = "copy", !.src = primary,
                                                    !.mixed = with # {}]
                      ELSE IF o \in with THEN [save[o] EXCEPT !.mixed = TRUE] ELSE save[o]]
        /\ had' = TRUE /\ backup' = Unread /\ UNCHANGED <<primary, life, mem>>
        /\ Live(save[s].snap)
    BY <1>6 DEF OpenCopy
  <2>2. [save[s] EXCEPT !.at = "copy", !.src = primary, !.mixed = with # {}] \in Threads
    BY <1>1 DEF TypeOK, Threads
  <2>3. \A o \in Savers : [save[o] EXCEPT !.mixed = TRUE] \in Threads
    BY DEF TypeOK, Threads
  <2>4. /\ save' \in [Savers -> Threads]
        /\ save'[s].at = "copy" /\ save'[s].snap = save[s].snap
    BY <1>1, <2>1, <2>2, <2>3 DEF TypeOK, Threads
  <2>5. \A o \in Savers \ {s} :
          save'[o].at = save[o].at /\ save'[o].snap = save[o].snap
            /\ (save[o].at = "idle" => save'[o] = save[o])
    BY <2>1 DEF TypeOK, Threads
  <2>6. \A o \in Savers : (save'[o] = Idle) = (save[o] = Idle)
    BY <1>1, <2>4, <2>5 DEF TypeOK, Idle
  <2>7. TypeOK'
    <3>1. backup' \in Files /\ primary' \in Files /\ mem' \in Contents /\ had' \in BOOLEAN
      BY <2>1, FileTypes DEF TypeOK
    <3>2. \A o \in Savers :
            IF save'[o].at = "idle" THEN save'[o] = Idle ELSE save'[o].snap.content \in Contents
      BY <1>2, <2>4, <2>5 DEF TypeOK
    <3> QED BY <1>1, <2>1, <2>4, <2>6, <3>1, <3>2 DEF TypeOK, Savers
  <2>8. Guarded'
    BY <2>1, <2>4, <2>5 DEF Guarded
  <2> QED BY <2>7, <2>8
<1>7. CASE EndCopy(s) \/ FailCopy(s)
  <2>1. /\ save' = [save EXCEPT ![s].at = "write"] /\ save[s].at = "copy"
        /\ backup' \in {backup, Unread, save[s].src} /\ UNCHANGED <<primary, life, mem, had>>
    BY <1>7 DEF EndCopy, FailCopy
  <2>2. TypeOK'
    <3>1. mem' \in Contents /\ had' \in BOOLEAN /\ primary' \in Files /\ backup' \in Files
      BY <1>2, <2>1, FileTypes DEF TypeOK
    <3> QED BY <1>1, <2>1, <3>1, AdvanceTypes DEF TypeOK, Savers
  <2>3. Guarded'
    BY <1>1, <2>1, AdvanceTypes DEF Guarded
  <2> QED BY <2>2, <2>3
<1> QED BY <1>3, <1>4, <1>5, <1>6, <1>7 DEF Step

\* No step leaves the invariant.
LEMMA NextInv == IInv /\ [Next]_vars => IInv'
<1> SUFFICES ASSUME IInv, [Next]_vars PROVE IInv'
  OBVIOUS
<1>1. CASE UNCHANGED vars
  BY <1>1 DEF vars, IInv, TypeOK, Guarded
<1>2. CASE Next
  BY <1>2, ProcessInv, StepInv DEF Next
<1> QED BY <1>1, <1>2

LEMMA Invariant == Spec => []IInv
  BY InitInv, NextInv, PTL DEF Spec

\* A thread saves only in a living process, and the main thread for as long as it quits
\* (save_session and its callers).
THEOREM TypeCorrect == Spec => []TypeOK
<1>1. IInv => TypeOK
  BY DEF IInv
<1> QED BY <1>1, Invariant, PTL

\* As long as session.json holds workspaces, no step of a save, a failed one or a kill
\* leaves nothing to load, but the save of a process whose workspaces were all closed
\* (save_session, load_session).
THEOREM SessionKept == Spec => SavedSessionIsKept
<1> DEFINE Kept == Live(primary) /\ ~Live(Loaded(primary', backup'))
                     => had /\ \E s \in Savers : save[s].at = "write" /\ ~Live(save[s].snap)
<1>1. ASSUME IInv, Next PROVE Kept
  <2> SUFFICES ASSUME Live(primary), ~Live(Loaded(primary', backup'))
               PROVE  had /\ \E s \in Savers : save[s].at = "write" /\ ~Live(save[s].snap)
    OBVIOUS
  <2>1. TypeOK /\ TypeOK' /\ Guarded
    BY <1>1, NextInv DEF IInv
  <2>2. ~Live(primary')
    BY <2>1, PrimaryIsLoaded DEF TypeOK
  <2>3. ~Damage
    BY FileTypes DEF Damage, Loaded, LoadBackup, Unread, Live
  <2>4. ~Start
    BY <2>2, FileTypes DEF Start
  <2>5. PICK s \in Savers : Write(s)
    BY <1>1, <2>2, <2>3, <2>4
    DEF Next, StartWithout, Exit, Kill, Work, Respawn, Autosave, Watchdog, Quit, Step, Refuse,
        SkipCopy, OpenCopy, EndCopy, FailCopy, FailWrite
  <2>6. save[s].at = "write" /\ ~Live(save[s].snap)
    BY <2>2, <2>5 DEF Write
  <2> QED BY <2>1, <2>6 DEF Guarded
<1>3. IInv /\ [Next]_vars => [Kept]_vars
  BY <1>1
<1> QED BY <1>3, Invariant, PTL DEF Spec, SavedSessionIsKept
=============================================================================
