---------------------------- MODULE ControlRoom ----------------------------
(***************************************************************************)
(* The dashboard that launches runs and shows them: the worker threads of  *)
(* POST /api/run and what they leave on disk (palimpsest/dashboard.py;     *)
(* make_ctx, run_scenario and _finish of palimpsest/scenarios.py; the      *)
(* verdict sidecar of palimpsest/checker.py), the readers of /api/state    *)
(* and /api/health, and the page that polls them                           *)
(* (palimpsest/static/dashboard.html).                                     *)
(*                                                                         *)
(* What the engine does is a number of rows here, what the checker says is *)
(* the name of the run it graded.  A journal file keeps its identity when  *)
(* its path is removed: whoever has it open goes on with it.  Every run is *)
(* of the same demo alert, so no workflow id tells two runs apart.         *)
(***************************************************************************)
EXTENDS Sequences, Naturals

CONSTANTS
    Panes,         \* sequence: the panes, in the order a worker takes them
    Runs,          \* worker threads, one for each click
    Polls,         \* the requests for /api/state a page may have under way
    NoRun,
    Rows,          \* rows a run writes to each journal
    Patient,       \* the presenter waits for a run to be over before the next
    MaxFailures    \* bound: runs that raise, verdicts that cannot be written

ASSUME ControlRoomAssumption ==
    /\ NoRun \notin Runs
    /\ Panes \in Seq(STRING) /\ Panes # << >>
    /\ \A i, j \in DOMAIN Panes : Panes[i] = Panes[j] => i = j
    /\ Rows \in Nat \ {0} /\ Patient \in BOOLEAN /\ MaxFailures \in Nat

VARIABLES
    files,     \* the journal files there ever were: file -> run -> rows
    path,      \* pane -> the file at its path, 0 if there is none
    sidecar,   \* pane -> the run whose verdict is on file
    running,   \* the panes marked in the server's table
    work,      \* run -> [pc, at, file]: where its worker is
    poll,      \* poll -> [pc, pane, file, reply]
    health,    \* an answer of /api/health on its way: "none", "busy", "free"
    button,    \* the Run button is enabled
    shown,     \* pane -> what the page shows
    failures

diskVars == << files, path, sidecar >>
pageVars == << health, button, shown >>
vars == << files, path, sidecar, running, work, poll, health, button, shown, failures >>

Pane == {Panes[i] : i \in DOMAIN Panes}
NoFile == 0
NoRows == [w \in Runs |-> 0]
Nothing == [rows |-> NoRows, verdict |-> NoRun]
Unsent == [pc |-> "idle", pane |-> Panes[1], file |-> NoFile, reply |-> Nothing]

\* Whatever earlier sessions left may be on disk; it is as if nothing was.
Init ==
    /\ files = << >> /\ path = [p \in Pane |-> NoFile] /\ sidecar = [p \in Pane |-> NoRun]
    /\ running = {}
    /\ work = [w \in Runs |-> [pc |-> "idle", at |-> 1, file |-> NoFile]]
    /\ poll = [r \in Polls |-> Unsent]
    /\ health = "none" /\ button = TRUE
    /\ shown = [p \in Pane |-> Nothing]
    /\ failures = 0

\* Opening a journal: the file at the path, or a new one with no rows.
Opens(p, file) ==
    IF path[p] # NoFile
    THEN file = path[p] /\ UNCHANGED << files, path >>
    ELSE /\ file = Len(files) + 1
         /\ files' = Append(files, NoRows)
         /\ path' = [path EXCEPT ![p] = file]

------------------------------------------------------------------------------
(* The worker of a run                                                     *)

At(w, pc) == work[w].pc = pc
PaneOf(w) == Panes[work[w].at]
Goto(w, pc) == work' = [work EXCEPT ![w].pc = pc]
InFlight(w) == work[w].pc \notin {"idle", "over"}

\* POST /api/run, and the button is disabled.
Click(w) ==
    /\ At(w, "idle") /\ button
    /\ Patient => \A v \in Runs : ~ InFlight(v)
    /\ button' = FALSE
    /\ Goto(w, "mark")
    /\ UNCHANGED << diskVars, running, poll, health, shown, failures >>

Mark(w) ==
    /\ At(w, "mark")
    /\ running' = running \cup {PaneOf(w)}
    /\ Goto(w, "look")
    /\ UNCHANGED << diskVars, poll, pageVars, failures >>

\* The files are not removed.
Bug_Look(w) ==
    /\ At(w, "look")
    /\ Goto(w, "open")
    /\ UNCHANGED << diskVars, running, poll, pageVars, failures >>

\* make_ctx: if it is there, it is removed; the sidecar is not.
Look(w) ==
    /\ At(w, "look")
    /\ Goto(w, IF path[PaneOf(w)] = NoFile THEN "open" ELSE "remove")
    /\ UNCHANGED << diskVars, running, poll, pageVars, failures >>

\* Somebody else may have removed it by now, and os.remove raises.
Remove(w) ==
    /\ At(w, "remove")
    /\ path' = [path EXCEPT ![PaneOf(w)] = NoFile]
    /\ Goto(w, IF path[PaneOf(w)] = NoFile THEN "raised" ELSE "open")
    /\ UNCHANGED << files, sidecar, running, poll, pageVars, failures >>

Open(w) ==
    /\ At(w, "open")
    /\ \E file \in 1 .. Len(files) + 1 :
           /\ Opens(PaneOf(w), file)
           /\ work' = [work EXCEPT ![w] = [@ EXCEPT !.pc = "work", !.file = file]]
    /\ UNCHANGED << sidecar, running, poll, pageVars, failures >>

\* The engine writes to the file it has open, wherever that is by now.
Work(w) ==
    /\ At(w, "work") /\ files[work[w].file][w] < Rows
    /\ files' = [files EXCEPT ![work[w].file][w] = @ + 1]
    /\ UNCHANGED << path, sidecar, running, work, poll, pageVars, failures >>

\* The verdict goes where the previous one was kept.
Bug_Finish(w) ==
    /\ At(w, "work") /\ files[work[w].file][w] = Rows
    /\ sidecar' = [sidecar EXCEPT ![PaneOf(w)] = IF @ = NoRun THEN w ELSE @]
    /\ Goto(w, "done")
    /\ UNCHANGED << files, path, running, poll, pageVars, failures >>

\* _finish and write_verdict, in one os.replace.
Finish(w) ==
    /\ At(w, "work") /\ files[work[w].file][w] = Rows
    /\ sidecar' = [sidecar EXCEPT ![PaneOf(w)] = w]
    /\ Goto(w, "done")
    /\ UNCHANGED << files, path, running, poll, pageVars, failures >>

\* "Best effort": the verdict that cannot be written is passed over.
FinishUnwritten(w) ==
    /\ At(w, "work") /\ files[work[w].file][w] = Rows
    /\ failures < MaxFailures /\ failures' = failures + 1
    /\ Goto(w, "done")
    /\ UNCHANGED << diskVars, running, poll, pageVars >>

\* The engine or the disk raises.
Raise(w) ==
    /\ At(w, "work")
    /\ failures < MaxFailures /\ failures' = failures + 1
    /\ Goto(w, "raised")
    /\ UNCHANGED << diskVars, running, poll, pageVars >>

\* Without "finally", an exception leaves the mark.
Bug_Unmark(w) ==
    /\ At(w, "done") \/ At(w, "raised")
    /\ running' = IF At(w, "done") THEN running \ {PaneOf(w)} ELSE running
    /\ work' = [work EXCEPT ![w] =
           IF At(w, "done") /\ work[w].at < Len(Panes)
           THEN [pc |-> "mark", at |-> work[w].at + 1, file |-> NoFile]
           ELSE [pc |-> "over", at |-> work[w].at, file |-> NoFile]]
    /\ UNCHANGED << diskVars, poll, pageVars, failures >>

\* One pane too many.
Bug_NextPane(w) ==
    /\ At(w, "done") \/ At(w, "raised")
    /\ running' = running \ {PaneOf(w)}
    /\ work' = [work EXCEPT ![w] =
           IF At(w, "done") /\ work[w].at <= Len(Panes)
           THEN [pc |-> "mark", at |-> work[w].at + 1, file |-> NoFile]
           ELSE [pc |-> "over", at |-> work[w].at, file |-> NoFile]]
    /\ UNCHANGED << diskVars, poll, pageVars, failures >>

\* The finally clause; then the next pane.  An exception ends the thread, and the
\* panes it has not come to are left as they were.
Unmark(w) ==
    /\ At(w, "done") \/ At(w, "raised")
    /\ running' = running \ {PaneOf(w)}
    /\ work' = [work EXCEPT ![w] =
           IF At(w, "done") /\ work[w].at < Len(Panes)
           THEN [pc |-> "mark", at |-> work[w].at + 1, file |-> NoFile]
           ELSE [pc |-> "over", at |-> work[w].at, file |-> NoFile]]
    /\ UNCHANGED << diskVars, poll, pageVars, failures >>

Worker(w) ==
    \/ Mark(w) \/ Look(w) \/ Remove(w) \/ Open(w) \/ Work(w) \/ Unmark(w)
    \/ Finish(w) \/ FinishUnwritten(w)

------------------------------------------------------------------------------
(* /api/state, for one pane: _pane_state                                   *)

Reading(r, pc) == poll[r].pc = pc
Reads == UNCHANGED << diskVars, running, work, pageVars, failures >>

\* The page does not wait for the answers to its earlier polls.
Send(r, p) ==
    /\ Reading(r, "idle")
    /\ poll' = [poll EXCEPT ![r].pc = "exists", ![r].pane = p]
    /\ Reads

Exists(r) ==
    /\ Reading(r, "exists")
    /\ poll' = [poll EXCEPT ![r].pc = IF path[poll[r].pane] = NoFile THEN "reply" ELSE "open"]
    /\ Reads

OpenReadOnly(r) ==
    /\ Reading(r, "open")
    /\ LET file == path[poll[r].pane] IN
           poll' = [poll EXCEPT ![r] = [@ EXCEPT
               !.pc = IF file = NoFile THEN "fallback" ELSE "read", !.file = file]]
    /\ Reads

\* _open_read_only: if that fails, the journal is opened like a worker does.
Fallback(r) ==
    /\ Reading(r, "fallback")
    /\ \E file \in 1 .. Len(files) + 1 :
           /\ Opens(poll[r].pane, file)
           /\ poll' = [poll EXCEPT ![r] = [@ EXCEPT !.pc = "read", !.file = file]]
    /\ UNCHANGED << sidecar, running, work, pageVars, failures >>

\* latest_workflow and derive_state.
ReadJournal(r) ==
    /\ Reading(r, "read")
    /\ LET rows == files[poll[r].file] IN
           poll' = [poll EXCEPT ![r] = [@ EXCEPT
               !.pc = IF rows = NoRows THEN "reply" ELSE "verdict", !.reply.rows = rows]]
    /\ Reads

\* read_verdict, after the journal.
ReadVerdict(r) ==
    /\ Reading(r, "verdict")
    /\ poll' = [poll EXCEPT ![r] = [@ EXCEPT !.pc = "reply",
                                             !.reply.verdict = sidecar[poll[r].pane]]]
    /\ Reads

Read(r) == Exists(r) \/ OpenReadOnly(r) \/ Fallback(r) \/ ReadJournal(r) \/ ReadVerdict(r)

------------------------------------------------------------------------------
(* The page                                                                *)

\* A pane that has something to show is left alone.
Bug_Tick(r) ==
    /\ Reading(r, "reply")
    /\ shown' = [shown EXCEPT ![poll[r].pane] = IF @ = Nothing THEN poll[r].reply ELSE @]
    /\ poll' = [poll EXCEPT ![r] = Unsent]
    /\ UNCHANGED << diskVars, running, work, health, button, failures >>

\* tick: an answer is shown when it arrives, whichever was asked first.
Tick(r) ==
    /\ Reading(r, "reply")
    /\ shown' = [shown EXCEPT ![poll[r].pane] = poll[r].reply]
    /\ poll' = [poll EXCEPT ![r] = Unsent]
    /\ UNCHANGED << diskVars, running, work, health, button, failures >>

\* /api/health answers with a copy of the table.
Health ==
    /\ health = "none"
    /\ health' = IF running = {} THEN "free" ELSE "busy"
    /\ UNCHANGED << diskVars, running, work, poll, button, shown, failures >>

\* pollRunning
PollRunning ==
    /\ health # "none"
    /\ button' = (health = "free") /\ health' = "none"
    /\ UNCHANGED << diskVars, running, work, poll, shown, failures >>

------------------------------------------------------------------------------
Next ==
    \/ \E w \in Runs : Click(w) \/ Worker(w) \/ Raise(w)
    \/ \E r \in Polls : Read(r) \/ Tick(r) \/ \E p \in Pane : Send(r, p)
    \/ Health \/ PollRunning

Spec == Init /\ [][Next]_vars

\* Workers and readers run on, answers arrive, and the page goes on polling every
\* pane (setInterval).  Nobody has to click, and nothing has to fail.
FairSpec ==
    /\ Spec
    /\ \A w \in Runs : WF_vars(Worker(w))
    /\ \A r \in Polls : WF_vars(Read(r)) /\ WF_vars(Tick(r))
    /\ \A p \in Pane : SF_vars(\E r \in Polls : Send(r, p))
    /\ WF_vars(Health) /\ WF_vars(PollRunning)

------------------------------------------------------------------------------
(* Properties                                                              *)

Points == {"idle", "mark", "look", "remove", "open", "work", "done", "raised", "over"}
Stages == {"idle", "exists", "open", "fallback", "read", "verdict", "reply"}
File   == [Runs -> 0 .. Rows]
Reply  == [rows : File, verdict : Runs \cup {NoRun}]

TypeOK ==
    /\ files \in Seq(File) /\ path \in [Pane -> 0 .. Len(files)]
    /\ sidecar \in [Pane -> Runs \cup {NoRun}]
    /\ running \subseteq Pane
    /\ work \in [Runs -> [pc : Points, at : DOMAIN Panes, file : 0 .. Len(files)]]
    /\ poll \in [Polls -> [pc : Stages, pane : Pane, file : 0 .. Len(files), reply : Reply]]
    /\ health \in {"none", "busy", "free"} /\ button \in BOOLEAN
    /\ shown \in [Pane -> Reply]
    /\ failures \in 0 .. MaxFailures

\* Run w is between its mark on pane p and the pop.
Inside(w, p) ==
    /\ work[w].pc \in {"look", "remove", "open", "work", "done", "raised"}
    /\ PaneOf(w) = p

\* A pane marked as running has a worker on it, however runs end and whichever run
\* marked it: the button is not held back by a run that is over (/api/health).
MarkedIsWorked == \A p \in running : \E w \in Runs : Inside(w, p)

\* With one run at a time, every run starts on an empty journal, although a reader
\* may make one between the removal and the opening (make_ctx, _open_read_only).
CleanStart ==
    \A w \in Runs : At(w, "work") =>
        \A v \in Runs \ {w} : files[work[w].file][v] = 0

\* With one run at a time, where nobody is at work on a pane the verdict on file is
\* that of the journal at the pane's path, which is complete, unless something failed.
VerdictAtRest ==
    \A p \in Pane, w \in Runs :
        (sidecar[p] = w /\ failures = 0 /\ ~ \E v \in Runs : Inside(v, p)) =>
            /\ path[p] # NoFile
            /\ files[path[p]] = [NoRows EXCEPT ![w] = Rows]

\* What /api/state would say of a pane now.
Current(p) ==
    IF path[p] = NoFile \/ files[path[p]] = NoRows THEN Nothing
    ELSE [rows |-> files[path[p]], verdict |-> sidecar[p]]

\* In the end the page shows what is on disk, whatever it asked while runs wiped and
\* wrote and in whichever order the answers came, and the Run button has come back,
\* after runs that failed as well (tick, pollRunning).
PageCatchesUp == <>[](button /\ \A p \in Pane : shown[p] = Current(p))
=============================================================================
