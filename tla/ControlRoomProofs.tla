------------------------- MODULE ControlRoomProofs -------------------------
(***************************************************************************)
(* Any number of panes, runs and polls.  No pane stays marked after its    *)
(* run; and where the presenter waits for a run to be over, every run      *)
(* starts clean and the verdict on file is that of the journal on file,    *)
(* whatever the page reads meanwhile.                                      *)
(***************************************************************************)
EXTENDS ControlRoom, SequenceTheorems, TLAPS

------------------------------------------------------------------------------
(* Types                                                                   *)

LEMMA SomeFile == NoRows \in File /\ Nothing \in Reply
BY ControlRoomAssumption DEF NoRows, File, Nothing, Reply

\* What opening a journal does to the files and to the paths.
LEMMA OpensDoes ==
    ASSUME TypeOK, NEW p \in Pane, NEW file \in 1 .. Len(files) + 1, Opens(p, file)
    PROVE  /\ files' \in Seq(File) /\ Len(files) <= Len(files') /\ file \in 1 .. Len(files')
           /\ \A i \in 1 .. Len(files) : files'[i] = files[i]
           /\ path' \in [Pane -> 0 .. Len(files')]
           /\ path'[p] = file /\ \A q \in Pane \ {p} : path'[q] = path[q]
           /\ \/ path[p] # NoFile /\ path[p] = file
              \/ path[p] = NoFile /\ file = Len(files) + 1 /\ files'[file] = NoRows
<1>1. /\ files \in Seq(File) /\ Len(files) \in Nat /\ path \in [Pane -> 0 .. Len(files)]
      /\ NoRows \in File
  BY SomeFile DEF TypeOK
<1>2. CASE path[p] # NoFile
  <2>1. file = path[p] /\ UNCHANGED << files, path >>
    BY <1>2 DEF Opens
  <2>2. path[p] \in 1 .. Len(files)
    BY <1>1, <1>2 DEF NoFile
  <2> QED BY <1>1, <1>2, <2>1, <2>2
<1>3. CASE path[p] = NoFile
  <2>1. /\ file = Len(files) + 1 /\ files' = Append(files, NoRows)
        /\ path' = [path EXCEPT ![p] = file]
    BY <1>3 DEF Opens
  <2>2. /\ files' \in Seq(File) /\ Len(files') = Len(files) + 1
        /\ \A i \in 1 .. Len(files) : files'[i] = files[i]
        /\ files'[Len(files) + 1] = NoRows
    BY <1>1, <2>1, AppendProperties
  <2>3. path' \in [Pane -> 0 .. Len(files')]
    BY <1>1, <2>1, <2>2
  <2> QED BY <1>1, <1>3, <2>1, <2>2, <2>3
<1> QED BY <1>2, <1>3

WorkType == [pc : Points, at : DOMAIN Panes, file : 0 .. Len(files)]
PollType == [pc : Stages, pane : Pane, file : 0 .. Len(files), reply : Reply]

\* What all steps have in common: files are only added and written to.
LEMMA Grown ==
    ASSUME TypeOK, files' \in Seq(File), Len(files) <= Len(files')
    PROVE  /\ work \in [Runs -> WorkType'] /\ poll \in [Polls -> PollType']
           /\ \A w \in Runs : work[w] \in WorkType'
           /\ \A r \in Polls : poll[r] \in PollType'
           /\ path \in [Pane -> 0 .. Len(files')]
<1>1. Len(files) \in Nat /\ Len(files') \in Nat
  BY DEF TypeOK
<1>2. 0 .. Len(files) \subseteq 0 .. Len(files')
  BY <1>1
<1>3. WorkType \subseteq WorkType' /\ PollType \subseteq PollType'
  BY <1>2 DEF WorkType, PollType
<1>4. work \in [Runs -> WorkType] /\ poll \in [Polls -> PollType]
      /\ path \in [Pane -> 0 .. Len(files)]
  BY DEF TypeOK, WorkType, PollType
<1>5. \A w \in Runs : work[w] \in WorkType'
  BY <1>3, <1>4
<1>6. \A r \in Polls : poll[r] \in PollType'
  BY <1>3, <1>4
<1>7. path \in [Pane -> 0 .. Len(files')]
  BY <1>2, <1>4
<1>8. work \in [Runs -> WorkType'] /\ poll \in [Polls -> PollType']
  BY <1>4, <1>5, <1>6
<1> QED BY <1>5, <1>6, <1>7, <1>8

\* Whoever reads has a file open.
ReadsAFile == \A r \in Polls : Reading(r, "read") => poll[r].file # NoFile

LEMMA TypeNext == TypeOK /\ ReadsAFile /\ [Next]_vars => TypeOK'
<1> SUFFICES ASSUME TypeOK, ReadsAFile, [Next]_vars PROVE TypeOK'
  OBVIOUS
<1> USE ControlRoomAssumption
<1>0. /\ files \in Seq(File) /\ Len(files) \in Nat
      /\ \A w \in Runs : PaneOf(w) \in Pane /\ work[w] \in WorkType
      /\ \A r \in Polls : poll[r] \in PollType
      /\ Unsent.reply \in Reply
  BY SomeFile DEF TypeOK, PaneOf, Pane, WorkType, PollType, Unsent
<1>1. ASSUME NEW w \in Runs, Click(w) \/ Mark(w) \/ Look(w) \/ Remove(w) \/ Finish(w)
             \/ FinishUnwritten(w) \/ Raise(w)
      PROVE  TypeOK'
  <2>1. UNCHANGED files
    BY <1>1 DEF Click, Mark, Look, Remove, Finish, FinishUnwritten, Raise, diskVars
  <2>2. work' \in [Runs -> WorkType]
    <3>1. PICK pc \in Points : Goto(w, pc)
      BY <1>1 DEF Click, Mark, Look, Remove, Finish, FinishUnwritten, Raise, Points
    <3>2. work \in [Runs -> WorkType]
      BY DEF TypeOK, WorkType
    <3> QED BY <3>1, <3>2 DEF Goto, WorkType
  <2>3. UNCHANGED << poll, health, shown >>
    BY <1>1 DEF Click, Mark, Look, Remove, Finish, FinishUnwritten, Raise, pageVars
  <2>4. path' \in [Pane -> 0 .. Len(files)]
    <3>1. path' = path \/ path' = [path EXCEPT ![PaneOf(w)] = NoFile]
      BY <1>1 DEF Click, Mark, Look, Remove, Finish, FinishUnwritten, Raise, diskVars
    <3> QED BY <1>0, <3>1 DEF TypeOK, NoFile
  <2>5. sidecar' \in [Pane -> Runs \cup {NoRun}]
    <3>1. sidecar' = sidecar \/ sidecar' = [sidecar EXCEPT ![PaneOf(w)] = w]
      BY <1>1 DEF Click, Mark, Look, Remove, Finish, FinishUnwritten, Raise, diskVars
    <3> QED BY <1>0, <3>1 DEF TypeOK
  <2>6. running' \subseteq Pane /\ button' \in BOOLEAN
    <3>1. /\ running' = running \/ running' = running \cup {PaneOf(w)}
          /\ button' = button \/ button' = FALSE
      BY <1>1 DEF Click, Mark, Look, Remove, Finish, FinishUnwritten, Raise, pageVars
    <3> QED BY <1>0, <3>1 DEF TypeOK
  <2>7. failures' \in 0 .. MaxFailures
    <3>1. failures' = failures \/ (failures < MaxFailures /\ failures' = failures + 1)
      <4>1. CASE FinishUnwritten(w) \/ Raise(w)
        BY <4>1 DEF FinishUnwritten, Raise
      <4>2. CASE Click(w) \/ Mark(w) \/ Look(w) \/ Remove(w) \/ Finish(w)
        BY <4>2 DEF Click, Mark, Look, Remove, Finish
      <4> QED BY <1>1, <4>1, <4>2
    <3>2. failures \in 0 .. MaxFailures /\ MaxFailures \in Nat
      BY DEF TypeOK
    <3> QED BY <3>1, <3>2
  <2> QED BY <2>1, <2>2, <2>3, <2>4, <2>5, <2>6, <2>7 DEF TypeOK, WorkType
<1>2. ASSUME NEW w \in Runs, Open(w)
      PROVE  TypeOK'
  <2>1. PICK file \in 1 .. Len(files) + 1 :
           /\ Opens(PaneOf(w), file)
           /\ work' = [work EXCEPT ![w] = [@ EXCEPT !.pc = "work", !.file = file]]
    BY <1>2 DEF Open
  <2>2. /\ files' \in Seq(File) /\ Len(files) <= Len(files') /\ file \in 0 .. Len(files')
        /\ path' \in [Pane -> 0 .. Len(files')]
    BY <1>0, <2>1, OpensDoes
  <2>3. work' \in [Runs -> WorkType'] /\ poll \in [Polls -> PollType']
    BY <2>1, <2>2, Grown DEF WorkType, Points
  <2> QED BY <1>2, <2>2, <2>3 DEF TypeOK, Open, WorkType, PollType, pageVars
<1>3. ASSUME NEW w \in Runs, Work(w)
      PROVE  TypeOK'
  <2> DEFINE f == work[w].file
  <2>1. /\ files[f][w] < Rows /\ files' = [files EXCEPT ![f][w] = @ + 1] /\ f \in 0 .. Len(files)
    BY <1>0, <1>3 DEF Work, WorkType
  <2>2. files' \in Seq(File) /\ Len(files') = Len(files)
    <3>1. CASE f \in 1 .. Len(files)
      <4>1. files[f] \in File
        BY <1>0, <3>1, ElementOfSeq
      <4>2. [files[f] EXCEPT ![w] = @ + 1] \in File
        BY SMTT(30), <2>1, <4>1 DEF File
      <4>3. files' = [files EXCEPT ![f] = [files[f] EXCEPT ![w] = @ + 1]]
        BY <2>1
      <4> QED BY <1>0, <3>1, <4>2, <4>3, ExceptSeq
    <3>2. CASE f = 0
      <4>1. files' = files
        BY <1>0, <2>1, <3>2
      <4> QED BY <1>0, <4>1
    <3> QED BY <2>1, <3>1, <3>2, <1>0
  <2> QED BY <1>3, <2>2 DEF TypeOK, Work, pageVars
<1>4. ASSUME NEW w \in Runs, Unmark(w)
      PROVE  TypeOK'
  <2> DEFINE more == At(w, "done") /\ work[w].at < Len(Panes)
  <2>1. work[w].at \in DOMAIN Panes /\ (more => work[w].at + 1 \in DOMAIN Panes)
    BY <1>0 DEF WorkType
  <2>2. work' \in [Runs -> [pc : Points, at : DOMAIN Panes, file : 0 .. Len(files)]]
    BY <1>0, <1>4, <2>1 DEF TypeOK, WorkType, Unmark, Points, NoFile
  <2> QED BY <1>0, <1>4, <2>2 DEF TypeOK, Unmark, diskVars, pageVars
<1>5. ASSUME NEW r \in Polls, Exists(r) \/ OpenReadOnly(r) \/ ReadVerdict(r) \/ ReadJournal(r)
             \/ \E p \in Pane : Send(r, p)
      PROVE  TypeOK'
  <2>1. /\ poll[r] \in PollType /\ path[poll[r].pane] \in 0 .. Len(files)
        /\ sidecar[poll[r].pane] \in Runs \cup {NoRun}
    BY <1>0 DEF TypeOK, PollType
  <2>2. Reading(r, "read") => files[poll[r].file] \in File
    <3> SUFFICES ASSUME Reading(r, "read") PROVE files[poll[r].file] \in File
      OBVIOUS
    <3>1. poll[r].file \in 1 .. Len(files)
      BY <2>1, <1>0 DEF ReadsAFile, NoFile, PollType
    <3> QED BY <1>0, <3>1, ElementOfSeq
  <2>3. poll' \in [Polls -> PollType]
    <3>1. poll \in [Polls -> PollType]
      BY DEF TypeOK, PollType
    <3>2. CASE Exists(r)
      BY <2>1, <3>1, <3>2 DEF Exists, PollType, Stages
    <3>3. CASE OpenReadOnly(r)
      BY <2>1, <3>1, <3>3 DEF OpenReadOnly, PollType, Stages
    <3>4. CASE ReadVerdict(r)
      BY <2>1, <3>1, <3>4 DEF ReadVerdict, PollType, Stages, Reply
    <3>5. CASE ReadJournal(r)
      BY <2>1, <2>2, <3>1, <3>5 DEF ReadJournal, PollType, Stages, Reply
    <3>6. CASE \E p \in Pane : Send(r, p)
      <4>1. PICK p \in Pane :
               poll' = [poll EXCEPT ![r] = [poll[r] EXCEPT !.pc = "exists", !.pane = p]]
        BY <3>1, <3>6 DEF Send
      <4>2. [poll[r] EXCEPT !.pc = "exists", !.pane = p] \in PollType
        BY <2>1 DEF PollType, Stages
      <4> QED BY <3>1, <4>1, <4>2
    <3> QED BY <1>5, <3>2, <3>3, <3>4, <3>5, <3>6
  <2>4. UNCHANGED << diskVars, running, work, pageVars, failures >>
    BY <1>5 DEF Exists, OpenReadOnly, ReadVerdict, ReadJournal, Send, Reads
  <2> QED BY <2>3, <2>4 DEF TypeOK, diskVars, pageVars, PollType
<1>6. ASSUME NEW r \in Polls, Fallback(r)
      PROVE  TypeOK'
  <2>1. PICK file \in 1 .. Len(files) + 1 :
           /\ Opens(poll[r].pane, file)
           /\ poll' = [poll EXCEPT ![r] = [@ EXCEPT !.pc = "read", !.file = file]]
    BY <1>6 DEF Fallback
  <2>2. /\ files' \in Seq(File) /\ Len(files) <= Len(files') /\ file \in 0 .. Len(files')
        /\ path' \in [Pane -> 0 .. Len(files')]
    <3>1. poll[r].pane \in Pane
      BY <1>0 DEF PollType
    <3> QED BY <1>0, <2>1, <3>1, OpensDoes
  <2>3. poll' \in [Polls -> PollType'] /\ work \in [Runs -> WorkType']
    BY <2>1, <2>2, Grown DEF PollType, Stages
  <2> QED BY <1>6, <2>2, <2>3 DEF TypeOK, Fallback, WorkType, PollType, pageVars
<1>7. ASSUME NEW r \in Polls, Tick(r)
      PROVE  TypeOK'
  <2>1. poll[r].reply \in Reply /\ Unsent \in PollType
    BY <1>0 DEF PollType, Unsent, Pane, Stages, NoFile
  <2> QED BY <1>7, <2>1 DEF TypeOK, Tick, PollType, diskVars
<1>8. ASSUME Health \/ PollRunning
      PROVE  TypeOK'
  BY <1>8 DEF TypeOK, Health, PollRunning, diskVars
<1>9. CASE UNCHANGED vars
  BY <1>9 DEF TypeOK, vars, diskVars, pageVars
<1> HIDE DEF TypeOK
<1> QED BY <1>1, <1>2, <1>3, <1>4, <1>5, <1>6, <1>7, <1>8, <1>9 DEF Next, Worker, Read

LEMMA ReadsNext == TypeOK /\ ReadsAFile /\ [Next]_vars => ReadsAFile'
<1> SUFFICES ASSUME TypeOK, ReadsAFile, [Next]_vars, NEW s \in Polls, Reading(s, "read")'
             PROVE  poll'[s].file # NoFile
  BY DEF ReadsAFile
<1>1. UNCHANGED poll => poll'[s].file # NoFile
  BY DEF ReadsAFile, Reading
<1>2. ASSUME NEW r \in Polls, Read(r) \/ Tick(r) \/ \E p \in Pane : Send(r, p)
      PROVE  poll'[s].file # NoFile
  <2>0. poll \in [Polls -> PollType] /\ Len(files) \in Nat
    BY DEF TypeOK, PollType
  <2>1. CASE s # r
    <3>1. poll'[s] = poll[s]
      BY <1>2, <2>0, <2>1 DEF Read, Exists, OpenReadOnly, Fallback, ReadJournal, ReadVerdict,
                              Tick, Send
    <3> QED BY <3>1 DEF ReadsAFile, Reading
  <2>2. CASE s = r
    <3>1. poll'[r].pc = "read"
      BY <2>2 DEF Reading
    <3>2. ~ Exists(r) /\ ~ ReadJournal(r) /\ ~ ReadVerdict(r) /\ ~ Tick(r)
      <4>1. ~ Exists(r)
        BY <2>0, <3>1 DEF Exists, PollType
      <4>2. ~ ReadJournal(r)
        BY ZenonT(30), <2>0, <3>1 DEF ReadJournal, PollType
      <4>3. ~ ReadVerdict(r)
        BY <2>0, <3>1 DEF ReadVerdict, PollType
      <4>4. ~ Tick(r)
        BY <2>0, <3>1 DEF Tick, Unsent
      <4> QED BY <4>1, <4>2, <4>3, <4>4
    <3>5. ~ \E p \in Pane : Send(r, p)
      BY <2>0, <3>1 DEF Send, PollType
    <3>3. CASE OpenReadOnly(r)
      BY <2>0, <2>2, <3>1, <3>3 DEF OpenReadOnly, PollType
    <3>4. CASE Fallback(r)
      BY <2>0, <2>2, <3>4 DEF Fallback, PollType, NoFile
    <3> QED BY <1>2, <3>2, <3>3, <3>4, <3>5 DEF Read
  <2> QED BY <2>1, <2>2
<1>3. ASSUME NEW w \in Runs, Click(w) \/ Worker(w) \/ Raise(w)
      PROVE  UNCHANGED poll
  BY <1>3 DEF Click, Worker, Mark, Look, Remove, Open, Work, Unmark, Finish, FinishUnwritten,
              Raise
<1>4. Health \/ PollRunning \/ UNCHANGED vars => UNCHANGED poll
  BY DEF Health, PollRunning, vars
<1> QED BY <1>1, <1>2, <1>3, <1>4 DEF Next

\* The model's variables have their types, for any number of panes, runs and polls.
THEOREM TypeCorrect == Spec => [](TypeOK /\ ReadsAFile)
<1>1. Init => TypeOK /\ ReadsAFile
  <2> SUFFICES ASSUME Init PROVE TypeOK /\ ReadsAFile
    OBVIOUS
  <2>1. files \in Seq(File) /\ Len(files) = 0
    BY DEF Init
  <2>2. 1 \in DOMAIN Panes /\ Panes[1] \in Pane
    BY ControlRoomAssumption DEF Pane
  <2>3. Unsent \in PollType /\ Unsent.pc = "idle"
    BY <2>1, <2>2, SomeFile DEF Unsent, PollType, Stages, NoFile
  <2>4. TypeOK
    BY <2>1, <2>2, <2>3, SomeFile, ControlRoomAssumption
       DEF Init, TypeOK, PollType, Points, NoFile
  <2>5. ReadsAFile
    BY <2>3 DEF Init, ReadsAFile, Reading
  <2> QED BY <2>4, <2>5
<1> QED BY <1>1, TypeNext, ReadsNext, PTL DEF Spec

------------------------------------------------------------------------------
(* The marks                                                               *)

\* No step leaves a marked pane without its worker.
LEMMA MarksNext == TypeOK /\ MarkedIsWorked /\ [Next]_vars => MarkedIsWorked'
<1> SUFFICES ASSUME TypeOK, MarkedIsWorked, [Next]_vars, NEW p \in running'
             PROVE  \E w \in Runs : Inside(w, p)'
  BY DEF MarkedIsWorked
<1> work \in [Runs -> WorkType]
  BY DEF TypeOK, WorkType
<1>1. ASSUME UNCHANGED << running, work >>
      PROVE  \E w \in Runs : Inside(w, p)'
  BY <1>1 DEF MarkedIsWorked, Inside, PaneOf
<1>2. ASSUME NEW w \in Runs, Mark(w)
      PROVE  \E v \in Runs : Inside(v, p)'
  <2>1. CASE p = PaneOf(w)
    <3>1. work'[w].pc = "look" /\ work'[w].at = work[w].at
      BY <1>2 DEF Mark, Goto, WorkType
    <3> QED BY <2>1, <3>1 DEF Inside, PaneOf
  <2>2. CASE p # PaneOf(w)
    <3>1. PICK v \in Runs : Inside(v, p)
      BY <1>2, <2>2 DEF Mark, MarkedIsWorked
    <3>2. v # w
      BY <1>2, <3>1 DEF Mark, At, Inside
    <3>3. work'[v] = work[v]
      BY <1>2, <3>2 DEF Mark, Goto
    <3> QED BY <3>1, <3>3 DEF Inside, PaneOf
  <2> QED BY <2>1, <2>2
<1>3. ASSUME NEW w \in Runs, Unmark(w)
      PROVE  \E v \in Runs : Inside(v, p)'
  <2>1. p \in running /\ p # PaneOf(w)
    BY <1>3 DEF Unmark
  <2>2. PICK v \in Runs : Inside(v, p)
    BY <2>1 DEF MarkedIsWorked
  <2>3. work'[v] = work[v]
    BY <1>3, <2>1, <2>2 DEF Unmark, Inside
  <2> QED BY <2>2, <2>3 DEF Inside, PaneOf
<1>4. ASSUME NEW w \in Runs, Click(w) \/ Look(w) \/ Remove(w) \/ Open(w) \/ Work(w)
             \/ Finish(w) \/ FinishUnwritten(w) \/ Raise(w)
      PROVE  \E v \in Runs : Inside(v, p)'
  <2>1. UNCHANGED running
    BY <1>4 DEF Click, Look, Remove, Open, Work, Finish, FinishUnwritten, Raise
  <2>2. PICK v \in Runs : Inside(v, p)
    BY <2>1 DEF MarkedIsWorked
  <2>3. CASE v # w
    <3>1. work'[v] = work[v]
      BY <1>4, <2>3 DEF Click, Look, Remove, Open, Work, Finish, FinishUnwritten, Raise, Goto
    <3> QED BY <2>2, <3>1 DEF Inside, PaneOf
  <2>4. CASE v = w
    <3>1. work'[v].at = work[v].at
      BY <1>4, <2>4 DEF Click, Look, Remove, Open, Work, Finish, FinishUnwritten, Raise, Goto,
                        WorkType
    <3>2. work'[v].pc \in {"look", "remove", "open", "work", "done", "raised"}
      BY <1>4, <2>2, <2>4 DEF Click, Look, Remove, Open, Work, Finish, FinishUnwritten, Raise,
                              Goto, WorkType, Inside, At
    <3> QED BY <2>2, <3>1, <3>2 DEF Inside, PaneOf
  <2> QED BY <2>3, <2>4
<1>5. ASSUME NEW r \in Polls, Read(r) \/ Tick(r) \/ \E q \in Pane : Send(r, q)
      PROVE  UNCHANGED << running, work >>
  BY <1>5 DEF Read, Exists, OpenReadOnly, Fallback, ReadJournal, ReadVerdict, Tick, Send, Reads
<1>6. Health \/ PollRunning \/ UNCHANGED vars => UNCHANGED << running, work >>
  BY DEF Health, PollRunning, vars
<1> QED BY <1>1, <1>2, <1>3, <1>4, <1>5, <1>6 DEF Next, Worker

\* No pane stays marked when its run is over, whoever clicks when: POST /api/run
\* and its finally clause.
THEOREM MarkedIsWorkedHolds == Spec => []MarkedIsWorked
<1>1. Init => MarkedIsWorked
  BY DEF Init, MarkedIsWorked
<1> QED BY <1>1, MarksNext, TypeCorrect, PTL DEF Spec

------------------------------------------------------------------------------
(* One run at a time                                                       *)

\* Steps of workers and of the presenter.
Moves(w) == Click(w) \/ Worker(w) \/ Raise(w)

Alone == \A v, w \in Runs : InFlight(v) /\ InFlight(w) => v = w

\* No two panes have a file in common.
OwnPaths == \A p, q \in Pane : path[p] = path[q] /\ path[p] # NoFile => p = q

\* What a worker may rely on, wherever it is.
Sees(w) ==
    /\ At(w, "remove") => path[PaneOf(w)] # NoFile
    /\ At(w, "open") => path[PaneOf(w)] = NoFile \/ files[path[PaneOf(w)]] = NoRows
    /\ At(w, "work") \/ At(w, "done") =>
           /\ work[w].file = path[PaneOf(w)] /\ path[PaneOf(w)] # NoFile
           /\ \A v \in Runs \ {w} : files[path[PaneOf(w)]][v] = 0
    /\ At(w, "done") =>
           /\ files[path[PaneOf(w)]][w] = Rows
           /\ failures = 0 => sidecar[PaneOf(w)] = w
    /\ At(w, "raised") => failures > 0

RestInv == Alone /\ OwnPaths /\ (\A w \in Runs : Sees(w)) /\ VerdictAtRest

LEMMA OneAtWork ==
    ASSUME Patient, TypeOK, Alone, NEW w \in Runs, Moves(w)
    PROVE  /\ \A v \in Runs \ {w} : work'[v] = work[v] /\ ~ InFlight(v)
           /\ Alone'
<1> work \in [Runs -> WorkType]
  BY DEF TypeOK, WorkType
<1>1. \A v \in Runs \ {w} : ~ InFlight(v)
  <2>1. CASE Click(w)
    BY <2>1 DEF Click
  <2>2. CASE Worker(w) \/ Raise(w)
    <3>1. InFlight(w)
      BY <2>2 DEF Worker, Raise, Mark, Look, Remove, Open, Work, Unmark, Finish,
                  FinishUnwritten, At, InFlight
    <3> QED BY <3>1 DEF Alone
  <2> QED BY <2>1, <2>2 DEF Moves
<1>2. \A v \in Runs \ {w} : work'[v] = work[v]
  BY DEF Moves, Click, Worker, Raise, Mark, Look, Remove, Open, Work, Unmark, Finish,
         FinishUnwritten, Goto
<1>3. \A v \in Runs \ {w} : ~ InFlight(v)'
  BY <1>1, <1>2 DEF InFlight
<1> QED BY <1>1, <1>2, <1>3 DEF Alone

\* A worker leaves the panes it is not at alone.
LEMMA Elsewhere ==
    ASSUME TypeOK, OwnPaths, NEW w \in Runs, Sees(w), Moves(w),
           NEW q \in Pane, q # PaneOf(w)
    PROVE  /\ sidecar'[q] = sidecar[q] /\ path'[q] = path[q]
           /\ path[q] # NoFile => files'[path[q]] = files[path[q]]
           /\ failures' = 0 => failures = 0
<1>0. /\ PaneOf(w) \in Pane /\ path \in [Pane -> 0 .. Len(files)] /\ Len(files) \in Nat
      /\ sidecar \in [Pane -> Runs \cup {NoRun}] /\ failures \in Nat /\ files \in Seq(File)
  BY DEF TypeOK, PaneOf, Pane
<1>1. CASE Click(w) \/ Mark(w) \/ Look(w) \/ Unmark(w)
  BY <1>1 DEF Click, Mark, Look, Unmark, diskVars
<1>2. CASE Remove(w)
  BY <1>0, <1>2 DEF Remove
<1>3. CASE Open(w)
  <2>1. PICK file \in 1 .. Len(files) + 1 : Opens(PaneOf(w), file)
    BY <1>3 DEF Open
  <2>2. /\ \A i \in 1 .. Len(files) : files'[i] = files[i]
        /\ \A p \in Pane \ {PaneOf(w)} : path'[p] = path[p]
    BY <1>0, <2>1, OpensDoes
  <2>3. path[q] # NoFile => path[q] \in 1 .. Len(files)
    BY <1>0 DEF NoFile
  <2> QED BY <1>3, <2>2, <2>3 DEF Open
<1>4. CASE Work(w)
  <2>1. work[w].file = path[PaneOf(w)] /\ path[PaneOf(w)] # NoFile
    BY <1>4 DEF Work, Sees
  <2>2. path[q] # NoFile => path[q] # work[w].file
    BY <1>0, <2>1 DEF OwnPaths
  <2>3. files' = [files EXCEPT ![work[w].file][w] = @ + 1]
    BY <1>4 DEF Work
  <2>4. path[q] # NoFile => path[q] \in DOMAIN files
    BY <1>0 DEF NoFile
  <2> QED BY <1>4, <2>2, <2>3, <2>4 DEF Work
<1>5. CASE Finish(w)
  BY <1>0, <1>5 DEF Finish
<1>6. CASE FinishUnwritten(w) \/ Raise(w)
  BY <1>0, <1>6 DEF FinishUnwritten, Raise, diskVars
<1> QED BY <1>1, <1>2, <1>3, <1>4, <1>5, <1>6 DEF Moves, Worker

\* What a worker relies on, after its own step.
LEMMA SeesNext ==
    ASSUME TypeOK, NEW w \in Runs, Sees(w), Moves(w)
    PROVE  Sees(w)'
<1> DEFINE p == PaneOf(w)
<1>0. /\ p \in Pane /\ path \in [Pane -> 0 .. Len(files)] /\ Len(files) \in Nat
      /\ sidecar \in [Pane -> Runs \cup {NoRun}] /\ failures \in Nat /\ files \in Seq(File)
      /\ work \in [Runs -> WorkType] /\ work[w] \in WorkType
  BY DEF TypeOK, PaneOf, Pane, WorkType
<1>1. CASE Click(w) \/ Mark(w) \/ Unmark(w)
  <2>1. work'[w].pc \in {"mark", "look", "over"}
    BY <1>0, <1>1 DEF Click, Mark, Unmark, Goto, WorkType
  <2> QED BY <2>1 DEF Sees, At
<1>2. CASE Look(w)
  <2>1. /\ work'[w].pc = IF path[p] = NoFile THEN "open" ELSE "remove"
        /\ work'[w].at = work[w].at
    BY <1>0, <1>2 DEF Look, Goto, WorkType
  <2>2. path' = path
    BY <1>2 DEF Look, diskVars
  <2> QED BY <2>1, <2>2 DEF Sees, At, PaneOf
<1>3. CASE Remove(w)
  <2>1. path[p] # NoFile
    BY <1>3 DEF Remove, Sees
  <2>2. work'[w].pc = "open" /\ work'[w].at = work[w].at
    BY <1>0, <1>3, <2>1 DEF Remove, Goto, WorkType
  <2>3. path'[p] = NoFile
    BY <1>0, <1>3 DEF Remove
  <2> QED BY <2>2, <2>3 DEF Sees, At, PaneOf
<1>4. CASE Open(w)
  <2>1. PICK file \in 1 .. Len(files) + 1 :
           /\ Opens(p, file)
           /\ work' = [work EXCEPT ![w] = [@ EXCEPT !.pc = "work", !.file = file]]
    BY <1>4 DEF Open
  <2>2. /\ \A i \in 1 .. Len(files) : files'[i] = files[i]
        /\ path'[p] = file
        /\ \/ path[p] # NoFile /\ path[p] = file
           \/ path[p] = NoFile /\ file = Len(files) + 1 /\ files'[file] = NoRows
    BY <1>0, <2>1, OpensDoes
  <2>3. files'[file] = NoRows
    <3>1. path[p] = NoFile \/ files[path[p]] = NoRows
      BY <1>4 DEF Open, Sees
    <3>2. path[p] # NoFile => path[p] \in 1 .. Len(files)
      BY <1>0 DEF NoFile
    <3> QED BY <2>2, <3>1, <3>2
  <2>4. work'[w].pc = "work" /\ work'[w].file = file /\ work'[w].at = work[w].at
    BY <1>0, <2>1 DEF WorkType
  <2>5. \A v \in Runs : files'[file][v] = 0
    BY <2>3 DEF NoRows
  <2>6. file # NoFile
    BY <1>0 DEF NoFile
  <2> QED BY <2>2, <2>4, <2>5, <2>6 DEF Sees, At, PaneOf
<1>5. CASE Work(w)
  <2>1. /\ work[w].file = path[p] /\ path[p] # NoFile
        /\ \A v \in Runs \ {w} : files[path[p]][v] = 0
    BY <1>5 DEF Work, Sees
  <2>2. path[p] \in DOMAIN files /\ files[path[p]] \in File
    <3>1. path[p] \in 1 .. Len(files)
      BY <1>0, <2>1 DEF NoFile
    <3> QED BY <1>0, <3>1, ElementOfSeq
  <2>3. files'[path[p]] = [files[path[p]] EXCEPT ![w] = @ + 1]
    BY <1>5, <2>1, <2>2 DEF Work
  <2>4. \A v \in Runs \ {w} : files'[path[p]][v] = 0
    BY <2>1, <2>2, <2>3 DEF File
  <2>5. work' = work /\ path' = path /\ At(w, "work")
    BY <1>5 DEF Work
  <2> QED BY <2>1, <2>4, <2>5 DEF Sees, At, PaneOf
<1>6. CASE Finish(w) \/ FinishUnwritten(w)
  <2>1. /\ work[w].file = path[p] /\ path[p] # NoFile /\ files[path[p]][w] = Rows
        /\ \A v \in Runs \ {w} : files[path[p]][v] = 0
    BY <1>6 DEF Finish, FinishUnwritten, Sees
  <2>2. files' = files /\ path' = path
    BY <1>6 DEF Finish, FinishUnwritten, diskVars
  <2>3. work'[w].pc = "done" /\ work'[w].file = work[w].file /\ work'[w].at = work[w].at
    BY <1>0, <1>6 DEF Finish, FinishUnwritten, Goto, WorkType
  <2>4. failures' = 0 => sidecar'[p] = w
    BY <1>0, <1>6 DEF Finish, FinishUnwritten
  <2> QED BY <2>1, <2>2, <2>3, <2>4 DEF Sees, At, PaneOf
<1>7. CASE Raise(w)
  <2>1. work'[w].pc = "raised" /\ failures' > 0
    BY <1>0, <1>7 DEF Raise, Goto, WorkType
  <2> QED BY <2>1 DEF Sees, At
<1> QED BY <1>1, <1>2, <1>3, <1>4, <1>5, <1>6, <1>7 DEF Moves, Worker

\* After a step of the only worker, what is at rest is still in order.
LEMMA RestMoves ==
    ASSUME Patient, TypeOK, RestInv, NEW w \in Runs, Moves(w)
    PROVE  VerdictAtRest'
<1> SUFFICES ASSUME NEW q \in Pane', NEW u \in Runs, sidecar'[q] = u, failures' = 0,
                    ~ \E v \in Runs : Inside(v, q)'
             PROVE  path'[q] # NoFile /\ files'[path'[q]] = [NoRows EXCEPT ![u] = Rows]
  BY DEF VerdictAtRest, NoRows
<1>0. /\ q \in Pane /\ PaneOf(w) \in Pane /\ work \in [Runs -> WorkType] /\ work[w] \in WorkType
      /\ files \in Seq(File) /\ path \in [Pane -> 0 .. Len(files)] /\ Len(files) \in Nat
  BY DEF Pane, TypeOK, PaneOf, WorkType
<1>1. \A v \in Runs \ {w} : work'[v] = work[v] /\ ~ InFlight(v)
  BY OneAtWork DEF RestInv
<1>2. \A v \in Runs \ {w} : ~ Inside(v, q)
  BY <1>1 DEF Inside, InFlight
<1>3. CASE q # PaneOf(w)
  <2>1. /\ sidecar[q] = u /\ path'[q] = path[q] /\ failures = 0
        /\ path[q] # NoFile => files'[path[q]] = files[path[q]]
    BY <1>0, <1>3, Elsewhere DEF RestInv
  <2>2. ~ Inside(w, q)
    BY <1>3 DEF Inside
  <2> QED BY <1>0, <1>2, <2>1, <2>2 DEF RestInv, VerdictAtRest
<1>4. CASE q = PaneOf(w)
  <2>1. CASE Click(w)
    <3>1. UNCHANGED diskVars /\ failures = 0 /\ At(w, "idle")
      BY <2>1 DEF Click
    <3>2. ~ Inside(w, q)
      BY <3>1 DEF Inside, At
    <3> QED BY <1>0, <1>2, <3>1, <3>2 DEF RestInv, VerdictAtRest, diskVars
  <2>2. CASE Unmark(w)
    <3>1. UNCHANGED diskVars /\ failures = 0
      BY <2>2 DEF Unmark
    <3>2. At(w, "done")
      BY <2>2, <3>1 DEF Unmark, RestInv, Sees
    <3>3. /\ u = w /\ path[q] # NoFile /\ files[path[q]][w] = Rows
          /\ \A v \in Runs \ {w} : files[path[q]][v] = 0
      BY <1>4, <3>1, <3>2 DEF RestInv, Sees, diskVars
    <3>4. files[path[q]] \in File
      <4>1. path[q] \in 1 .. Len(files)
        BY <1>0, <3>3 DEF NoFile
      <4> QED BY <1>0, <4>1, ElementOfSeq
    <3>5. files[path[q]] = [NoRows EXCEPT ![w] = Rows]
      BY <3>3, <3>4 DEF File, NoRows
    <3> QED BY <3>1, <3>3, <3>5 DEF diskVars
  <2>3. CASE Mark(w) \/ Look(w) \/ Remove(w) \/ Open(w) \/ Work(w) \/ Finish(w)
             \/ FinishUnwritten(w) \/ Raise(w)
    <3>1. CASE Open(w)
      <4>1. PICK file \in 1 .. Len(files) + 1 :
               work' = [work EXCEPT ![w] = [@ EXCEPT !.pc = "work", !.file = file]]
        BY <3>1 DEF Open
      <4>2. work'[w].at = work[w].at /\ work'[w].pc = "work"
        BY <1>0, <4>1 DEF WorkType
      <4> QED BY <1>4, <4>2 DEF Inside, PaneOf
    <3>2. CASE Work(w)
      BY <1>4, <3>2 DEF Work, At, Inside, PaneOf
    <3>3. ASSUME NEW pc \in {"look", "remove", "open", "done", "raised"}, Goto(w, pc)
          PROVE  Inside(w, q)'
      BY <1>0, <1>4, <3>3 DEF Goto, WorkType, Inside, PaneOf
    <3> QED BY <2>3, <3>1, <3>2, <3>3 DEF Mark, Look, Remove, Finish, FinishUnwritten, Raise
  <2> QED BY <2>1, <2>2, <2>3 DEF Moves, Worker
<1> QED BY <1>3, <1>4

\* Opening keeps the panes' files apart.
LEMMA OpensApart ==
    ASSUME TypeOK, OwnPaths, NEW p \in Pane, NEW file \in 1 .. Len(files) + 1, Opens(p, file)
    PROVE  OwnPaths'
<1>1. /\ path'[p] = file /\ \A q \in Pane \ {p} : path'[q] = path[q]
      /\ \/ path[p] # NoFile /\ path[p] = file
         \/ path[p] = NoFile /\ file = Len(files) + 1
  BY OpensDoes
<1>2. \A q \in Pane : path[q] \in 0 .. Len(files) /\ path[q] # Len(files) + 1
  BY DEF TypeOK
<1> QED BY <1>1, <1>2 DEF OwnPaths, Pane

LEMMA RestNext == Patient /\ TypeOK /\ RestInv /\ [Next]_vars => RestInv'
<1> SUFFICES ASSUME Patient, TypeOK, RestInv, [Next]_vars PROVE RestInv'
  OBVIOUS
<1>0. \A w \in Runs : PaneOf(w) \in Pane
  BY DEF TypeOK, PaneOf, Pane
<1>1. ASSUME NEW w \in Runs, Moves(w)
      PROVE  RestInv'
  <2>1. Alone' /\ \A v \in Runs \ {w} : work'[v] = work[v] /\ ~ InFlight(v)
    BY <1>1, OneAtWork DEF RestInv
  <2>2. OwnPaths'
    <3>1. CASE Open(w)
      <4>1. PICK file \in 1 .. Len(files) + 1 : Opens(PaneOf(w), file)
        BY <3>1 DEF Open
      <4> QED BY <1>0, <4>1, OpensApart DEF RestInv
    <3>2. CASE ~ Open(w)
      <4>1. path' = path \/ path' = [path EXCEPT ![PaneOf(w)] = NoFile]
        BY <1>1, <3>2 DEF Moves, Click, Worker, Raise, Mark, Look, Remove, Work, Unmark, Finish,
                          FinishUnwritten, diskVars
      <4>2. path \in [Pane -> 0 .. Len(files)] /\ Pane' = Pane
        BY DEF TypeOK, Pane
      <4> QED BY <1>0, <4>1, <4>2 DEF RestInv, OwnPaths
    <3> QED BY <3>1, <3>2
  <2>3. \A v \in Runs : Sees(v)'
    <3>1. Sees(w)'
      BY <1>1, SeesNext DEF RestInv
    <3>2. ASSUME NEW v \in Runs \ {w} PROVE Sees(v)'
      BY <2>1 DEF Sees, At, InFlight
    <3> QED BY <3>1, <3>2
  <2>4. VerdictAtRest'
    BY <1>1, RestMoves
  <2> QED BY <2>1, <2>2, <2>3, <2>4 DEF RestInv
<1>2. ASSUME NEW r \in Polls, Fallback(r)
      PROVE  RestInv'
  <2> DEFINE p == poll[r].pane
  <2>0. p \in Pane /\ Len(files) \in Nat /\ path \in [Pane -> 0 .. Len(files)]
    BY DEF TypeOK
  <2>1. PICK file \in 1 .. Len(files) + 1 : Opens(p, file)
    BY <1>2 DEF Fallback
  <2>2. /\ \A i \in 1 .. Len(files) : files'[i] = files[i]
        /\ path'[p] = file /\ \A q \in Pane \ {p} : path'[q] = path[q]
        /\ \/ path[p] # NoFile /\ path[p] = file
           \/ path[p] = NoFile /\ file = Len(files) + 1 /\ files'[file] = NoRows
    BY <2>0, <2>1, OpensDoes
  <2>3. UNCHANGED << work, sidecar, failures >>
    BY <1>2 DEF Fallback
  <2>4. \A q \in Pane : path[q] # NoFile =>
            path'[q] = path[q] /\ path[q] \in 1 .. Len(files)
            /\ files'[path'[q]] = files[path[q]]
    BY <2>0, <2>2 DEF NoFile
  <2>5. \A q \in Pane : path[q] = NoFile =>
            path'[q] = NoFile \/ files'[path'[q]] = NoRows
    BY <2>2
  <2>6. \A w \in Runs : PaneOf(w)' = PaneOf(w)
    BY <2>3 DEF PaneOf
  <2>7. OwnPaths'
    BY <2>0, <2>1, OpensApart DEF RestInv
  <2>8. ASSUME NEW w \in Runs PROVE Sees(w)'
    <3>1. Sees(w) /\ PaneOf(w) \in Pane
      BY <1>0 DEF RestInv
    <3>2. \A pc : At(w, pc)' <=> At(w, pc)
      BY <2>3 DEF At
    <3>3. path[PaneOf(w)] # NoFile =>
              path'[PaneOf(w)] = path[PaneOf(w)] /\ files'[path'[PaneOf(w)]] = files[path[PaneOf(w)]]
      BY <2>4, <3>1
    <3>4. path[PaneOf(w)] = NoFile =>
              path'[PaneOf(w)] = NoFile \/ files'[path'[PaneOf(w)]] = NoRows
      BY <2>5, <3>1
    <3> QED BY <2>3, <2>6, <3>1, <3>2, <3>3, <3>4 DEF Sees, NoRows
  <2>9. VerdictAtRest'
    <3> SUFFICES ASSUME NEW q \in Pane, NEW u \in Runs, sidecar[q] = u, failures = 0,
                        ~ \E v \in Runs : Inside(v, q)
                 PROVE  path'[q] # NoFile /\ files'[path'[q]] = [NoRows EXCEPT ![u] = Rows]
      BY <2>3 DEF VerdictAtRest, Inside, PaneOf, Pane, NoRows
    <3>1. path[q] # NoFile /\ files[path[q]] = [NoRows EXCEPT ![u] = Rows]
      BY DEF RestInv, VerdictAtRest
    <3> QED BY <2>4, <3>1
  <2>10. Alone'
    BY <2>3 DEF RestInv, Alone, InFlight
  <2> QED BY <2>7, <2>8, <2>9, <2>10 DEF RestInv
<1>3. ASSUME UNCHANGED << files, path, sidecar, work, failures >>
      PROVE  RestInv'
  <2>1. Alone' /\ OwnPaths'
    BY <1>3 DEF RestInv, Alone, OwnPaths, InFlight, Pane
  <2>2. \A w \in Runs : Sees(w)'
    BY <1>3 DEF RestInv, Sees, At, PaneOf, NoRows
  <2>3. VerdictAtRest'
    BY <1>3 DEF RestInv, VerdictAtRest, Inside, PaneOf, NoRows, Pane
  <2> QED BY <2>1, <2>2, <2>3 DEF RestInv
<1>4. ASSUME NEW r \in Polls, Exists(r) \/ OpenReadOnly(r) \/ ReadJournal(r) \/ ReadVerdict(r)
             \/ Tick(r) \/ \E p \in Pane : Send(r, p)
      PROVE  RestInv'
  BY <1>3, <1>4 DEF Exists, OpenReadOnly, ReadJournal, ReadVerdict, Tick, Send, Reads, diskVars
<1>5. ASSUME Health \/ PollRunning \/ UNCHANGED vars
      PROVE  RestInv'
  BY <1>3, <1>5 DEF Health, PollRunning, vars, diskVars
<1> HIDE DEF RestInv
<1> QED BY <1>1, <1>2, <1>4, <1>5 DEF Next, Moves, Read

\* Where the presenter waits for a run to be over before the next, whatever is read
\* meanwhile and whatever fails, the invariant above holds.
LEMMA RestHolds == ASSUME Patient PROVE Spec => []RestInv
<1>1. Init => RestInv
  <2> SUFFICES ASSUME Init PROVE RestInv
    OBVIOUS
  <2>1. /\ \A w \in Runs : work[w].pc = "idle"
        /\ \A p \in Pane : path[p] = NoFile /\ sidecar[p] = NoRun
    BY DEF Init
  <2>2. Alone /\ OwnPaths /\ \A w \in Runs : Sees(w)
    BY <2>1 DEF Alone, OwnPaths, Sees, InFlight, At
  <2>3. VerdictAtRest
    BY <2>1, ControlRoomAssumption DEF VerdictAtRest
  <2> QED BY <2>2, <2>3 DEF RestInv
<1>2. TypeOK /\ RestInv /\ [Next]_vars => RestInv'
  BY RestNext
<1> QED BY <1>1, <1>2, TypeCorrect, PTL DEF Spec

\* One run at a time: every run starts on an empty journal, whatever the page's
\* readers open between make_ctx's removal and the worker's opening.
THEOREM CleanStartHolds == ASSUME Patient PROVE Spec => []CleanStart
<1>1. RestInv => CleanStart
  BY DEF RestInv, Sees, CleanStart
<1> QED BY <1>1, RestHolds, PTL

\* One run at a time: the verdict on file beside a pane at rest is that of the run
\* whose complete journal is on file, unless something failed.
THEOREM VerdictAtRestHolds == ASSUME Patient PROVE Spec => []VerdictAtRest
<1>1. RestInv => VerdictAtRest
  BY DEF RestInv
<1> QED BY <1>1, RestHolds, PTL
=============================================================================
