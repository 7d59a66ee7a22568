---------------------------- MODULE WindowPlugin ----------------------------
(***************************************************************************)
(* The YouTube plugin of the Windows port (plugin.cpp).  It starts Chrome  *)
(* without a handle to the process, so it finds its window by comparison:  *)
(* the windows with the title of the application before the start, and     *)
(* those after a sleep of four seconds.  The lock of the server makes one  *)
(* callback run at a time; windows open, change their title and close      *)
(* between any two of its steps.                                           *)
(*                                                                         *)
(* Assumption: the handle of a closed window is not given to another one.  *)
(* The plugin compares only handles and would take the two for the same.   *)
(***************************************************************************)
EXTENDS Naturals

CONSTANTS
    Handles,    \* handles of windows of class Chrome_WidgetWin_1
    NoWindow,   \* NULL
    MaxCalls    \* bound: callbacks

ASSUME WindowAssumption ==
    /\ NoWindow \notin Handles
    /\ MaxCalls \in Nat

Operations == {"start", "hide", "status", "stop"}
Answers == {"running", "stopped", "none"}

User == 0
Openers == Nat  \* User, or the number of the start

VARIABLES
    windows,    \* the window of each handle
    wnds,       \* handles in wnds, which is never cleared
    spAppYouTubeWindow,
    pc,         \* where the callback is, "idle" between two callbacks
    op,         \* the callback
    calls,      \* its number
    pid,        \* what isWndRunning gave to youtube_stop
    answer,     \* what the callback returned
    pending,    \* starts whose window has not opened
    \* auxiliary
    steady,     \* windows that have had the title since the callback began
    foreign,    \* windows that a start found and that were not the plugin's
    launched    \* the window of the last start, if no other was new

plugin == <<wnds, spAppYouTubeWindow, pc, op, calls, pid, answer>>
aux == <<steady, foreign, launched>>
vars == <<windows, plugin, pending, aux>>

Window == [state : {"unused", "open", "closed"}, titled : BOOLEAN, by : Openers]

Open == {h \in Handles : windows[h].state = "open"}

\* The windows that EnumWindows finds with the title.
Titled == {h \in Open : windows[h].titled}

Init ==
    /\ windows \in [Handles -> {[state |-> "unused", titled |-> FALSE, by |-> User],
                                [state |-> "open", titled |-> TRUE, by |-> User]}]
    /\ wnds = {}
    /\ spAppYouTubeWindow = NoWindow
    /\ pc = "idle"
    /\ op = "status"
    /\ calls = 0
    /\ pid = NoWindow
    /\ answer = "none"
    /\ pending = {}
    /\ steady = {}
    /\ foreign = {}
    /\ launched = NoWindow

-----------------------------------------------------------------------------
(* The callbacks.                                                          *)

\* Mutant: the snapshot is taken when Chrome has been told to start.
StepAfterLate(step) ==
    CASE step = "start" -> "launch"
      [] step = "launch" -> "snapshot"
      [] step = "snapshot" -> "identify"
      [] step = "identify" -> "fullscreen"
      [] OTHER -> "idle"

\* The steps of youtube_start; all other callbacks begin with isWndRunning.
StepAfter(step) ==
    CASE step = "start" -> "snapshot"
      [] step = "snapshot" -> "launch"
      [] step = "launch" -> "identify"
      [] step = "identify" -> "fullscreen"
      [] OTHER -> "idle"

Begin(o) ==
    /\ pc = "idle"
    /\ calls < MaxCalls
    /\ calls' = calls + 1
    /\ op' = o
    /\ pc' = IF o = "start" THEN StepAfter("start") ELSE "look"
    /\ pid' = NoWindow
    /\ answer' = "none"
    /\ steady' = Titled
    /\ UNCHANGED <<windows, wnds, spAppYouTubeWindow, pending, foreign, launched>>

CreateWindowsSnapshot ==
    /\ pc = "snapshot"
    /\ wnds' = wnds \cup Titled
    /\ foreign' = foreign \cup (Titled \ {spAppYouTubeWindow})
    /\ pc' = StepAfter("snapshot")
    /\ UNCHANGED <<windows, spAppYouTubeWindow, op, calls, pid, answer, pending, steady, launched>>

\* system("start chrome --app=url") returns at once.
Launch ==
    /\ pc = "launch"
    /\ pending' = pending \cup {calls}
    /\ pc' = StepAfter("launch")
    /\ UNCHANGED <<windows, wnds, spAppYouTubeWindow, op, calls, pid, answer, aux>>

\* Mutant: the windows of the snapshot are not left out.
AnyTitled == Titled

\* What _idetifyNewWindow takes; the first one in an unknown order.
NewWindows == Titled \ wnds

\* The new windows of this start, for the property.
Own == {h \in Titled \ steady : windows[h].by = calls}

\* After the sleep.  Without a new window the one of an earlier start stays.
identifyNewWindow ==
    /\ pc = "identify"
    /\ \/ spAppYouTubeWindow' \in NewWindows
       \/ NewWindows = {} /\ UNCHANGED spAppYouTubeWindow
    /\ launched' = IF Own = Titled \ steady /\ Own # {} THEN CHOOSE h \in Own : TRUE
                    ELSE NoWindow
    /\ pc' = StepAfter("identify")
    /\ UNCHANGED <<windows, wnds, op, calls, pid, answer, pending, steady, foreign>>

\* The condition names a function, so setWndFulscreen is always called; a handle
\* that is NULL or of a closed window does nothing.
setWndFulscreen ==
    /\ pc = "fullscreen"
    /\ answer' = "running"
    /\ pc' = StepAfter("fullscreen")
    /\ UNCHANGED <<windows, wnds, spAppYouTubeWindow, op, calls, pid, pending, aux>>

\* Mutant: youtube_hide ends like youtube_stop.
AfterLookHides == IF op \in {"stop", "hide"} THEN "send" ELSE "idle"

AfterLook == IF op = "stop" THEN "send" ELSE "idle"

\* youtube_hide and youtube_status return what isWndRunning says.
isWndRunning ==
    /\ pc = "look"
    /\ LET running == spAppYouTubeWindow \in Open
       IN  IF op = "stop"
           THEN pid' = (IF running THEN spAppYouTubeWindow ELSE NoWindow) /\ UNCHANGED answer
           ELSE answer' = (IF running THEN "running" ELSE "stopped") /\ UNCHANGED pid
    /\ pc' = AfterLook
    /\ UNCHANGED <<windows, wnds, spAppYouTubeWindow, op, calls, pending, aux>>

Closed(h) == [windows EXCEPT ![h].state = "closed"]

\* youtube_stop sends WM_DESTROY; the window may disregard it.
SendDestroy ==
    /\ pc = "send"
    /\ pc' = "idle"
    /\ windows' \in {windows} \cup {Closed(h) : h \in {pid} \cap Open}
    /\ UNCHANGED <<wnds, spAppYouTubeWindow, op, calls, pid, answer, pending, aux>>

-----------------------------------------------------------------------------
(* Chrome and the user.                                                    *)

Opened(h, by) == [windows EXCEPT ![h] = [state |-> "open", titled |-> FALSE, by |-> by]]

LaunchedOpens(h, n) ==
    /\ windows[h].state = "unused"
    /\ n \in pending
    /\ windows' = Opened(h, n)
    /\ pending' = pending \ {n}
    /\ UNCHANGED <<plugin, aux>>

UserOpens(h) ==
    /\ windows[h].state = "unused"
    /\ windows' = Opened(h, User)
    /\ UNCHANGED <<plugin, pending, aux>>

\* A page is loaded: the title of the application appears or goes.
TitleChanges(h) ==
    /\ h \in Open
    /\ windows' = [windows EXCEPT ![h].titled = ~@]
    /\ steady' = steady \ {h}
    /\ UNCHANGED <<plugin, pending, foreign, launched>>

UserCloses(h) ==
    /\ h \in Open
    /\ windows' = Closed(h)
    /\ UNCHANGED <<plugin, pending, aux>>

Callback ==
    \/ CreateWindowsSnapshot \/ Launch \/ identifyNewWindow \/ setWndFulscreen
    \/ isWndRunning \/ SendDestroy

Environment ==
    \E h \in Handles :
        \/ \E n \in pending : LaunchedOpens(h, n)
        \/ UserOpens(h) \/ TitleChanges(h) \/ UserCloses(h)

Next == (\E o \in Operations : Begin(o)) \/ Callback \/ Environment

Spec == Init /\ [][Next]_vars

-----------------------------------------------------------------------------
(* Properties.                                                             *)

Steps == {"idle", "snapshot", "launch", "identify", "fullscreen", "look", "send"}

\* Types, and only a stop comes to the step that sends WM_DESTROY.
TypeOK ==
    /\ windows \in [Handles -> Window]
    /\ wnds \subseteq Handles
    /\ spAppYouTubeWindow \in Handles \cup {NoWindow}
    /\ pc \in Steps
    /\ op \in Operations
    /\ calls \in Nat
    /\ pid \in Handles \cup {NoWindow}
    /\ answer \in Answers
    /\ pending \subseteq Nat
    /\ steady \subseteq Handles
    /\ foreign \subseteq Handles
    /\ launched \in Handles \cup {NoWindow}
    /\ pc = "send" => op = "stop"

\* A window with the title that was there when a start took its snapshot, and
\* was not the plugin's, is never made full screen and never destroyed by it,
\* however late its own window opens and however titles change.
ForeignSpared ==
    /\ pc = "fullscreen" => spAppYouTubeWindow \notin foreign
    /\ pc = "send" => pid \notin foreign

\* When the window of a start was the only one that came to have the title before
\* the sleep was over, every later callback, until the next start has slept, finds it while
\* it is open: a status says running and a stop is sent to it.
LaunchedIsManaged ==
    [][pc = "look" /\ pc' # "look" /\ launched \in Open =>
        IF op = "stop" THEN pid' = launched ELSE answer' = "running"]_vars

=============================================================================
