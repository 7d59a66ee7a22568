------------------------- MODULE WindowPlugin_proof --------------------------
(***************************************************************************)
(* The plugin never touches a window that a start had found before it, for *)
(* any number of windows and callbacks.                                    *)
(*                                                                         *)
(* ForeignSpared speaks of two steps.  What holds between them: whatever   *)
(* is foreign is in wnds, where identifyNewWindow does not look, and the   *)
(* window that the plugin remembers is not foreign.                        *)
(*                                                                         *)
(* The second part shows that the plugin manages the window of its last    *)
(* start when that was the only one to come to have the title.             *)
(***************************************************************************)
EXTENDS WindowPlugin, TLAPS

Kept == foreign \subseteq wnds /\ spAppYouTubeWindow \notin foreign

IInv == TypeOK /\ Kept /\ ForeignSpared

USE DEF Operations, Answers, User, Openers, Steps

\* The initial states have the invariant.
LEMMA InitIInv == ASSUME Init PROVE IInv
<1>1. [state |-> "unused", titled |-> FALSE, by |-> 0] \in Window
  BY DEF Window
<1>2. [state |-> "open", titled |-> TRUE, by |-> 0] \in Window
  BY DEF Window
<1> QED
  BY <1>1, <1>2 DEF Init, IInv, TypeOK, Kept, ForeignSpared

\* Every callback begins with the invariant.
LEMMA BeginIInv == ASSUME IInv, NEW o \in Operations, Begin(o) PROVE IInv'
<1>1. Titled \subseteq Handles
  BY DEF Titled, Open
<1>2. pc' \in {"snapshot", "look"}
  BY DEF Begin, StepAfter
<1>3. TypeOK'
  BY <1>1, <1>2 DEF Begin, IInv, TypeOK
<1>4. Kept' /\ ForeignSpared'
  BY <1>2 DEF Begin, IInv, Kept, ForeignSpared
<1> QED
  BY <1>3, <1>4 DEF IInv

\* What becomes foreign is put in wnds, and is not the plugin's.
LEMMA SnapshotIInv == ASSUME IInv, CreateWindowsSnapshot PROVE IInv'
<1>1. Titled \subseteq Handles
  BY DEF Titled, Open
<1>2. pc' = "launch"
  BY DEF CreateWindowsSnapshot, StepAfter
<1>3. TypeOK'
  BY <1>1, <1>2 DEF CreateWindowsSnapshot, IInv, TypeOK
<1>4. Kept' /\ ForeignSpared'
  BY <1>2 DEF CreateWindowsSnapshot, IInv, Kept, ForeignSpared
<1> QED
  BY <1>3, <1>4 DEF IInv

\* The window that is taken is not in wnds, so it is not foreign.
LEMMA IdentifyIInv == ASSUME IInv, identifyNewWindow PROVE IInv'
<1>1. NewWindows \subseteq Handles /\ Own \subseteq Handles
  BY DEF NewWindows, Own, Titled, Open
<1>2. pc' = "fullscreen"
  BY DEF identifyNewWindow, StepAfter
<1>3. launched' \in Handles \cup {NoWindow}
  BY <1>1 DEF identifyNewWindow
<1>4. spAppYouTubeWindow' \in Handles \cup {NoWindow} /\ spAppYouTubeWindow' \notin foreign
  BY <1>1 DEF identifyNewWindow, NewWindows, IInv, TypeOK, Kept
<1>5. TypeOK'
  BY <1>2, <1>3, <1>4 DEF identifyNewWindow, IInv, TypeOK
<1>6. Kept' /\ ForeignSpared'
  BY <1>2, <1>4 DEF identifyNewWindow, IInv, Kept, ForeignSpared
<1> QED
  BY <1>5, <1>6 DEF IInv

\* youtube_stop gets the window of the plugin, or none.
LEMMA LookIInv == ASSUME IInv, isWndRunning PROVE IInv'
<1>1. pid' = pid \/ pid' \in {spAppYouTubeWindow, NoWindow}
  BY DEF isWndRunning
<1>2. pc' = "send" => op = "stop" /\ pid' \in {spAppYouTubeWindow, NoWindow}
  BY DEF isWndRunning, AfterLook
<1>3. pc' \in {"idle", "send"} /\ answer' \in Answers
  BY DEF isWndRunning, AfterLook, IInv, TypeOK
<1>4. TypeOK'
  BY <1>1, <1>2, <1>3 DEF isWndRunning, IInv, TypeOK, aux
<1>5. Kept' /\ ForeignSpared'
  BY <1>2, <1>3, WindowAssumption DEF isWndRunning, IInv, TypeOK, Kept, ForeignSpared, aux
<1> QED
  BY <1>4, <1>5 DEF IInv

\* The other steps of the plugin touch no window but the one of a stop.
LEMMA OtherStepsIInv ==
    ASSUME IInv, Launch \/ setWndFulscreen \/ SendDestroy
    PROVE  IInv'
<1>1. ASSUME NEW h \in Handles PROVE Closed(h) \in [Handles -> Window]
  BY DEF Closed, IInv, TypeOK, Window
<1>2. CASE Launch
  <2>1. pc' = "identify"
    BY <1>2 DEF Launch, StepAfter
  <2> QED
    BY <1>2, <2>1 DEF Launch, IInv, TypeOK, Kept, ForeignSpared, aux
<1>3. CASE setWndFulscreen
  <2>1. pc' = "idle"
    BY <1>3 DEF setWndFulscreen, StepAfter
  <2> QED
    BY <1>3, <2>1 DEF setWndFulscreen, IInv, TypeOK, Kept, ForeignSpared, aux
<1>4. CASE SendDestroy
  <2>1. windows' \in [Handles -> Window]
    BY <1>1, <1>4 DEF SendDestroy, Open, IInv, TypeOK
  <2> QED
    BY <1>4, <2>1 DEF SendDestroy, IInv, TypeOK, Kept, ForeignSpared, aux
<1> QED
  BY <1>2, <1>3, <1>4

\* Chrome and the user change windows only.
LEMMA EnvironmentIInv == ASSUME IInv, Environment PROVE IInv'
<1>1. PICK h \in Handles :
        \/ \E n \in pending : LaunchedOpens(h, n)
        \/ UserOpens(h) \/ TitleChanges(h) \/ UserCloses(h)
  BY DEF Environment
<1>2. windows' \in [Handles -> Window]
  <2>1. ASSUME NEW n \in Nat PROVE Opened(h, n) \in [Handles -> Window]
    BY DEF Opened, Window, IInv, TypeOK
  <2>2. Closed(h) \in [Handles -> Window]
    BY DEF Closed, Window, IInv, TypeOK
  <2>3. [windows EXCEPT ![h].titled = ~windows[h].titled] \in [Handles -> Window]
    BY DEF Window, IInv, TypeOK
  <2>4. pending \subseteq Nat
    BY DEF IInv, TypeOK
  <2> QED
    BY <1>1, <2>1, <2>2, <2>3, <2>4 DEF LaunchedOpens, UserOpens, TitleChanges, UserCloses
<1>3. pending' \subseteq pending /\ steady' \subseteq steady
  BY <1>1 DEF LaunchedOpens, UserOpens, TitleChanges, UserCloses, aux
<1>4. UNCHANGED <<plugin, foreign, launched>>
  BY <1>1 DEF LaunchedOpens, UserOpens, TitleChanges, UserCloses, aux
<1> QED
  BY <1>2, <1>3, <1>4 DEF IInv, TypeOK, Kept, ForeignSpared, plugin

\* The inductive invariant of the plugin.
THEOREM PluginInvariant == Spec => []IInv
<1>1. ASSUME IInv, [Next]_vars PROVE IInv'
  <2>1. CASE UNCHANGED vars
    BY <1>1, <2>1 DEF IInv, TypeOK, Kept, ForeignSpared, vars, plugin, aux
  <2>2. CASE Next
    BY <1>1, <2>2, BeginIInv, SnapshotIInv, IdentifyIInv, LookIInv, OtherStepsIInv,
       EnvironmentIInv DEF Next, Callback
  <2> QED
    BY <1>1, <2>1, <2>2
<1> QED
  BY <1>1, InitIInv, PTL DEF Spec

\* Every variable keeps its type.
THEOREM PluginTypes == Spec => []TypeOK
<1>1. IInv => TypeOK
  BY DEF IInv
<1> QED
  BY <1>1, PluginInvariant, PTL

\* setWndFulscreen and the WM_DESTROY of youtube_stop spare every window that a
\* start found with the title and that was not the plugin's.
THEOREM PluginSparesForeign == Spec => []ForeignSpared
<1>1. IInv => ForeignSpared
  BY DEF IInv
<1> QED
  BY <1>1, PluginInvariant, PTL

-----------------------------------------------------------------------------
(* The window of a start.                                                  *)

\* Windows are numbered by starts that were made, and a handle in wnds or in
\* steady has had a window; steady windows still have the title.
NumberInv ==
    /\ pc # "idle" => calls > 0
    /\ \A n \in pending : n <= calls
    /\ \A h \in Handles : windows[h].by <= calls
    /\ \A h \in wnds \cup steady : windows[h].state # "unused"
    /\ \A h \in steady : windows[h].state = "open" => windows[h].titled

\* The current start has at most one window, none before it was made.
AtMostOne ==
    calls > 0 =>
        /\ pc \in {"snapshot", "launch"} => calls \notin pending
        /\ pc \in {"snapshot", "launch"} \/ calls \in pending =>
              \A h \in Handles : windows[h].by # calls
        /\ \A g, h \in Handles : windows[g].by = calls /\ windows[h].by = calls => g = h

\* Behind the snapshot, wnds has the steady windows and not that of the start.
SnapshotInv ==
    /\ pc \in {"launch", "identify"} =>
          \A h \in steady : windows[h].state = "open" => h \in wnds
    /\ pc = "identify" => \A h \in wnds : windows[h].by # calls

LInv == NumberInv /\ AtMostOne /\ SnapshotInv /\ launched \in {NoWindow, spAppYouTubeWindow}

LEMMA InitLInv == ASSUME Init PROVE LInv
BY DEF Init, LInv, NumberInv, AtMostOne, SnapshotInv

LEMMA BeginLInv == ASSUME TypeOK, LInv, NEW o \in Operations, Begin(o) PROVE LInv'
<1>1. pc' \in {"snapshot", "look"}
  BY DEF Begin, StepAfter
<1>2. /\ calls' = calls + 1 /\ steady' = Titled
      /\ UNCHANGED <<windows, wnds, spAppYouTubeWindow, pending, launched>>
  BY DEF Begin
<1>3. calls \in Nat /\ \A h \in Handles : windows[h].by \in Nat
  BY DEF TypeOK, Window
<1>4. NumberInv'
  BY <1>1, <1>2, <1>3 DEF LInv, NumberInv, TypeOK, Titled, Open
<1>5. \A h \in Handles : windows'[h].by # calls'
  BY <1>2, <1>3 DEF LInv, NumberInv
<1>6. calls' \notin pending'
  BY <1>2, <1>3 DEF LInv, NumberInv, TypeOK
<1> QED
  BY <1>1, <1>2, <1>4, <1>5, <1>6 DEF LInv, AtMostOne, SnapshotInv

LEMMA SnapshotLInv == ASSUME TypeOK, LInv, CreateWindowsSnapshot PROVE LInv'
<1>1. pc' = "launch" /\ pc = "snapshot"
  BY DEF CreateWindowsSnapshot, StepAfter
<1>2. /\ wnds' = wnds \cup Titled
      /\ UNCHANGED <<windows, spAppYouTubeWindow, calls, pending, steady, launched>>
  BY DEF CreateWindowsSnapshot
<1>3. NumberInv'
  BY <1>1, <1>2 DEF LInv, NumberInv, Titled, Open
<1>4. AtMostOne'
  BY <1>1, <1>2 DEF LInv, AtMostOne
<1>5. SnapshotInv'
  BY <1>1, <1>2 DEF LInv, NumberInv, SnapshotInv, Titled, Open, TypeOK
<1> QED
  BY <1>2, <1>3, <1>4, <1>5 DEF LInv

LEMMA LaunchLInv == ASSUME TypeOK, LInv, Launch PROVE LInv'
<1>1. pc' = "identify" /\ pc = "launch"
  BY DEF Launch, StepAfter
<1>2. /\ pending' = pending \cup {calls}
      /\ UNCHANGED <<windows, wnds, spAppYouTubeWindow, calls, steady, launched>>
  BY DEF Launch, aux
<1>3. calls \in Nat /\ calls > 0
  BY <1>1 DEF TypeOK, LInv, NumberInv
<1>4. NumberInv'
  BY <1>1, <1>2, <1>3 DEF LInv, NumberInv
<1>5. \A h \in Handles : windows[h].by # calls
  BY <1>1, <1>3 DEF LInv, AtMostOne
<1>6. AtMostOne' /\ SnapshotInv'
  BY <1>1, <1>2, <1>5 DEF LInv, AtMostOne, SnapshotInv, TypeOK
<1> QED
  BY <1>2, <1>4, <1>6 DEF LInv

\* The only window that is new, and not in wnds, is that of the start.
LEMMA IdentifyLInv == ASSUME TypeOK, LInv, identifyNewWindow PROVE LInv'
<1>1. pc' = "fullscreen" /\ pc = "identify" /\ calls > 0
  BY DEF identifyNewWindow, StepAfter, LInv, NumberInv
<1>2. UNCHANGED <<windows, wnds, calls, pending, steady>>
  BY DEF identifyNewWindow
<1>3. NumberInv' /\ AtMostOne' /\ SnapshotInv'
  BY <1>1, <1>2 DEF LInv, NumberInv, AtMostOne, SnapshotInv
<1>4. CASE Own = Titled \ steady /\ Own # {}
  <2>1. launched' \in Own
    BY <1>4 DEF identifyNewWindow
  <2>2. launched' \in NewWindows
    BY <2>1, <1>1 DEF Own, NewWindows, LInv, SnapshotInv
  <2>3. spAppYouTubeWindow' \in NewWindows
    BY <2>2 DEF identifyNewWindow
  <2>4. spAppYouTubeWindow' \notin steady
    BY <2>3, <1>1 DEF NewWindows, Titled, Open, LInv, SnapshotInv
  <2>5. spAppYouTubeWindow' \in Own
    BY <1>4, <2>3, <2>4 DEF NewWindows
  <2> QED
    BY <1>1, <1>3, <2>1, <2>5 DEF LInv, AtMostOne, Own, Titled, Open
<1>5. CASE ~(Own = Titled \ steady /\ Own # {})
  BY <1>3, <1>5 DEF identifyNewWindow, LInv
<1> QED
  BY <1>4, <1>5

LEMMA LaterStepsLInv ==
    ASSUME TypeOK, LInv, setWndFulscreen \/ isWndRunning \/ SendDestroy
    PROVE  LInv'
<1>1. pc' \in {"idle", "send"} /\ pc # "idle"
  BY DEF setWndFulscreen, isWndRunning, SendDestroy, StepAfter, AfterLook
<1>2. UNCHANGED <<wnds, spAppYouTubeWindow, calls, pending, steady, launched>>
  BY DEF setWndFulscreen, isWndRunning, SendDestroy, aux
<1>3. \A h \in Handles : /\ windows'[h].by = windows[h].by
                         /\ windows'[h].titled = windows[h].titled
                         /\ windows'[h].state = "unused" => windows[h].state = "unused"
                         /\ windows'[h].state = "open" => windows[h].state = "open"
  BY DEF setWndFulscreen, isWndRunning, SendDestroy, Closed, TypeOK, Window
<1>4. NumberInv'
  BY <1>1, <1>2, <1>3 DEF LInv, NumberInv, TypeOK
<1>5. AtMostOne' /\ SnapshotInv'
  BY <1>1, <1>2, <1>3 DEF LInv, AtMostOne, SnapshotInv
<1> QED
  BY <1>2, <1>4, <1>5 DEF LInv

LEMMA OpensLInv ==
    ASSUME TypeOK, LInv, NEW h \in Handles, NEW n \in pending, LaunchedOpens(h, n)
    PROVE  LInv'
<1>1. /\ pending' = pending \ {n}
      /\ UNCHANGED <<wnds, spAppYouTubeWindow, pc, calls, steady, launched>>
  BY DEF LaunchedOpens, plugin, aux
<1>2. /\ \A g \in Handles : g # h => windows'[g] = windows[g]
      /\ windows[h].state = "unused"
      /\ windows'[h].state = "open" /\ windows'[h].by = n
  BY DEF LaunchedOpens, Opened, TypeOK
<1>3. h \notin wnds /\ h \notin steady
  BY <1>2 DEF LInv, NumberInv
<1>4. NumberInv'
  BY <1>1, <1>2, <1>3 DEF LInv, NumberInv, TypeOK
<1>5. AtMostOne'
  BY <1>1, <1>2 DEF LInv, AtMostOne, TypeOK
<1>6. SnapshotInv'
  BY <1>1, <1>2, <1>3 DEF LInv, SnapshotInv, TypeOK
<1> QED
  BY <1>1, <1>4, <1>5, <1>6 DEF LInv

LEMMA UserLInv ==
    ASSUME TypeOK, LInv, NEW h \in Handles, UserOpens(h) \/ TitleChanges(h) \/ UserCloses(h)
    PROVE  LInv'
<1>1. UNCHANGED <<wnds, spAppYouTubeWindow, pc, calls, pending, launched>>
  BY DEF UserOpens, TitleChanges, UserCloses, plugin, aux
<1>2. \A g \in Handles : g # h => windows'[g] = windows[g]
  BY DEF UserOpens, TitleChanges, UserCloses, Opened, Closed, TypeOK
<1>3. CASE UserOpens(h)
  <2>1. /\ windows[h].state = "unused" /\ windows'[h].by = 0 /\ windows'[h].state = "open"
        /\ UNCHANGED steady
    BY <1>3 DEF UserOpens, Opened, TypeOK, aux
  <2>2. h \notin wnds /\ h \notin steady
    BY <2>1 DEF LInv, NumberInv
  <2>3. NumberInv'
    BY <1>1, <1>2, <2>1, <2>2 DEF LInv, NumberInv, TypeOK
  <2>4. AtMostOne'
    BY <1>1, <1>2, <2>1 DEF LInv, AtMostOne, TypeOK
  <2>5. SnapshotInv'
    BY <1>1, <1>2, <2>1, <2>2 DEF LInv, SnapshotInv, TypeOK
  <2> QED
    BY <1>1, <2>3, <2>4, <2>5 DEF LInv
<1>4. CASE TitleChanges(h) \/ UserCloses(h)
  <2>1. /\ windows'[h].by = windows[h].by /\ windows'[h].state # "unused"
        /\ windows'[h].state = "open" => windows[h].state = "open" /\ h \notin steady'
        /\ steady' \subseteq steady
    BY <1>4 DEF TitleChanges, UserCloses, Closed, TypeOK, Open, Window, aux
  <2>2. NumberInv'
    BY <1>1, <1>2, <2>1 DEF LInv, NumberInv, TypeOK
  <2>3. AtMostOne'
    BY <1>1, <1>2, <2>1 DEF LInv, AtMostOne
  <2>4. SnapshotInv'
    BY <1>1, <1>2, <2>1 DEF LInv, SnapshotInv, TypeOK
  <2> QED
    BY <1>1, <2>2, <2>3, <2>4 DEF LInv
<1> QED
  BY <1>3, <1>4

\* The remembered window is that of the last start whenever it was the only new one.
LEMMA LInvHolds == Spec => []LInv
<1>1. ASSUME TypeOK, LInv, [Next]_vars PROVE LInv'
  <2>1. CASE UNCHANGED vars
    BY <1>1, <2>1 DEF LInv, NumberInv, AtMostOne, SnapshotInv, vars, plugin, aux
  <2>2. CASE Next
    BY <1>1, <2>2, BeginLInv, SnapshotLInv, LaunchLInv, IdentifyLInv, LaterStepsLInv,
       OpensLInv, UserLInv DEF Next, Callback, Environment
  <2> QED
    BY <1>1, <2>1, <2>2
<1> QED
  BY <1>1, InitLInv, PluginTypes, PTL DEF Spec

\* A status after a start whose window was the only new one says running while
\* that window is open, and a stop is sent to it.
THEOREM LaunchedStaysManaged == Spec => LaunchedIsManaged
<1>1. ASSUME LInv, [Next]_vars, pc = "look", pc' # "look", launched \in Open
      PROVE  IF op = "stop" THEN pid' = launched ELSE answer' = "running"
  <2>1. launched = spAppYouTubeWindow
    BY <1>1, WindowAssumption DEF LInv, Open
  <2>2. isWndRunning
    BY <1>1 DEF Next, Callback, Begin, CreateWindowsSnapshot, Launch, identifyNewWindow,
                setWndFulscreen, SendDestroy, Environment, LaunchedOpens, UserOpens,
                TitleChanges, UserCloses, vars, plugin
  <2> QED
    BY <1>1, <2>1, <2>2 DEF isWndRunning
<1>2. LInv /\ [Next]_vars =>
        [pc = "look" /\ pc' # "look" /\ launched \in Open =>
            IF op = "stop" THEN pid' = launched ELSE answer' = "running"]_vars
  BY <1>1
<1> QED
  BY <1>2, LInvHolds, PTL DEF Spec, LaunchedIsManaged

=============================================================================
