------------------------------ MODULE Terminal ------------------------------
(****************************************************************************)
(* One session's terminal: a tmux window that pages of the session paste    *)
(* lines into (pkg/terminal, the terminal handlers of pkg/web/server.go and *)
(* the panel of pkg/web/static/detail.js).                                  *)
(*                                                                          *)
(* A page gives a line a request id and keeps it until the line is taken    *)
(* or edited, so a line whose answer was lost is sent again under the same  *)
(* id.  The manager remembers the last ids it entered into the window; the  *)
(* window is tmux's and outlives both the page and usher.  A line is a      *)
(* number: two lines that say the same are two lines.                       *)
(****************************************************************************)
EXTENDS Naturals, SequencesExt

CONSTANTS
    Tabs,           \* pages of the session with the panel open
    MaxRecent,      \* request ids the manager remembers (64 in the code)
    MaxLines,       \* bound: lines typed, and request ids minted
    MaxWindows,     \* bound: windows opened
    MaxUpsets       \* bound: lost answers, failed pastes, exits, closes, restarts

VARIABLES
    window,     \* the session's tmux window, 0: none
    windows,    \* windows opened so far
    seen,       \* the ids of Manager.seen[session].order, oldest first
    box,        \* box[t]: the line in t's input, 0: empty
    rid,        \* rid[t]: terminalRequestID, 0: none yet
    lines,      \* lines typed
    minted,     \* request ids given out
    calls,      \* requests on their way: [id, line, tab], tab 0: nobody waits
    entered,    \* what the windows were given, in order: [window, id, line]
    acked,      \* [window, line] of the lines usher answered "ok" to
    forgot,     \* [window, line] entered but no longer, or never, remembered
    upsets

terminal == <<window, windows, seen, entered, forgot>>
page     == <<box, rid, lines, minted>>
wire     == <<calls, acked>>
tvars    == <<terminal, page, wire, upsets>>

NoTab == 0

Init ==
    /\ window = 0 /\ windows = 0
    /\ seen = <<>>
    /\ box = [t \in Tabs |-> 0]
    /\ rid = [t \in Tabs |-> 0]
    /\ lines = 0 /\ minted = 0
    /\ calls = {}
    /\ entered = <<>>
    /\ acked = {}
    /\ forgot = {}
    /\ upsets = 0

Upset == /\ upsets < MaxUpsets
         /\ upsets' = upsets + 1

\* The open window's lines that went by these ids.
LinesOf(ids) ==
    {[window |-> window, line |-> e.line] :
       e \in {d \in Range(entered) : d.window = window /\ d.id \in ids}}

-----------------------------------------------------------------------------
(* The page. *)

Busy(t) == \E c \in calls : c.tab = t       \* termInput.disabled

(* The user types a line, or edits the one that was refused. *)
Type(t) ==
    /\ ~Busy(t)
    /\ lines < MaxLines
    /\ box[t] # 0 => rid[t] # 0
    /\ lines' = lines + 1
    /\ box' = [box EXCEPT ![t] = lines']
    /\ rid' = [rid EXCEPT ![t] = 0]
    /\ UNCHANGED <<terminal, minted, wire, upsets>>

\* The id a page sends its line under: that of the line's last attempt.
RequestID(t) == IF rid[t] # 0 THEN rid[t] ELSE minted + 1

\* Mutant: every attempt has an id of its own.
FreshID(t) == minted + 1

\* "terminalRequestID || randomUUID()"
SendID(t) == RequestID(t)

SubmitTerminal(t) ==
    /\ box[t] # 0 /\ ~Busy(t)
    /\ SendID(t) <= MaxLines
    /\ rid' = [rid EXCEPT ![t] = SendID(t)]
    /\ minted' = IF SendID(t) > minted THEN SendID(t) ELSE minted
    /\ calls' = calls \cup {[id |-> SendID(t), line |-> box[t], tab |-> t]}
    /\ UNCHANGED <<terminal, box, lines, acked, upsets>>

(* The request fails under way: the page may try again, and usher may still *)
(* be about to enter the line.                                              *)
GiveUp(c) ==
    /\ c \in calls /\ c.tab # NoTab
    /\ Upset
    /\ calls' = (calls \ {c}) \cup {[c EXCEPT !.tab = NoTab]}
    /\ UNCHANGED <<terminal, page, acked>>

-----------------------------------------------------------------------------
(* The manager, one request at a time under its mutex. *)

\* The page hears the answer: a line usher took leaves the input.
Answer(c, ok) ==
    /\ calls' = calls \ {c}
    /\ acked' = IF ok THEN acked \cup {[window |-> window, line |-> c.line]} ELSE acked
    /\ box' = IF ok /\ c.tab # NoTab THEN [box EXCEPT ![c.tab] = 0] ELSE box
    /\ rid' = IF ok /\ c.tab # NoTab THEN [rid EXCEPT ![c.tab] = 0] ELSE rid
    /\ UNCHANGED <<lines, minted>>

Entry(c) == [window |-> window, id |-> c.id, line |-> c.line]

\* rememberLocked: the newest ids, the oldest of them dropped over the limit.
Remembering(c) ==
    LET order == Append(seen, c.id)
        over == Len(order) > MaxRecent
    IN  /\ seen' = IF over THEN Tail(order) ELSE order
        /\ entered' = Append(entered, Entry(c))
        /\ forgot' = IF over THEN forgot \cup LinesOf({Head(order)}) ELSE forgot

Submit(c) ==
    /\ c \in calls
    /\ IF window = 0
       THEN Answer(c, FALSE) /\ UNCHANGED <<seen, entered, forgot>>
       ELSE IF Contains(seen, c.id)
       THEN Answer(c, TRUE) /\ UNCHANGED <<seen, entered, forgot>>
       ELSE Answer(c, TRUE) /\ Remembering(c)
    /\ UNCHANGED <<window, windows, upsets>>

\* What a paste tmux refused leaves behind: nothing is remembered.
Unpasted(c) == UNCHANGED seen

\* Mutant: the id is remembered before tmux has taken the line.
RememberedFirst(c) == seen' = Append(seen, c.id)

AfterFailedPaste(c) == Unpasted(c)

(* load-buffer or paste-buffer fails.  The paste and its Enter are one tmux *)
(* call, which may fail with the line in the window all the same.           *)
SubmitFails(c) ==
    /\ c \in calls
    /\ window # 0 /\ ~Contains(seen, c.id)
    /\ Upset
    /\ Answer(c, FALSE)
    /\ AfterFailedPaste(c)
    /\ \E taken \in BOOLEAN :
         /\ entered' = IF taken THEN Append(entered, Entry(c)) ELSE entered
         /\ forgot' = IF taken THEN forgot \cup {[window |-> window, line |-> c.line]} ELSE forgot
    /\ UNCHANGED <<window, windows>>

\* A window made now has seen none of the ids before it.
Forgotten == <<>>

\* Mutant: a new window inherits the ids of the old one.
Inherited == seen

OpenSeen == Forgotten

(* The panel is opened: a window that is gone is made anew.  tmux may fail  *)
(* to make it, once the ids are dropped.                                    *)
Open ==
    /\ window = 0 /\ windows < MaxWindows
    /\ seen' = OpenSeen
    /\ windows' = windows + 1
    /\ window' \in {0, windows + 1}
    /\ UNCHANGED <<page, wire, entered, forgot, upsets>>

(* The shell exits, and tmux drops its window. *)
Exit ==
    /\ window # 0 /\ Upset
    /\ window' = 0
    /\ UNCHANGED <<windows, seen, entered, forgot, page, wire>>

(* Close, which tmux may refuse: the ids are dropped with or without it. *)
Close ==
    /\ Upset
    /\ window' \in {0, window}
    /\ seen' = <<>>
    /\ forgot' = forgot \cup LinesOf(Range(seen))
    /\ UNCHANGED <<windows, entered, page, wire>>

(* usher restarts: tmux keeps the window, the requests under way are lost. *)
Restart ==
    /\ Upset
    /\ seen' = <<>>
    /\ forgot' = forgot \cup LinesOf(Range(seen))
    /\ calls' = {}
    /\ UNCHANGED <<window, windows, entered, page, acked>>

Next ==
    \/ \E t \in Tabs : Type(t) \/ SubmitTerminal(t)
    \/ \E c \in calls : GiveUp(c) \/ Submit(c) \/ SubmitFails(c)
    \/ Open
    \/ Exit
    \/ Close
    \/ Restart

TerminalSpec == Init /\ [][Next]_tvars

-----------------------------------------------------------------------------

\* The i-th line that was given to a window, and the window.
Given(i) == [window |-> entered[i].window, line |-> entered[i].line]

\* A line is entered into a window once, however often it is sent, unless
\* the id it went by was forgotten in between; and a line usher answered
\* "ok" to was entered into the very window that was open at the answer.
\* (pkg/terminal/manager.go:137 Submit, :102 Open's delete, :191 Close)
LinesOnce ==
    /\ \A i, j \in DOMAIN entered :
         i < j /\ Given(i) = Given(j) => Given(i) \in forgot
    /\ acked \subseteq {Given(i) : i \in DOMAIN entered}
=============================================================================
