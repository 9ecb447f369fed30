--------------------------- MODULE ClaudeSession ---------------------------
(***************************************************************************)
(* Driving Claude Code through a tmux pane (lib/init.py): setup_tmux_claude *)
(* at the end of pg_init, with or without a session to teleport, and        *)
(* resume_claude_session behind POST /api/branches/<name>/claude/resume.    *)
(*                                                                         *)
(* The program reads a screen and sends keystrokes, one tmux command per   *)
(* action; between any two of them the pane moves on: Claude Code starts,  *)
(* shows dialogs, works, asks for permission; its user types, quits, runs  *)
(* something else or scrolls.  What keys do is the pane's business         *)
(* (external), what is read from it and sent to it is the code's.          *)
(***************************************************************************)
EXTENDS Integers, Sequences

CONSTANTS
    Calls,          \* threads and requests that drive the session
    Settings,       \* what is considered together: see setting
    Attempts,       \* attempts=3 of /rename and /rc
    MaxUrls,        \* bound on the session URLs Claude Code prints
    NoView

ASSUME BoundsAssumption == Attempts \in Nat \ {0} /\ MaxUrls \in Nat

Ops == {"setup", "teleport", "resume"}
Screens == {"none", "shell", "starting", "trust", "mcp", "idle", "busy", "ask", "other"}
Derived == -1     \* https://claude.ai/code/<teleport id>
NoUrl == 0

ASSUME SettingsAssumption ==
    \A s \in Settings :
        /\ s.calls \subseteq Calls /\ s.ops \subseteq Ops /\ s.screens \subseteq Screens
        /\ s.hints \in BOOLEAN /\ s.ghosts \in BOOLEAN /\ s.acts \in Nat

VARIABLES
    setting,        \* fixed by Init: calls and operations that take part, whether this
                    \* release's prompt is recognised (hints), whether Claude Code leaves
                    \* its last frame on the screen when it ends (ghosts), what the pane shows
                    \* at first (screens), bound on what the user does (acts)
    screen,         \* what the pane runs: "trust" and "mcp" are the startup dialogs, "ask" a
                    \* permission dialog of a live conversation, "none" no session
    copy,           \* scrolled into copy mode
    ghost,          \* the frame of an ended Claude Code is still visible
    line,           \* what stands on the input line
    named,          \* the conversation, and so the pane title, has the branch's name
    live, printed,  \* the Remote Control session that is on, or NoUrl; how many there were
    connecting,     \* /rc was submitted and has not printed yet
    urls,           \* session URLs on the screen, oldest first
    acts,
    recorded,       \* claude_session_url of the branch
    pc, op, cur, seen, acted, before, attempt, found,   \* locals of each call
    changed,        \* history: the user did something since the call last found the pane
                    \* ready, or that look was at a scrolled view
    moved,          \* history: the program ended since the call asked which one it is
    stale, lost     \* history: URLs that were dead when "before" was taken, and whether one
                    \* has left the screen since

pane == <<screen, copy, ghost, line, named, live, printed, connecting, urls>>
locals == <<op, cur, seen, acted, before, attempt, found>>
history == <<changed, moved, stale, lost>>
vars == <<setting, pane, acts, recorded, pc, locals, history>>

-----------------------------------------------------------------------------
(* What the program sees *)

\* In copy mode the capture is old text without an input box.
VisibleUrls == IF copy THEN <<>> ELSE urls
View ==
    [shows |-> IF copy THEN "old"
               ELSE IF ghost /\ screen \in {"shell", "starting", "other"} THEN "idle"
               ELSE screen,
     urls |-> VisibleUrls]

PaneCommandName ==
    CASE screen = "none" -> ""
      [] screen \in {"shell", "other"} -> screen
      [] OTHER -> "claude"

\* Mutant: the numbered choice of a permission dialog is not looked for.
StartupDialogVisible(v) == v.shows \in {"trust", "mcp"}

DialogVisible(v) == v.shows \in {"trust", "mcp", "ask"}
Busy(v) == v.shows = "busy"
UiVisible(v) == setting.hints /\ v.shows = "idle"
PromptReady(v) == ~DialogVisible(v) /\ ~Busy(v) /\ UiVisible(v)

-----------------------------------------------------------------------------
(* What keys do *)

Goto(d, s) == pc' = [pc EXCEPT ![d] = s]
Leave(d) ==
    /\ Goto(d, "off")
    /\ cur' = [cur EXCEPT ![d] = ""]
    /\ seen' = [seen EXCEPT ![d] = NoView]
    /\ acted' = [acted EXCEPT ![d] = NoView]
    /\ before' = [before EXCEPT ![d] = <<>>]
    /\ attempt' = [attempt EXCEPT ![d] = 1]
    /\ found' = [found EXCEPT ![d] = NoUrl]
    /\ changed' = [changed EXCEPT ![d] = FALSE]
    /\ moved' = [moved EXCEPT ![d] = FALSE]
    /\ stale' = [stale EXCEPT ![d] = {}]
    /\ lost' = [lost EXCEPT ![d] = FALSE]
    /\ op' = [op EXCEPT ![d] = "resume"]

Typed(text) == IF line = "" THEN text ELSE "mixed"
TakesText == ~copy /\ screen \in {"shell", "idle", "busy"}

Text(text) ==
    /\ line' = IF TakesText THEN Typed(text) ELSE line
    /\ UNCHANGED <<screen, copy, ghost, named, live, printed, connecting, urls>>

KillLine ==
    /\ line' = IF TakesText THEN "" ELSE line
    /\ UNCHANGED <<screen, copy, ghost, named, live, printed, connecting, urls>>

\* The line goes to the shell.
ShellRuns(text) ==
    /\ screen = "shell"
    /\ screen' \in (CASE text = "claude" -> {"starting", "shell"}
                      [] text = "mixed" -> {"shell", "other"}
                      [] OTHER -> {"shell"})
    /\ line' = ""
    /\ UNCHANGED <<named, connecting>>

\* A startup dialog takes its default answer, a permission dialog its first choice.
Confirmed ==
    /\ screen' = (CASE screen = "trust" -> "mcp" [] screen = "mcp" -> "idle" [] OTHER -> "busy")
    /\ UNCHANGED <<line, named, connecting>>

\* The line goes to Claude Code, as a command or as a turn.  The popup of /rc may take
\* the first Enter.  Remote Control that is on may answer nothing.
ClaudeTakes(text) ==
    /\ screen \in {"idle", "busy"}
    /\ \/ text = "/rc" /\ UNCHANGED <<screen, line, named, connecting>>
       \/ /\ line' = ""
          /\ screen' = IF text \in {"mixed", "claude"} THEN "busy" ELSE screen
          /\ named' = (named \/ (text = "/rename" /\ screen = "idle"))
          /\ connecting' \in IF text \notin {"/rc", "/remote-control"} THEN {connecting}
                             ELSE IF live = NoUrl THEN {TRUE} ELSE {connecting, TRUE}

\* Enter on the text that stands there
Submit(text) ==
    \/ copy /\ copy' \in BOOLEAN /\ UNCHANGED <<screen, line, named, connecting, ghost, live, printed, urls>>
    \/ /\ ~copy
       /\ \/ ShellRuns(text)
          \/ screen \in {"trust", "mcp", "ask"} /\ Confirmed
          \/ ClaudeTakes(text)
          \/ screen \in {"none", "starting", "other"} /\ UNCHANGED <<screen, line, named, connecting>>
       /\ UNCHANGED <<copy, ghost, live, printed, urls>>
Enter == Submit(line)

-----------------------------------------------------------------------------
(* The pane moves on *)

Init ==
    /\ setting \in Settings
    /\ screen \in setting.screens
    /\ copy \in BOOLEAN /\ (copy => screen \in {"idle", "busy", "ask"})
    /\ ghost = FALSE /\ line = "" /\ named = FALSE
    /\ urls \in {[i \in 1 .. n |-> i] : n \in 0 .. MaxUrls - 1}
    /\ screen = "none" => urls = <<>>
    /\ printed = Len(urls)
    /\ live \in {NoUrl, printed} /\ (live # NoUrl => screen \in {"idle", "busy", "ask"})
    /\ connecting = FALSE /\ acts = 0 /\ recorded = NoUrl
    /\ pc = [d \in Calls |-> "off"]
    /\ op = [d \in Calls |-> "resume"]
    /\ cur = [d \in Calls |-> ""]
    /\ seen = [d \in Calls |-> NoView]
    /\ acted = [d \in Calls |-> NoView]
    /\ before = [d \in Calls |-> <<>>]
    /\ attempt = [d \in Calls |-> 1]
    /\ found = [d \in Calls |-> NoUrl]
    /\ changed = [d \in Calls |-> FALSE]
    /\ moved = [d \in Calls |-> FALSE]
    /\ stale = [d \in Calls |-> {}]
    /\ lost = [d \in Calls |-> FALSE]

\* What a user does, in the terminal or from claude.ai: a turn, half a line, leaving
\* Claude Code, another program, copy mode, tmux kill-session.
UserActs ==
    /\ acts < setting.acts /\ acts' = acts + 1
    /\ \/ /\ screen = "idle" /\ screen' = "busy" /\ line' = ""
          /\ UNCHANGED <<copy, ghost, live, connecting, urls>>
       \/ /\ screen \in {"idle", "shell"} /\ ~copy /\ line' = "mixed"
          /\ UNCHANGED <<screen, copy, ghost, live, connecting, urls>>
       \/ /\ screen = "idle" /\ screen' = "shell" /\ line' = ""
          /\ ghost' \in {FALSE, setting.ghosts}
          /\ live' = NoUrl /\ connecting' = FALSE
          /\ UNCHANGED <<copy, urls>>
       \/ /\ screen = "shell" /\ screen' = "other"
          /\ UNCHANGED <<copy, ghost, line, live, connecting, urls>>
       \/ /\ screen # "none" /\ copy' = ~copy
          /\ UNCHANGED <<screen, ghost, line, live, connecting, urls>>
       \/ /\ screen' = "none" /\ line' = "" /\ copy' = FALSE /\ ghost' = FALSE /\ urls' = <<>>
          /\ live' = NoUrl /\ connecting' = FALSE
    /\ changed' = [d \in Calls |-> pc[d] # "off"]
    /\ moved' = [d \in Calls |-> moved[d] \/ (pc[d] # "off" /\ screen' \in {"none", "shell", "other"})]
    /\ UNCHANGED <<setting, named, printed, recorded, pc, locals, stale, lost>>

\* What goes on without the user: start, end of a turn, a permission dialog (which
\* somebody answers), end of another program.
ProgramMoves ==
    /\ \/ screen = "starting" /\ screen' \in {"trust", "mcp", "idle", "shell"} /\ ghost' = FALSE
       \/ screen = "busy" /\ screen' \in {"idle", "ask"} /\ UNCHANGED ghost
       \/ screen = "ask" /\ screen' = "busy" /\ UNCHANGED ghost
       \/ screen = "other" /\ screen' = "shell" /\ UNCHANGED ghost
    /\ moved' = [d \in Calls |-> moved[d] \/ (pc[d] # "off" /\ screen' = "shell")]
    /\ UNCHANGED <<setting, copy, line, named, live, printed, connecting, urls, acts, recorded, pc, locals, changed, stale, lost>>

\* /rc prints the URL of a new Remote Control session, or again that of the one that is on.
Connects ==
    /\ connecting /\ connecting' = FALSE
    /\ \/ /\ live = NoUrl /\ printed < MaxUrls /\ Len(urls) < MaxUrls
          /\ live' = printed + 1 /\ printed' = printed + 1
          /\ urls' = Append(urls, live')
       \/ /\ live # NoUrl /\ Len(urls) < MaxUrls
          /\ urls' = Append(urls, live)
          /\ UNCHANGED <<live, printed>>
       \/ UNCHANGED <<live, printed, urls>>
    /\ UNCHANGED <<setting, screen, copy, ghost, line, named, acts, recorded, pc, locals, history>>

\* Remote Control "has silently dropped".
Drops ==
    /\ live # NoUrl /\ live' = NoUrl
    /\ UNCHANGED <<setting, screen, copy, ghost, line, named, printed, connecting, urls, acts, recorded, pc, locals, history>>

\* Output pushes the oldest URL off the screen.
UrlScrollsOff ==
    /\ urls # <<>> /\ urls' = Tail(urls)
    /\ lost' = [d \in Calls |-> pc[d] # "off"]
    /\ UNCHANGED <<setting, screen, copy, ghost, line, named, live, printed, connecting, acts, recorded, pc, locals, changed, moved, stale>>

-----------------------------------------------------------------------------
(* Start *)

Start(d, o) ==
    /\ pc[d] = "off"
    /\ op' = [op EXCEPT ![d] = o]
    /\ Goto(d, "has")
    /\ UNCHANGED <<setting, pane, acts, recorded, cur, seen, acted, before, attempt, found, history>>

\* tmux has-session: setup leaves an existing session alone; resume raises without a worktree
HasSession(d) ==
    /\ pc[d] = "has"
    /\ \/ screen = "none" /\ Goto(d, "new") /\ UNCHANGED <<locals, history>>
       \/ screen # "none" /\ op[d] = "resume" /\ Goto(d, "uncopy") /\ UNCHANGED <<locals, history>>
       \/ screen # "none" /\ op[d] # "resume" /\ Leave(d)
       \/ op[d] = "resume" /\ Leave(d)
    /\ UNCHANGED <<setting, pane, acts, recorded>>

\* tmux new-session: a duplicate is refused, and nobody looks
NewSession(d) ==
    /\ pc[d] = "new"
    /\ screen' = IF screen = "none" THEN "shell" ELSE screen
    /\ named' = (named /\ screen # "none")
    /\ changed' = [changed EXCEPT ![d] = copy]
    /\ moved' = [moved EXCEPT ![d] = FALSE]
    /\ Goto(d, "launch")
    /\ UNCHANGED <<setting, copy, ghost, line, live, printed, connecting, urls, acts, recorded, locals, stale, lost>>

-----------------------------------------------------------------------------
(* resume_claude_session on an existing session *)

LeaveCopyMode(d) ==
    /\ pc[d] = "uncopy"
    /\ copy' = FALSE
    /\ Goto(d, "current")
    /\ UNCHANGED <<setting, screen, ghost, line, named, live, printed, connecting, urls, acts, recorded, locals, history>>

PaneCommand(d) ==
    /\ pc[d] = "current"
    /\ cur' = [cur EXCEPT ![d] = PaneCommandName]
    /\ changed' = [changed EXCEPT ![d] = copy]
    /\ moved' = [moved EXCEPT ![d] = FALSE]
    /\ Goto(d, "look")
    /\ UNCHANGED <<setting, pane, acts, recorded, op, seen, acted, before, attempt, found, stale, lost>>

\* Mutant: whatever runs there is taken for Claude Code.
LookAnything(d) ==
    /\ pc[d] = "look"
    /\ IF cur[d] = "shell" THEN Goto(d, "launch") ELSE Goto(d, "idle")
    /\ UNCHANGED <<setting, pane, acts, recorded, locals, history>>

\* a shell, Claude Code by its name or its prompt, or neither
Look(d) ==
    /\ pc[d] = "look"
    /\ \/ cur[d] = "shell" /\ Goto(d, "launch") /\ UNCHANGED <<locals, history>>
       \/ cur[d] # "shell" /\ (cur[d] = "claude" \/ UiVisible(View)) /\ Goto(d, "idle")
             /\ UNCHANGED <<locals, history>>
       \/ cur[d] \notin {"shell", "claude"} /\ ~UiVisible(View) /\ Leave(d)
    /\ UNCHANGED <<setting, pane, acts, recorded>>

\* The call takes the pane for ready; what it has seen is not needed any more.
Ready(d, s) ==
    /\ Goto(d, s)
    /\ cur' = [cur EXCEPT ![d] = ""]
    /\ seen' = [seen EXCEPT ![d] = NoView]
    /\ acted' = [acted EXCEPT ![d] = NoView]
    /\ changed' = [changed EXCEPT ![d] = copy]
    /\ UNCHANGED <<moved, stale, lost>>

Settle(d) ==
    /\ Goto(d, "settle")
    /\ seen' = [seen EXCEPT ![d] = View]
    /\ UNCHANGED <<cur, acted, history>>

\* _wait_for_claude_idle: the prompt is recognised, or the pane is quiet ...
WaitIdle(d) ==
    /\ pc[d] = "idle"
    /\ IF PromptReady(View) THEN Ready(d, "before")
                            ELSE ~DialogVisible(View) /\ ~Busy(View) /\ Settle(d)
    /\ UNCHANGED <<setting, pane, acts, recorded, op, before, attempt, found>>

\* ... and reads the same an interval later
PaneSettled(d) ==
    /\ pc[d] = "settle"
    /\ IF View = seen[d] THEN Ready(d, "before")
                          ELSE Goto(d, "idle") /\ UNCHANGED <<cur, seen, acted, history>>
    /\ UNCHANGED <<setting, pane, acts, recorded, op, before, attempt, found>>

NeverIdle(d) ==
    /\ pc[d] = "idle" /\ ~PromptReady(View)
    /\ Leave(d)
    /\ UNCHANGED <<setting, pane, acts, recorded>>

-----------------------------------------------------------------------------
(* Launch, and _wait_for_claude_prompt *)

\* one send-keys with the command and Enter
Launch(d) ==
    /\ pc[d] = "launch"
    /\ Submit(IF TakesText THEN Typed("claude") ELSE line)
    /\ Goto(d, "prompt")
    /\ UNCHANGED <<setting, acts, recorded, locals, history>>

AfterPrompt(d) == IF op[d] = "resume" THEN "before" ELSE "clear"

WaitPrompt(d) ==
    /\ pc[d] = "prompt"
    /\ \/ PromptReady(View) /\ Ready(d, AfterPrompt(d))
       \/ /\ DialogVisible(View) /\ View # acted[d]
          /\ acted' = [acted EXCEPT ![d] = View]
          /\ Goto(d, "accept")
          /\ UNCHANGED <<cur, seen, history>>
    /\ UNCHANGED <<setting, pane, acts, recorded, op, before, attempt, found>>

AcceptDialog(d) ==
    /\ pc[d] = "accept"
    /\ Enter
    /\ Goto(d, "prompt")
    /\ UNCHANGED <<setting, acts, recorded, locals, history>>

\* resume raises, setup goes on
NoPrompt(d) ==
    /\ pc[d] = "prompt" /\ ~PromptReady(View)
    /\ IF op[d] = "resume" THEN Leave(d) ELSE Goto(d, "clear") /\ UNCHANGED <<locals, history>>
    /\ UNCHANGED <<setting, pane, acts, recorded>>

-----------------------------------------------------------------------------
(* _rename_claude_session *)

RenameClear(d) ==
    /\ pc[d] = "clear"
    /\ KillLine /\ Goto(d, "type")
    /\ UNCHANGED <<setting, acts, recorded, locals, history>>

RenameType(d) ==
    /\ pc[d] = "type"
    /\ Text("/rename") /\ Goto(d, "enter")
    /\ UNCHANGED <<setting, acts, recorded, locals, history>>

RenameEnter(d) ==
    /\ pc[d] = "enter"
    /\ Enter /\ Goto(d, "confirm")
    /\ UNCHANGED <<setting, acts, recorded, locals, history>>

AfterRename(d) ==
    /\ Goto(d, IF op[d] = "teleport" THEN "before" ELSE "record")
    /\ attempt' = [attempt EXCEPT ![d] = 1]

\* five looks at the title, then another attempt; a rename that is not confirmed is only logged
RenameConfirmed(d) ==
    /\ pc[d] = "confirm" /\ named
    /\ AfterRename(d)
    /\ UNCHANGED <<setting, pane, acts, recorded, op, cur, seen, acted, before, found, history>>

RenameOnceMore(d) ==   \* mutant: one attempt too many
    /\ pc[d] = "confirm" /\ ~named
    /\ IF attempt[d] <= Attempts THEN Goto(d, "clear") /\ attempt' = [attempt EXCEPT ![d] = @ + 1]
                                 ELSE AfterRename(d)
    /\ UNCHANGED <<setting, pane, acts, recorded, op, cur, seen, acted, before, found, history>>

RenameUnconfirmed(d) ==
    /\ pc[d] = "confirm" /\ ~named
    /\ IF attempt[d] < Attempts THEN Goto(d, "clear") /\ attempt' = [attempt EXCEPT ![d] = @ + 1]
                                ELSE AfterRename(d)
    /\ UNCHANGED <<setting, pane, acts, recorded, op, cur, seen, acted, before, found, history>>

-----------------------------------------------------------------------------
(* _enable_remote_control *)

\* _pane_session_urls before anything is typed
RcBefore(d) ==
    /\ pc[d] = "before"
    /\ before' = [before EXCEPT ![d] = VisibleUrls]
    /\ stale' = [stale EXCEPT ![d] = (1 .. printed) \ {live}]
    /\ lost' = [lost EXCEPT ![d] = FALSE]
    /\ Goto(d, "rcclear")
    /\ UNCHANGED <<setting, pane, acts, recorded, op, cur, seen, acted, attempt, found, changed, moved>>

RcClear(d) ==
    /\ pc[d] = "rcclear"
    /\ KillLine /\ Goto(d, "rctype")
    /\ UNCHANGED <<setting, acts, recorded, locals, history>>

RcType(d) ==
    /\ pc[d] = "rctype"
    /\ Text(IF attempt[d] = 1 THEN "/rc" ELSE "/remote-control") /\ Goto(d, "rcenter")
    /\ UNCHANGED <<setting, acts, recorded, locals, history>>

RcEnter(d) ==
    /\ pc[d] = "rcenter"
    /\ Enter /\ Goto(d, IF attempt[d] = 1 THEN "rcenter2" ELSE "rcwait")
    /\ UNCHANGED <<setting, acts, recorded, locals, history>>

RcEnterAgain(d) ==
    /\ pc[d] = "rcenter2"
    /\ Enter /\ Goto(d, "rcwait")
    /\ UNCHANGED <<setting, acts, recorded, locals, history>>

AfterRc(d) == IF op[d] = "resume" THEN "store" ELSE "record"

\* Mutant: any URL on the screen will do.
AnyUrl(d) ==
    /\ pc[d] = "rcwait" /\ VisibleUrls # <<>>
    /\ found' = [found EXCEPT ![d] = VisibleUrls[Len(VisibleUrls)]]
    /\ before' = [before EXCEPT ![d] = <<>>]
    /\ Goto(d, AfterRc(d))
    /\ UNCHANGED <<setting, pane, acts, recorded, op, cur, seen, acted, attempt, history>>

\* _wait_for_new_session_url: one more URL than before, or the list changed
NewUrl(d) ==
    /\ pc[d] = "rcwait" /\ VisibleUrls # <<>>
    /\ Len(VisibleUrls) > Len(before[d]) \/ VisibleUrls # before[d]
    /\ found' = [found EXCEPT ![d] = VisibleUrls[Len(VisibleUrls)]]
    /\ before' = [before EXCEPT ![d] = <<>>]
    /\ Goto(d, AfterRc(d))
    /\ UNCHANGED <<setting, pane, acts, recorded, op, cur, seen, acted, attempt, history>>

\* Mutant: it tries for ever.
TryAgain(d) ==
    /\ pc[d] = "rcwait"
    /\ Goto(d, "before") /\ attempt' = [attempt EXCEPT ![d] = 2]
    /\ UNCHANGED <<setting, pane, acts, recorded, op, cur, seen, acted, before, found, history>>

NoNewUrl(d) ==
    /\ pc[d] = "rcwait" /\ (VisibleUrls = <<>> \/ VisibleUrls = before[d])
    /\ \/ /\ attempt[d] < Attempts
          /\ Goto(d, "before") /\ attempt' = [attempt EXCEPT ![d] = @ + 1]
          /\ UNCHANGED <<op, cur, seen, acted, before, found, history>>
       \/ /\ attempt[d] = Attempts /\ op[d] = "resume" /\ Leave(d)
       \/ /\ attempt[d] = Attempts /\ op[d] # "resume" /\ Goto(d, "record")
          /\ UNCHANGED <<locals, history>>
    /\ UNCHANGED <<setting, pane, acts, recorded>>

-----------------------------------------------------------------------------
(* What is recorded, and the ends of a call *)

StoreResumed(d) ==
    /\ pc[d] = "store"
    /\ recorded' = found[d]
    /\ Leave(d)
    /\ UNCHANGED <<setting, pane, acts>>

\* _claude_session_url: the last one shown, else derived from the teleported session
StoreSetUp(d) ==
    /\ pc[d] = "record"
    /\ recorded' = IF VisibleUrls # <<>> THEN VisibleUrls[Len(VisibleUrls)]
                   ELSE IF op[d] = "teleport" THEN Derived ELSE recorded
    /\ Leave(d)
    /\ UNCHANGED <<setting, pane, acts>>

\* The dashboard ends; the keys it typed stay where they are.
Dies(d) ==
    /\ pc[d] # "off"
    /\ Leave(d)
    /\ UNCHANGED <<setting, pane, acts, recorded>>

TimesOut(d) == NeverIdle(d) \/ NoPrompt(d)

Step(d) ==
    \/ HasSession(d) \/ NewSession(d) \/ LeaveCopyMode(d) \/ PaneCommand(d) \/ Look(d)
    \/ WaitIdle(d) \/ PaneSettled(d) \/ Launch(d) \/ WaitPrompt(d) \/ AcceptDialog(d)
    \/ RenameClear(d) \/ RenameType(d) \/ RenameEnter(d) \/ RenameConfirmed(d) \/ RenameUnconfirmed(d)
    \/ RcBefore(d) \/ RcClear(d) \/ RcType(d) \/ RcEnter(d) \/ RcEnterAgain(d) \/ NewUrl(d) \/ NoNewUrl(d)
    \/ StoreResumed(d) \/ StoreSetUp(d)

Next ==
    \/ \E d \in setting.calls :
          (\E o \in setting.ops : Start(d, o)) \/ Step(d) \/ TimesOut(d) \/ Dies(d)
    \/ UserActs \/ ProgramMoves \/ Connects \/ Drops \/ UrlScrollsOff

\* A call runs on, and its deadlines pass whatever the pane does.
Fairness == \A d \in Calls : WF_vars(Step(d)) /\ SF_vars(TimesOut(d))

Spec == Init /\ [][Next]_vars /\ Fairness
-----------------------------------------------------------------------------
Pcs == {"off", "has", "new", "uncopy", "current", "look", "idle", "settle", "launch", "prompt",
        "accept", "clear", "type", "enter", "confirm", "before", "rcclear", "rctype", "rcenter",
        "rcenter2", "rcwait", "store", "record"}
EnterPcs == {"launch", "accept", "enter", "rcenter", "rcenter2"}
TextPcs == {"clear", "type", "rcclear", "rctype"}

TypeOK ==
    /\ setting \in Settings
    /\ screen \in Screens
    /\ line \in {"", "/rename", "/rc", "/remote-control", "claude", "mixed"}
    /\ live \in 0 .. printed /\ printed \in 0 .. MaxUrls
    /\ urls \in Seq(1 .. printed) /\ Len(urls) <= MaxUrls
    /\ (screen = "none" => live = NoUrl /\ urls = <<>>)
    /\ (live # NoUrl => screen \in {"idle", "busy", "ask"})
    /\ pc \in [Calls -> Pcs]
    /\ op \in [Calls -> Ops]
    /\ attempt \in [Calls -> 1 .. Attempts]
    /\ found \in [Calls -> 0 .. MaxUrls]
    /\ recorded \in {Derived} \cup 0 .. MaxUrls

\* No other call drives the session at the same time.
Alone == \A c, d \in setting.calls : c = d

Presses(d, keys) == pc[d] \in keys /\ pc'[d] \notin {pc[d], "off"}

\* No Enter of the program answers a permission dialog: "confirming it on the user's behalf
\* is not ours to do".  Only what the user starts between a look and a key gets past the looks.
NoBlindApproval ==
    [][Alone => \A d \in Calls :
          Presses(d, EnterPcs) /\ screen = "ask" /\ ~copy => changed[d]]_vars

\* The keys of a resume land where they are meant: the command in a shell, the rest in
\* Claude Code, never in another program, and what Claude Code is given is what was typed.
KeysLand ==
    [][Alone /\ ~setting.ghosts => \A d \in Calls :
          op[d] = "resume" /\ ~changed[d] /\ ~moved[d] =>
             /\ Presses(d, {"launch"}) => screen = "shell"
             /\ Presses(d, TextPcs \cup (EnterPcs \ {"launch"})) => screen \notin {"none", "shell", "other"}
             /\ Presses(d, {"rcenter", "rcenter2"}) /\ screen = "idle" => line # "mixed"]_vars

\* A resume records a URL that was not dead already when it began: "only a URL printed
\* after the command is submitted is accepted" -- as long as none leaves the screen meanwhile.
RecordedFresh ==
    \A d \in Calls : found[d] \in stale[d] => lost[d] \/ changed[d]

\* The same without that exception, as the code states it.
RecordedIsNew == \A d \in Calls : found[d] \notin stale[d] \/ changed[d]

\* Every call comes back, whatever the pane does.
CallEnds == \A d \in Calls : pc[d] # "off" ~> pc[d] = "off"
=============================================================================
