------------------------ MODULE ClaudeSession_proofs ------------------------
(***************************************************************************)
(* What the driver of Claude Code keeps for every setting, any number of   *)
(* calls, attempts and URLs, and whatever the pane and its user do: the    *)
(* URL a call finds is not one that was dead before; and, when one call    *)
(* drives the pane, no Enter of it answers a permission dialog and the     *)
(* keys of a resume land where they are meant.                             *)
(***************************************************************************)
EXTENDS ClaudeSession, TLAPS

Running == {"idle", "busy", "ask"}
ClaudeScreens == {"starting", "trust", "mcp"} \cup Running

\* The URLs of a pane without a session, of one without Claude Code, and where it is coming up.
PaneInv ==
    /\ screen = "none" => live = NoUrl /\ urls = <<>> /\ ~copy
    /\ live # NoUrl \/ connecting => screen \in Running
    /\ screen \in {"none", "starting", "trust", "mcp"} => line = ""
    /\ ghost => setting.ghosts

\* TypeOK in two halves, with the variables it leaves out: the pane ...
PaneTypes ==
    /\ setting \in Settings
    /\ screen \in Screens /\ line \in {"", "/rename", "/rc", "/remote-control", "claude", "mixed"}
    /\ copy \in BOOLEAN /\ ghost \in BOOLEAN /\ named \in BOOLEAN /\ connecting \in BOOLEAN
    /\ live \in 0 .. printed /\ printed \in 0 .. MaxUrls
    /\ urls \in Seq(1 .. printed) /\ Len(urls) <= MaxUrls
    /\ recorded \in {Derived} \cup 0 .. MaxUrls
    /\ PaneInv

\* ... and the calls.
CallTypes ==
    /\ pc \in [Calls -> Pcs] /\ op \in [Calls -> Ops]
    /\ attempt \in [Calls -> 1 .. Attempts] /\ found \in [Calls -> 0 .. MaxUrls]
    /\ DOMAIN cur = Calls /\ DOMAIN seen = Calls /\ DOMAIN acted = Calls
    /\ before \in [Calls -> Seq(1 .. MaxUrls)] /\ stale \in [Calls -> SUBSET (1 .. MaxUrls)]
    /\ changed \in [Calls -> BOOLEAN] /\ moved \in [Calls -> BOOLEAN] /\ lost \in [Calls -> BOOLEAN]

Types == PaneTypes /\ CallTypes

Lines == {"", "/rename", "/rc", "/remote-control", "claude", "mixed"}

-----------------------------------------------------------------------------
(* Types *)

\* A list of the first m URLs is a list of the first n.
LEMMA MoreUrls ==
    ASSUME NEW m \in Nat, NEW n \in Nat, m <= n, NEW s \in Seq(1 .. m)
    PROVE  s \in Seq(1 .. n)
<1>1. Len(s) \in Nat /\ s \in [1 .. Len(s) -> 1 .. m]
  OBVIOUS
<1>2. s \in [1 .. Len(s) -> 1 .. n]
  BY <1>1
<1> QED BY <1>1, <1>2

LEMMA TypesInit == Init => Types
<1> SUFFICES ASSUME Init PROVE Types
    OBVIOUS
<1>1. setting \in Settings /\ setting.screens \subseteq Screens
  BY SettingsAssumption DEF Init
<1>2. PICK n \in 0 .. MaxUrls - 1 : urls = [i \in 1 .. n |-> i]
  BY DEF Init
<1>3. n \in Nat /\ n <= MaxUrls /\ MaxUrls \in Nat
  BY BoundsAssumption
<1>4. urls \in Seq(1 .. n) /\ Len(urls) = n
  BY <1>2, <1>3
<1>5. printed = Len(urls) /\ live \in {NoUrl, printed} /\ recorded = NoUrl /\ screen \in Screens
  BY <1>1 DEF Init
<1>6. PaneInv
  BY DEF Init, PaneInv, Running
<1>7. printed = n /\ live \in 0 .. n
  BY <1>3, <1>4, <1>5 DEF NoUrl
<1>8. /\ screen = "none" => live = NoUrl /\ urls = <<>>
      /\ live # NoUrl => screen \in {"idle", "busy", "ask"}
      /\ line = "" /\ copy \in BOOLEAN /\ ghost = FALSE /\ named = FALSE /\ connecting = FALSE
  BY <1>6 DEF Init, PaneInv, Running
<1>9. /\ pc \in [Calls -> Pcs] /\ op \in [Calls -> Ops] /\ attempt \in [Calls -> 1 .. Attempts]
      /\ found \in [Calls -> 0 .. MaxUrls] /\ before \in [Calls -> Seq(1 .. MaxUrls)]
      /\ DOMAIN cur = Calls /\ DOMAIN seen = Calls /\ DOMAIN acted = Calls
      /\ changed \in [Calls -> BOOLEAN] /\ moved \in [Calls -> BOOLEAN]
      /\ lost \in [Calls -> BOOLEAN] /\ stale \in [Calls -> SUBSET (1 .. MaxUrls)]
  <2>1. <<>> \in Seq(1 .. MaxUrls) /\ 1 \in 1 .. Attempts /\ 0 \in 0 .. MaxUrls
    BY BoundsAssumption
  <2> QED BY <2>1 DEF Init, Pcs, Ops, NoUrl
<1>10. urls \in Seq(1 .. printed) /\ Len(urls) <= MaxUrls /\ printed \in 0 .. MaxUrls
  BY <1>3, <1>4, <1>7
<1>11. recorded \in {Derived} \cup 0 .. MaxUrls
  BY <1>3, <1>5 DEF NoUrl
<1> QED
  BY <1>1, <1>5, <1>6, <1>7, <1>8, <1>9, <1>10, <1>11 DEF Types, PaneTypes, CallTypes

\* What an Enter does to the pane: it brings no URL, ends no program that is up, and scrolls
\* nothing.
LEMMA EnterTypes ==
    ASSUME Types, NEW text \in Lines, Submit(text)
    PROVE  /\ UNCHANGED <<ghost, live, printed, urls>>
           /\ screen' \in Screens /\ line' \in Lines /\ copy' \in BOOLEAN /\ (copy' => copy)
           /\ named' \in BOOLEAN /\ connecting' \in BOOLEAN
           /\ screen = "none" <=> screen' = "none"
           /\ screen \in Running => screen' \in Running
           /\ connecting' => connecting \/ screen' \in Running
           /\ screen' \in {"none", "starting", "trust", "mcp"} /\ line' # "" => screen = screen' /\ line = line'
<1> USE DEF Types, PaneTypes, PaneInv, Screens, Lines, Running
<1>1. CASE copy /\ copy' \in BOOLEAN /\ UNCHANGED <<screen, line, named, connecting, ghost, live, printed, urls>>
  BY <1>1
<1>2. CASE ~copy /\ ShellRuns(text) /\ UNCHANGED <<copy, ghost, live, printed, urls>>
  BY <1>2 DEF ShellRuns
<1>3. CASE ~copy /\ screen \in {"trust", "mcp", "ask"} /\ Confirmed /\ UNCHANGED <<copy, ghost, live, printed, urls>>
  BY <1>3 DEF Confirmed
<1>4. CASE ~copy /\ ClaudeTakes(text) /\ UNCHANGED <<copy, ghost, live, printed, urls>>
  BY <1>4 DEF ClaudeTakes
<1>5. CASE /\ ~copy /\ screen \in {"none", "starting", "other"}
           /\ UNCHANGED <<screen, line, named, connecting, copy, ghost, live, printed, urls>>
  BY <1>5
<1> QED BY <1>1, <1>2, <1>3, <1>4, <1>5 DEF Submit

\* The last one of a list of URLs.
LEMMA LastUrl ==
    ASSUME NEW n \in Nat, NEW s \in Seq(1 .. n), s # <<>>
    PROVE  Len(s) \in 1 .. Len(s) /\ s[Len(s)] \in 1 .. n
<1>1. Len(s) \in Nat /\ s \in [1 .. Len(s) -> 1 .. n] /\ Len(s) # 0
  OBVIOUS
<1> QED BY <1>1

\* What is read from the pane.
LEMMA ViewTypes ==
    ASSUME PaneTypes
    PROVE  /\ VisibleUrls \in Seq(1 .. MaxUrls) /\ VisibleUrls \in Seq(1 .. printed)
           /\ VisibleUrls # <<>> => VisibleUrls[Len(VisibleUrls)] \in 1 .. MaxUrls
<1>1. printed \in Nat /\ MaxUrls \in Nat /\ printed <= MaxUrls /\ urls \in Seq(1 .. printed)
  <2>1. printed \in 0 .. MaxUrls /\ urls \in Seq(1 .. printed)
    BY DEF PaneTypes
  <2> QED BY <2>1, BoundsAssumption
<1>4. urls \in Seq(1 .. MaxUrls)
  BY <1>1, MoreUrls
<1>5. <<>> \in Seq(1 .. MaxUrls) /\ <<>> \in Seq(1 .. printed)
  OBVIOUS
<1>2. VisibleUrls \in Seq(1 .. MaxUrls) /\ VisibleUrls \in Seq(1 .. printed)
  BY <1>1, <1>4, <1>5 DEF VisibleUrls
<1>3. VisibleUrls # <<>> => VisibleUrls[Len(VisibleUrls)] \in 1 .. MaxUrls
  BY <1>1, <1>2, LastUrl
<1> QED BY <1>2, <1>3

\* The steps of a call: what they do to the pane ...
LEMMA PaneStep ==
    ASSUME Types, NEW d \in Calls, (\E o \in setting.ops : Start(d, o)) \/ Step(d) \/ TimesOut(d) \/ Dies(d)
    PROVE  PaneTypes'
<1>0. VisibleUrls # <<>> => VisibleUrls[Len(VisibleUrls)] \in 0 .. MaxUrls
  <2>1. VisibleUrls # <<>> => VisibleUrls[Len(VisibleUrls)] \in 1 .. MaxUrls
    BY ViewTypes DEF Types
  <2> QED BY <2>1, BoundsAssumption
<1> USE DEF Types, PaneTypes
<1>1. ASSUME UNCHANGED <<setting, pane, recorded>> PROVE PaneTypes'
  BY <1>1 DEF pane, PaneInv
<1>2. ASSUME NEW text \in Lines, Submit(text), UNCHANGED <<setting, recorded>> PROVE PaneTypes'
  <2>1. PaneInv'
    BY <1>2, EnterTypes DEF PaneInv, Running
  <2> QED BY <1>2, <2>1, EnterTypes DEF Lines
<1>3. ASSUME NEW text \in Lines, Text(text) \/ KillLine, UNCHANGED <<setting, recorded>> PROVE PaneTypes'
  <2>1. line' \in Lines /\ (line' # line => TakesText)
    BY <1>3 DEF Text, KillLine, Typed, Lines
  <2>2. UNCHANGED <<setting, screen, copy, ghost, named, live, printed, connecting, urls, recorded>>
    BY <1>3 DEF Text, KillLine
  <2>3. PaneInv'
    BY <2>1, <2>2 DEF PaneInv, TakesText, Running
  <2> QED BY <2>1, <2>2, <2>3 DEF Lines
<1>4. line \in Lines /\ Typed("claude") \in Lines
  BY DEF Lines, Typed
<1>5. CASE Launch(d)
  BY <1>2, <1>4, <1>5 DEF Launch
<1>6. CASE AcceptDialog(d) \/ RenameEnter(d) \/ RcEnter(d) \/ RcEnterAgain(d)
  BY <1>2, <1>4, <1>6 DEF AcceptDialog, RenameEnter, RcEnter, RcEnterAgain, Enter
<1>7. CASE RenameClear(d) \/ RcClear(d)
  BY <1>3, <1>4, <1>7 DEF RenameClear, RcClear
<1>8. CASE RenameType(d) \/ RcType(d)
  <2>1. "/rename" \in Lines /\ "/rc" \in Lines /\ "/remote-control" \in Lines
    BY DEF Lines
  <2> QED BY <1>3, <1>8, <2>1 DEF RenameType, RcType
<1>9. CASE NewSession(d)
  BY <1>9 DEF NewSession, PaneInv, Running, Screens
<1>10. CASE LeaveCopyMode(d)
  BY <1>10 DEF LeaveCopyMode, PaneInv
<1>11. CASE StoreResumed(d)
  BY <1>11 DEF StoreResumed, CallTypes, pane, PaneInv
<1>12. CASE StoreSetUp(d)
  <2>1. recorded' \in {Derived} \cup 0 .. MaxUrls
    BY <1>0, <1>12 DEF StoreSetUp
  <2> QED BY <1>12, <2>1 DEF StoreSetUp, pane, PaneInv
<1>13. CASE \/ \E o \in setting.ops : Start(d, o)
            \/ HasSession(d) \/ PaneCommand(d) \/ Look(d) \/ WaitIdle(d) \/ PaneSettled(d)
            \/ WaitPrompt(d) \/ RenameConfirmed(d) \/ RenameUnconfirmed(d) \/ RcBefore(d)
            \/ NewUrl(d) \/ NoNewUrl(d) \/ NeverIdle(d) \/ NoPrompt(d) \/ Dies(d)
  BY <1>1, <1>13
     DEF Start, HasSession, PaneCommand, Look, WaitIdle, PaneSettled, WaitPrompt, RenameConfirmed,
         RenameUnconfirmed, RcBefore, NewUrl, NoNewUrl, NeverIdle, NoPrompt, Dies
<1> QED BY <1>5, <1>6, <1>7, <1>8, <1>9, <1>10, <1>11, <1>12, <1>13 DEF Step, TimesOut

\* ... and to their own variables.
LEMMA CallStep ==
    ASSUME Types, NEW d \in Calls, (\E o \in setting.ops : Start(d, o)) \/ Step(d) \/ TimesOut(d) \/ Dies(d)
    PROVE  CallTypes'
<1>0. /\ setting.ops \subseteq Ops /\ MaxUrls \in Nat /\ Attempts \in Nat \ {0}
      /\ copy \in BOOLEAN /\ printed \in 0 .. MaxUrls
  BY SettingsAssumption, BoundsAssumption DEF Types, PaneTypes
<1> USE DEF Types, CallTypes
<1>1. ASSUME NEW s \in Pcs, Goto(d, s), UNCHANGED <<locals, history>> PROVE CallTypes'
  BY <1>1 DEF Goto, locals, history
<1>2. ASSUME Leave(d) PROVE CallTypes'
  <2>1. <<>> \in Seq(1 .. MaxUrls) /\ 1 \in 1 .. Attempts /\ NoUrl \in 0 .. MaxUrls
        /\ "off" \in Pcs /\ "resume" \in Ops
    BY <1>0 DEF NoUrl, Pcs, Ops
  <2> QED BY <1>2, <2>1 DEF Leave, Goto
<1>3. ASSUME NEW s \in Pcs, Ready(d, s), UNCHANGED <<op, before, attempt, found>> PROVE CallTypes'
  BY <1>0, <1>3 DEF Ready, Goto
<1>4. CASE \E o \in setting.ops : Start(d, o)
  BY <1>0, <1>4 DEF Start, Goto, history, Pcs
<1>5. CASE HasSession(d) \/ NeverIdle(d) \/ NoPrompt(d) \/ Dies(d) \/ Look(d)
           \/ StoreResumed(d) \/ StoreSetUp(d)
  BY <1>1, <1>2, <1>5 DEF HasSession, NeverIdle, NoPrompt, Dies, Look, StoreResumed, StoreSetUp, Pcs
<1>6. CASE NewSession(d)
  BY <1>0, <1>6 DEF NewSession, locals, Goto, Pcs
<1>14. CASE PaneCommand(d)
  BY <1>0, <1>14 DEF PaneCommand, Goto, Pcs
<1>7. CASE \/ LeaveCopyMode(d) \/ Launch(d) \/ AcceptDialog(d)
           \/ RenameClear(d) \/ RenameType(d) \/ RenameEnter(d)
           \/ RcClear(d) \/ RcType(d) \/ RcEnter(d) \/ RcEnterAgain(d)
  BY <1>1, <1>7
     DEF LeaveCopyMode, Launch, AcceptDialog, RenameClear, RenameType, RenameEnter, RcClear,
         RcType, RcEnter, RcEnterAgain, Pcs
<1>8. CASE WaitIdle(d) \/ PaneSettled(d)
  BY <1>3, <1>8 DEF WaitIdle, PaneSettled, Settle, Goto, history, Pcs
<1>9. CASE WaitPrompt(d)
  BY <1>3, <1>9 DEF WaitPrompt, AfterPrompt, Goto, history, Pcs
<1>10. CASE RenameConfirmed(d) \/ RenameUnconfirmed(d)
  <2>1. 1 \in 1 .. Attempts /\ (attempt[d] < Attempts => attempt[d] + 1 \in 1 .. Attempts)
    BY <1>0
  <2>2. attempt' \in [Calls -> 1 .. Attempts] /\ \E s \in Pcs : Goto(d, s)
    BY <1>10, <2>1 DEF RenameConfirmed, RenameUnconfirmed, AfterRename, Pcs
  <2> QED BY <1>10, <2>2 DEF RenameConfirmed, RenameUnconfirmed, Goto, history
<1>11. CASE RcBefore(d)
  <2>1. (1 .. printed) \ {live} \subseteq 1 .. MaxUrls
    BY <1>0
  <2> QED BY <1>11, <2>1, ViewTypes DEF RcBefore, Goto, Pcs
<1>12. CASE NewUrl(d)
  <2>1. <<>> \in Seq(1 .. MaxUrls) /\ VisibleUrls[Len(VisibleUrls)] \in 0 .. MaxUrls
    BY <1>0, <1>12, ViewTypes DEF NewUrl
  <2> QED BY <1>12, <2>1 DEF NewUrl, AfterRc, Goto, history, Pcs
<1>13. CASE NoNewUrl(d)
  <2>1. attempt[d] < Attempts => attempt[d] + 1 \in 1 .. Attempts
    BY <1>0
  <2>2. ASSUME attempt[d] < Attempts, Goto(d, "before"), attempt' = [attempt EXCEPT ![d] = @ + 1],
               UNCHANGED <<op, cur, seen, acted, before, found, history>>
        PROVE  CallTypes'
    BY <2>1, <2>2 DEF Goto, history, Pcs
  <2>3. "record" \in Pcs
    BY DEF Pcs
  <2> HIDE DEF Types, CallTypes
  <2> QED BY <1>1, <1>2, <1>13, <2>2, <2>3 DEF NoNewUrl
<1> QED BY <1>4, <1>5, <1>6, <1>7, <1>8, <1>9, <1>10, <1>11, <1>12, <1>13, <1>14 DEF Step, TimesOut

\* The steps of the pane and its user.
LEMMA PaneMoves ==
    ASSUME Types, UserActs \/ ProgramMoves \/ Connects \/ Drops \/ UrlScrollsOff
    PROVE  Types'
<1>0. /\ live \in 0 .. printed /\ printed \in 0 .. MaxUrls
      /\ urls \in Seq(1 .. printed) /\ Len(urls) <= MaxUrls /\ PaneInv /\ ghost \in BOOLEAN
      /\ setting.ghosts \in BOOLEAN /\ screen \in Screens /\ copy \in BOOLEAN
  BY SettingsAssumption DEF Types, PaneTypes
<1>a. printed \in Nat /\ MaxUrls \in Nat /\ live \in Nat /\ Len(urls) \in Nat
  BY <1>0, BoundsAssumption
<1>1. CASE UserActs
  <2>1. CallTypes'
    BY <1>1 DEF UserActs, Types, CallTypes, locals
  <2>2. /\ UNCHANGED <<setting, named, printed, recorded>>
        /\ \/ screen = "idle" /\ screen' = "busy" /\ UNCHANGED <<copy, ghost, live, connecting, urls>> /\ line' = ""
           \/ screen \in {"idle", "shell"} /\ line' = "mixed" /\ UNCHANGED <<screen, copy, ghost, live, connecting, urls>>
           \/ /\ screen = "idle" /\ screen' = "shell" /\ line' = "" /\ ghost' \in {FALSE, setting.ghosts}
              /\ live' = NoUrl /\ connecting' = FALSE /\ UNCHANGED <<copy, urls>>
           \/ screen = "shell" /\ screen' = "other" /\ UNCHANGED <<copy, ghost, line, live, connecting, urls>>
           \/ screen # "none" /\ copy' = ~copy /\ UNCHANGED <<screen, ghost, line, live, connecting, urls>>
           \/ /\ screen' = "none" /\ line' = "" /\ copy' = FALSE /\ ghost' = FALSE /\ urls' = <<>>
              /\ live' = NoUrl /\ connecting' = FALSE
    BY <1>1 DEF UserActs
  <2>3. PaneInv'
    <3>1. ghost' => setting'.ghosts
      BY <1>0, <2>2 DEF PaneInv
    <3>2. screen' = "none" => live' = NoUrl /\ urls' = <<>> /\ ~copy'
      BY <1>0, <2>2 DEF PaneInv
    <3>3. live' # NoUrl \/ connecting' => screen' \in Running
      BY <1>0, <2>2 DEF PaneInv, Running
    <3>4. screen' \in {"none", "starting", "trust", "mcp"} => line' = ""
      BY <1>0, <2>2 DEF PaneInv
    <3> QED BY <3>1, <3>2, <3>3, <3>4 DEF PaneInv
  <2>4. urls' \in Seq(1 .. printed) /\ Len(urls') <= MaxUrls
    <3>1. <<>> \in Seq(1 .. printed) /\ Len(<<>>) <= MaxUrls
      BY <1>a
    <3> QED BY <1>0, <2>2, <3>1
  <2>5. live' \in 0 .. printed
    <3>1. live' = live \/ live' = NoUrl
      BY <2>2
    <3> QED BY <1>0, <1>a, <3>1 DEF NoUrl
  <2>6. /\ screen' \in Screens /\ copy' \in BOOLEAN /\ line' \in {line, "", "mixed"}
        /\ ghost' \in BOOLEAN /\ connecting' \in {connecting, FALSE}
    BY <1>0, <2>2 DEF Screens
  <2> QED BY <2>1, <2>2, <2>3, <2>4, <2>5, <2>6 DEF Types, PaneTypes
<1>2. CASE ProgramMoves
  <2>1. CallTypes'
    BY <1>2 DEF ProgramMoves, Types, CallTypes, locals
  <2>2. /\ UNCHANGED <<setting, copy, line, named, live, printed, connecting, urls, recorded>>
        /\ ghost' \in {ghost, FALSE}
        /\ \/ screen = "starting" /\ screen' \in {"trust", "mcp", "idle", "shell"}
           \/ screen = "busy" /\ screen' \in {"idle", "ask"}
           \/ screen = "ask" /\ screen' = "busy"
           \/ screen = "other" /\ screen' = "shell"
    BY <1>2 DEF ProgramMoves
  <2>3. PaneInv'
    <3>1. ghost' => setting'.ghosts
      BY <1>0, <2>2 DEF PaneInv
    <3>2. screen' # "none" /\ (live' # NoUrl \/ connecting' => screen' \in Running)
      BY <1>0, <2>2 DEF PaneInv, Running
    <3>3. screen' \in {"starting", "trust", "mcp"} => line' = ""
      BY <1>0, <2>2 DEF PaneInv
    <3> QED BY <3>1, <3>2, <3>3 DEF PaneInv
  <2> QED BY <2>1, <2>2, <2>3 DEF Types, PaneTypes, Screens
<1>3. CASE Connects
  <2>1. CallTypes' /\ UNCHANGED <<setting, screen, copy, ghost, line, named, recorded>>
        /\ connecting' = FALSE /\ connecting
    BY <1>3 DEF Connects, Types, CallTypes, locals, history
  <2>2. \/ /\ live' = printed + 1 /\ printed' = printed + 1 /\ printed < MaxUrls
           /\ Len(urls) < MaxUrls /\ urls' = Append(urls, live')
        \/ /\ live # NoUrl /\ Len(urls) < MaxUrls
           /\ urls' = Append(urls, live') /\ UNCHANGED <<live, printed>>
        \/ UNCHANGED <<live, printed, urls>>
    BY <1>3 DEF Connects
  <2>3. live' \in 0 .. printed' /\ printed' \in 0 .. MaxUrls /\ printed' >= printed /\ printed' \in Nat
    BY <1>0, <1>a, <2>2
  <2>4. urls \in Seq(1 .. printed')
    BY <1>0, <1>a, <2>3, MoreUrls
  <2>5. urls' \in Seq(1 .. printed') /\ Len(urls') <= MaxUrls
    <3>1. urls' # urls => /\ live' \in 1 .. printed' /\ Len(urls) < MaxUrls
                          /\ urls' = Append(urls, live')
      BY <1>a, <2>2, <2>3 DEF NoUrl
    <3>2. ASSUME urls' # urls PROVE urls' \in Seq(1 .. printed') /\ Len(urls') = Len(urls) + 1
      <4>1. live' \in 1 .. printed' /\ urls' = Append(urls, live')
        BY <3>1, <3>2
      <4> QED BY <2>4, <4>1
    <3> QED BY <1>0, <1>a, <2>4, <3>1, <3>2
  <2>6. PaneInv'
    BY <1>0, <2>1 DEF PaneInv, Running
  <2> QED BY <2>1, <2>3, <2>5, <2>6 DEF Types, PaneTypes
<1>4. CASE Drops
  <2>1. CallTypes'
    BY <1>4 DEF Drops, Types, CallTypes, locals, history
  <2>2. PaneInv'
    BY <1>0, <1>4 DEF Drops, PaneInv
  <2>3. live' \in 0 .. printed
    BY <1>4, <1>a DEF Drops, NoUrl
  <2> QED BY <1>4, <2>1, <2>2, <2>3 DEF Drops, Types, PaneTypes
<1>5. CASE UrlScrollsOff
  <2>1. CallTypes'
    BY <1>5 DEF UrlScrollsOff, Types, CallTypes, locals
  <2>2. urls' \in Seq(1 .. printed) /\ Len(urls') <= MaxUrls
    <3>1. urls # <<>> /\ urls' = Tail(urls)
      BY <1>5 DEF UrlScrollsOff
    <3>2. Tail(urls) \in Seq(1 .. printed) /\ Len(Tail(urls)) = Len(urls) - 1
      BY <1>0, <3>1
    <3> QED BY <1>0, <1>a, <3>1, <3>2
  <2>3. PaneInv'
    BY <1>0, <1>5 DEF UrlScrollsOff, PaneInv
  <2> QED BY <1>5, <2>1, <2>2, <2>3 DEF UrlScrollsOff, Types, PaneTypes
<1> QED BY <1>1, <1>2, <1>3, <1>4, <1>5

LEMMA TypesNext == Types /\ [Next]_vars => Types'
<1> SUFFICES ASSUME Types, [Next]_vars PROVE Types'
    OBVIOUS
<1>1. CASE UNCHANGED vars
  BY <1>1 DEF vars, pane, locals, history, Types, PaneTypes, PaneInv, CallTypes
<1>2. setting.calls \subseteq Calls
  BY SettingsAssumption DEF Types, PaneTypes
<1> QED BY <1>1, <1>2, PaneStep, CallStep, PaneMoves DEF Next, Types

\* The state stays of its type: a session URL is on the screen only if it was printed, and
\* Remote Control is on only in a Claude Code that is up.
THEOREM TypeCorrect == Spec => []TypeOK
<1>1. Types => TypeOK
  BY DEF Types, PaneTypes, PaneInv, CallTypes, TypeOK, Running
<1> QED BY TypesInit, TypesNext, <1>1, PTL DEF Spec

-----------------------------------------------------------------------------
(* The URL that is found *)

Waiting == {"rcclear", "rctype", "rcenter", "rcenter2", "rcwait"}
Unready == {"off", "has", "new", "uncopy", "current"}

\* The URLs of a screen that nothing has left since it was read: what was there is still there,
\* and what has come since was not dead then.
Since(old, dead) ==
    /\ Len(old) <= Len(urls)
    /\ \A i \in 1 .. Len(old) : urls[i] = old[i]
    /\ \A i \in Len(old) + 1 .. Len(urls) : urls[i] \notin dead

\* What a call knows of the screen: a view it took for ready was not scrolled, unless the user
\* has acted since; what was dead when it looked was printed by then, and is not on now.
Fresh(d) ==
    /\ pc[d] \notin Unready /\ copy => changed[d]
    /\ stale[d] \subseteq 1 .. printed /\ live \notin stale[d]
    /\ pc[d] \in Waiting /\ ~lost[d] /\ ~changed[d] => Since(before[d], stale[d])
    /\ found[d] \in stale[d] => lost[d] \/ changed[d]
    /\ pc[d] \notin {"store", "record"} => found[d] = NoUrl

FreshInv == Types /\ \A d \in Calls : Fresh(d)

LEMMA FreshInit == Init => FreshInv
<1> SUFFICES ASSUME Init, NEW d \in Calls PROVE Fresh(d)
    BY TypesInit DEF FreshInv
<1>1. pc[d] = "off" /\ stale[d] = {} /\ found[d] = NoUrl
  BY DEF Init
<1> QED BY <1>1 DEF Fresh, Unready, Waiting

\* A step of a call brings no URL, turns no session on, scrolls nothing, and leaves the
\* variables of the other calls alone.
Call(d) == (\E o \in setting.ops : Start(d, o)) \/ Step(d) \/ TimesOut(d) \/ Dies(d)

LEMMA CallTouches ==
    ASSUME Types, NEW d \in Calls, Call(d)
    PROVE  /\ UNCHANGED <<setting, acts, ghost, live, printed, urls>>
           /\ copy' => copy
           /\ \A e \in Calls \ {d} :
                 /\ pc'[e] = pc[e] /\ op'[e] = op[e] /\ before'[e] = before[e] /\ found'[e] = found[e]
                 /\ cur'[e] = cur[e] /\ seen'[e] = seen[e]
                 /\ stale'[e] = stale[e] /\ lost'[e] = lost[e]
                 /\ changed'[e] = changed[e] /\ moved'[e] = moved[e]
<1> DEFINE Others ==
        \A e \in Calls \ {d} :
           /\ pc'[e] = pc[e] /\ op'[e] = op[e] /\ before'[e] = before[e] /\ found'[e] = found[e]
           /\ cur'[e] = cur[e] /\ seen'[e] = seen[e]
           /\ stale'[e] = stale[e] /\ lost'[e] = lost[e]
           /\ changed'[e] = changed[e] /\ moved'[e] = moved[e]
<1> USE DEF Types, CallTypes
<1>1. ASSUME NEW text \in Lines, Submit(text), UNCHANGED <<setting, acts>>
      PROVE  UNCHANGED <<setting, acts, ghost, live, printed, urls>> /\ (copy' => copy)
  BY <1>1 DEF Submit
<1>2. line \in Lines /\ Typed("claude") \in Lines
  BY DEF Lines, Typed, PaneTypes
<1>a. ASSUME NEW s, Goto(d, s), UNCHANGED <<locals, history>> PROVE Others
  BY <1>a DEF Goto, locals, history
<1>b. ASSUME Leave(d) PROVE Others
  BY <1>b DEF Leave, Goto
<1>3. CASE Launch(d) \/ AcceptDialog(d) \/ RenameEnter(d) \/ RcEnter(d) \/ RcEnterAgain(d)
  <2>1. /\ UNCHANGED <<setting, acts, ghost, live, printed, urls>> /\ (copy' => copy)
    BY <1>1, <1>2, <1>3 DEF Launch, AcceptDialog, RenameEnter, RcEnter, RcEnterAgain, Enter
  <2>2. Others
    BY <1>3 DEF Launch, AcceptDialog, RenameEnter, RcEnter, RcEnterAgain, Goto, locals, history
  <2> QED BY <2>1, <2>2
<1>4. CASE RenameClear(d) \/ RcClear(d) \/ RenameType(d) \/ RcType(d) \/ LeaveCopyMode(d)
  <2>1. UNCHANGED <<setting, acts, ghost, live, printed, urls>>
    BY <1>4 DEF RenameClear, RcClear, RenameType, RcType, LeaveCopyMode, Text, KillLine
  <2>2. copy' => copy
    BY <1>4 DEF RenameClear, RcClear, RenameType, RcType, LeaveCopyMode, Text, KillLine
  <2>3. Others
    BY <1>4, <1>a DEF RenameClear, RcClear, RenameType, RcType, LeaveCopyMode
  <2> QED BY <2>1, <2>2, <2>3
<1>5. CASE NewSession(d) \/ PaneCommand(d)
  <2>1. UNCHANGED <<setting, acts, ghost, live, printed, urls>> /\ (copy' => copy)
    BY <1>5 DEF NewSession, PaneCommand, pane
  <2>2. Others
    BY <1>5 DEF NewSession, PaneCommand, Goto, locals
  <2> QED BY <2>1, <2>2
<1>6. CASE \/ \E o \in setting.ops : Start(d, o)
           \/ HasSession(d) \/ Look(d) \/ StoreResumed(d) \/ StoreSetUp(d)
           \/ NeverIdle(d) \/ NoPrompt(d) \/ Dies(d)
  <2>1. UNCHANGED <<setting, acts, ghost, live, printed, urls>> /\ (copy' => copy)
    BY <1>6 DEF Start, HasSession, Look, StoreResumed, StoreSetUp, NeverIdle, NoPrompt, Dies, pane
  <2>2. Others
    <3>1. ASSUME NEW o \in setting.ops, Start(d, o) PROVE Others
      BY <3>1 DEF Start, Goto, history
    <3> QED BY <1>6, <1>a, <1>b, <3>1
            DEF HasSession, Look, StoreResumed, StoreSetUp, NeverIdle, NoPrompt, Dies
  <2> QED BY <2>1, <2>2
<1>7. CASE WaitIdle(d) \/ PaneSettled(d) \/ WaitPrompt(d)
  <2>1. UNCHANGED <<setting, acts, ghost, live, printed, urls>> /\ (copy' => copy)
    BY <1>7 DEF WaitIdle, PaneSettled, WaitPrompt, pane
  <2>2. Others
    <3>1. ASSUME NEW s, Ready(d, s), UNCHANGED <<op, before, found>> PROVE Others
      BY <3>1 DEF Ready, Goto
    <3>2. ASSUME Settle(d), UNCHANGED <<op, before, found>> PROVE Others
      BY <3>2 DEF Settle, Goto, history
    <3>3. ASSUME NEW s, Goto(d, s), UNCHANGED <<op, before, found, cur, seen, history>> PROVE Others
      BY <3>3 DEF Goto, history
    <3> HIDE DEF Others, Types, CallTypes
    <3>4. CASE WaitIdle(d)
      BY <3>1, <3>2, <3>4 DEF WaitIdle
    <3>5. CASE PaneSettled(d)
      BY <3>1, <3>3, <3>5 DEF PaneSettled
    <3>6. CASE WaitPrompt(d)
      BY <3>1, <3>3, <3>6 DEF WaitPrompt
    <3> QED BY <1>7, <3>4, <3>5, <3>6
  <2> QED BY <2>1, <2>2
<1>8. CASE RenameConfirmed(d) \/ RenameUnconfirmed(d) \/ RcBefore(d) \/ NewUrl(d)
  <2>1. UNCHANGED <<setting, acts, ghost, live, printed, urls>> /\ (copy' => copy)
    BY <1>8 DEF RenameConfirmed, RenameUnconfirmed, RcBefore, NewUrl, pane
  <2>2. Others
    BY <1>8 DEF RenameConfirmed, RenameUnconfirmed, AfterRename, RcBefore, NewUrl, Goto, history
  <2> QED BY <2>1, <2>2
<1>9. CASE NoNewUrl(d)
  <2>1. UNCHANGED <<setting, acts, ghost, live, printed, urls>> /\ (copy' => copy)
    BY <1>9 DEF NoNewUrl, pane
  <2>2. Others
    <3>1. ASSUME Goto(d, "before"), UNCHANGED <<op, cur, seen, before, found, history>> PROVE Others
      BY <3>1 DEF Goto, history
    <3> QED BY <1>9, <1>a, <1>b, <3>1 DEF NoNewUrl
  <2> QED BY <2>1, <2>2
<1> QED BY <1>3, <1>4, <1>5, <1>6, <1>7, <1>8, <1>9 DEF Call, Step, TimesOut

\* What a step of its own tells a call.
LEMMA FreshStep ==
    ASSUME FreshInv, NEW d \in Calls, Call(d)
    PROVE  Fresh(d)'
<1>0. /\ UNCHANGED <<live, printed, urls>> /\ (copy' => copy) /\ Fresh(d) /\ Types
  BY CallTouches DEF FreshInv
<1>a. /\ pc \in [Calls -> Pcs] /\ found \in [Calls -> 0 .. MaxUrls]
      /\ before \in [Calls -> Seq(1 .. MaxUrls)] /\ DOMAIN attempt = Calls
      /\ changed \in [Calls -> BOOLEAN] /\ lost \in [Calls -> BOOLEAN] /\ copy \in BOOLEAN
      /\ stale \in [Calls -> SUBSET (1 .. MaxUrls)] /\ live \in 0 .. printed /\ printed \in 0 .. MaxUrls
  BY <1>0 DEF Types, PaneTypes, CallTypes
<1>b. NoUrl \notin stale[d] /\ NoUrl \notin 1 .. printed
  BY <1>0 DEF Fresh, NoUrl
\* A step that records nothing new about the screen.
<1>1. ASSUME UNCHANGED <<found, stale, lost, before, changed>>, NEW s \in Pcs, Goto(d, s),
             s \in Unready \/ pc[d] \notin Unready,
             s \in Waiting => pc[d] \in Waiting, pc[d] \notin {"store", "record"}
      PROVE  Fresh(d)'
  BY <1>0, <1>a, <1>1 DEF Fresh, Since, Goto
<1>2. CASE Leave(d)
  BY <1>0, <1>a, <1>b, <1>2 DEF Leave, Goto, Fresh, Unready, Waiting, NoUrl
\* The view a call takes for ready.
<1>3. ASSUME UNCHANGED <<found, stale, lost>>, NEW s \in Pcs, Goto(d, s), s \notin Waiting,
             pc[d] \notin {"store", "record"}, changed' = [changed EXCEPT ![d] = copy]
      PROVE  Fresh(d)'
  BY <1>0, <1>a, <1>b, <1>3 DEF Fresh, Goto
<1>4. CASE \E o \in setting.ops : Start(d, o)
  BY <1>1, <1>4 DEF Start, history, Pcs, Unready, Waiting
<1>5. CASE HasSession(d) \/ NeverIdle(d) \/ NoPrompt(d) \/ Dies(d) \/ Look(d)
           \/ StoreResumed(d) \/ StoreSetUp(d)
  BY <1>1, <1>2, <1>5 DEF HasSession, NeverIdle, NoPrompt, Dies, Look, StoreResumed, StoreSetUp,
     locals, history, Pcs, Unready, Waiting
<1>6. CASE NewSession(d) \/ PaneCommand(d)
  BY <1>3, <1>6 DEF NewSession, PaneCommand, locals, Pcs, Waiting
<1>7. CASE \/ LeaveCopyMode(d) \/ Launch(d) \/ AcceptDialog(d)
           \/ RenameClear(d) \/ RenameType(d) \/ RenameEnter(d)
           \/ RcClear(d) \/ RcType(d) \/ RcEnter(d) \/ RcEnterAgain(d)
  BY <1>1, <1>7
     DEF LeaveCopyMode, Launch, AcceptDialog, RenameClear, RenameType, RenameEnter, RcClear,
         RcType, RcEnter, RcEnterAgain, locals, history, Pcs, Unready, Waiting
<1>8. CASE WaitIdle(d) \/ PaneSettled(d)
  BY <1>1, <1>3, <1>8 DEF WaitIdle, PaneSettled, Ready, Settle, history, Pcs, Unready, Waiting
<1>9. CASE WaitPrompt(d)
  BY <1>1, <1>3, <1>9 DEF WaitPrompt, AfterPrompt, Ready, history, Pcs, Unready, Waiting
<1>10. CASE RenameConfirmed(d) \/ RenameUnconfirmed(d)
  BY <1>1, <1>10 DEF RenameConfirmed, RenameUnconfirmed, AfterRename, history, Pcs, Unready, Waiting
<1>11. CASE RcBefore(d)
  <2>1. pc[d] = "before" /\ pc'[d] = "rcclear" /\ before'[d] = VisibleUrls
        /\ stale'[d] = (1 .. printed) \ {live} /\ UNCHANGED <<found, changed, copy>>
    BY <1>a, <1>11 DEF RcBefore, Goto, pane
  <2>2. ~changed[d] => ~copy
    BY <1>0, <2>1 DEF Fresh, Unready
  <2>3. ~changed[d] => Since(before[d], stale[d])'
    <3> SUFFICES ASSUME ~changed[d] PROVE Since(before[d], stale[d])'
        OBVIOUS
    <3>1. urls \in Seq(1 .. printed)
      BY <1>0 DEF Types, PaneTypes
    <3>2. Len(urls) \in Nat /\ before'[d] = urls
      BY <2>1, <2>2, <3>1 DEF VisibleUrls
    <3> QED BY <1>0, <3>2 DEF Since
  <2>4. found'[d] = NoUrl /\ NoUrl \notin stale'[d] /\ live' \notin stale'[d]
    BY <1>0, <1>b, <2>1 DEF Fresh
  <2> QED BY <1>0, <2>1, <2>2, <2>3, <2>4 DEF Fresh
<1>12. CASE NewUrl(d)
  <2>1. /\ pc[d] = "rcwait" /\ pc'[d] \in {"store", "record"} /\ ~copy /\ urls # <<>>
        /\ Len(urls) > Len(before[d]) \/ urls # before[d]
        /\ found'[d] = urls[Len(urls)] /\ UNCHANGED <<changed, lost, stale>>
    BY <1>a, <1>12 DEF NewUrl, AfterRc, Goto, VisibleUrls, history
  <2>2. ASSUME ~lost[d], ~changed[d] PROVE urls[Len(urls)] \notin stale[d]
    <3>1. Since(before[d], stale[d])
      BY <1>0, <2>1, <2>2 DEF Fresh, Waiting
    <3>2. urls \in Seq(1 .. MaxUrls) /\ before[d] \in Seq(1 .. MaxUrls)
      <4>1. VisibleUrls \in Seq(1 .. MaxUrls)
        BY <1>0, ViewTypes DEF Types
      <4> QED BY <1>a, <2>1, <4>1 DEF VisibleUrls
    <3>3. Len(urls) = Len(before[d]) => urls = before[d]
      BY <3>1, <3>2 DEF Since
    <3>4. Len(urls) > Len(before[d])
      BY <2>1, <3>1, <3>2, <3>3 DEF Since
    <3> QED BY <3>1, <3>2, <3>4 DEF Since
  <2> QED BY <1>0, <2>1, <2>2 DEF Fresh, Waiting
<1>13. CASE NoNewUrl(d)
  BY <1>1, <1>2, <1>13 DEF NoNewUrl, locals, history, Pcs, Unready, Waiting
<1> QED BY <1>4, <1>5, <1>6, <1>7, <1>8, <1>9, <1>10, <1>11, <1>12, <1>13 DEF Call, Step, TimesOut

\* What the pane and its user do to what a call knows: a new session is not one of the dead
\* ones, and a URL leaves the screen, or the screen is scrolled, in sight of the history.
LEMMA FreshMoves ==
    ASSUME FreshInv, NEW d \in Calls, UserActs \/ ProgramMoves \/ Connects \/ Drops \/ UrlScrollsOff
    PROVE  Fresh(d)'
<1>0. Fresh(d) /\ Types /\ NoUrl \notin stale[d]
  BY DEF FreshInv, Fresh, NoUrl
<1>a. /\ stale \in [Calls -> SUBSET (1 .. MaxUrls)] /\ live \in 0 .. printed /\ printed \in 0 .. MaxUrls
      /\ urls \in Seq(1 .. printed) /\ before[d] \in Seq(1 .. MaxUrls)
  BY <1>0 DEF Types, PaneTypes, CallTypes
<1>b. Len(urls) \in Nat /\ Len(before[d]) \in Nat /\ printed \in Nat
  BY <1>a, BoundsAssumption
<1>1. CASE UserActs
  <2>1. /\ changed'[d] = (pc[d] # "off") /\ UNCHANGED <<printed, pc, locals, stale, lost>>
        /\ live' \in {live, NoUrl}
    BY <1>1 DEF UserActs
  <2> QED BY <1>0, <2>1 DEF Fresh, Unready, Waiting, locals
<1>2. CASE ProgramMoves
  BY <1>0, <1>2 DEF ProgramMoves, Fresh, Since, locals
<1>3. CASE Drops
  BY <1>0, <1>3 DEF Drops, Fresh, Since, locals, history
<1>4. CASE UrlScrollsOff
  <2>1. lost'[d] = (pc[d] # "off") /\ UNCHANGED <<copy, live, printed, pc, locals, changed, stale>>
    BY <1>4 DEF UrlScrollsOff
  <2> QED BY <1>0, <2>1 DEF Fresh, Unready, Waiting, locals
<1>5. CASE Connects
  <2>1. /\ UNCHANGED <<copy, pc, locals, history>> /\ printed' \in {printed, printed + 1}
        /\ live' \in {live, printed + 1} /\ urls' \in {urls, Append(urls, live')}
    BY <1>5 DEF Connects
  <2>2. stale[d] \subseteq 1 .. printed' /\ live' \notin stale[d] /\ live' \in Nat
    BY <1>0, <1>a, <2>1 DEF Fresh
  <2>3. Since(before[d], stale[d]) => Since(before[d], stale[d])'
    <3> SUFFICES ASSUME Since(before[d], stale[d]) PROVE Since(before[d], stale[d])'
        OBVIOUS
    <3>1. UNCHANGED <<before, stale>>
      BY <2>1 DEF locals, history
    <3>2. CASE urls' = urls
      BY <3>1, <3>2 DEF Since
    <3>3. CASE urls' = Append(urls, live')
      <4>1. /\ Len(urls') = Len(urls) + 1 /\ urls'[Len(urls) + 1] = live'
            /\ \A i \in 1 .. Len(urls) : urls'[i] = urls[i]
        BY <1>a, <2>2, <3>3
      <4>2. /\ Len(before[d]) <= Len(urls) + 1
            /\ \A i \in 1 .. Len(before[d]) : urls'[i] = before[d][i]
        BY <1>b, <4>1 DEF Since
      <4>3. \A i \in Len(before[d]) + 1 .. Len(urls) + 1 : urls'[i] \notin stale[d]
        BY <1>b, <2>2, <4>1 DEF Since
      <4> QED BY <3>1, <4>1, <4>2, <4>3 DEF Since
    <3> QED BY <2>1, <3>2, <3>3
  <2> QED BY <1>0, <2>1, <2>2, <2>3 DEF Fresh, locals, history
<1> QED BY <1>1, <1>2, <1>3, <1>4, <1>5

LEMMA FreshNext == FreshInv /\ [Next]_vars => FreshInv'
<1> SUFFICES ASSUME FreshInv, [Next]_vars PROVE FreshInv'
    OBVIOUS
<1>1. Types'
  BY TypesNext DEF FreshInv
<1>2. setting.calls \subseteq Calls
  BY SettingsAssumption DEF FreshInv, Types, PaneTypes
<1>3. ASSUME NEW c \in Calls, Call(c), NEW d \in Calls PROVE Fresh(d)'
  <2>1. CASE d = c
    BY <1>3, <2>1, FreshStep
  <2>2. CASE d # c
    BY <1>3, <2>2, CallTouches DEF FreshInv, Fresh, Since
  <2> QED BY <2>1, <2>2
<1>4. CASE UserActs \/ ProgramMoves \/ Connects \/ Drops \/ UrlScrollsOff
  BY <1>1, <1>4, FreshMoves DEF FreshInv
<1>5. CASE UNCHANGED vars
  BY <1>1, <1>5 DEF vars, pane, locals, history, FreshInv, Fresh, Since
<1> QED BY <1>1, <1>2, <1>3, <1>4, <1>5 DEF Next, Call, FreshInv

\* For any number of calls at once: the URL a call finds was not dead when the call looked,
\* unless one left the screen or the user acted meanwhile.
THEOREM FoundIsFresh == Spec => []RecordedFresh
<1>1. FreshInv => RecordedFresh
  BY DEF FreshInv, Fresh, RecordedFresh
<1> QED BY FreshInit, FreshNext, <1>1, PTL DEF Spec

-----------------------------------------------------------------------------
(* Where the keys go *)

\* From the command on, a call sends keys.
Keyed == {"launch", "prompt", "accept", "clear", "type", "enter", "confirm", "before"} \cup Waiting

\* The pane in front of a call that drives it alone, while the user has done nothing: Claude
\* Code has not been given a turn, so it asks for nothing, and on the input line stands only
\* what the call has typed.
SafePane(d) ==
    pc[d] \in Keyed /\ ~changed[d] =>
        /\ screen \notin {"busy", "ask"}
        /\ pc[d] = "launch" => screen = "shell"
        /\ pc[d] = "accept" => screen \in {"trust", "mcp"}
        /\ screen = "idle" =>
              /\ pc[d] \in {"type", "rctype"} => line = ""
              /\ pc[d] = "enter" => line \in {"", "/rename"}
              /\ pc[d] \in {"rcenter", "rcenter2"} => line \in {"", "/rc", "/remote-control"}

\* What the looks before that have shown.
Looked(d) ==
    /\ pc[d] = "new" => screen = "none"
    /\ pc[d] = "look" /\ cur[d] = "shell" /\ ~changed[d] => screen = "shell"
    /\ pc[d] = "settle" => ~DialogVisible(seen[d]) /\ ~Busy(seen[d])

\* A resume never renames; and what it took for Claude Code is one, if no frame of an ended one
\* can stay on the screen and it has not ended since.
Resumes(d) ==
    op[d] = "resume" =>
        /\ pc[d] \notin {"clear", "type", "enter", "confirm"}
        /\ ~moved[d] /\ ~setting.ghosts =>
              /\ pc[d] \in {"idle", "settle", "before"} \cup Waiting => screen \in ClaudeScreens
              /\ pc[d] = "look" /\ cur[d] = "claude" => screen \in ClaudeScreens

KeysInv ==
    /\ FreshInv
    /\ \A d \in Calls : pc[d] # "off" => d \in setting.calls
    /\ Alone => \A d \in Calls : SafePane(d) /\ Looked(d) /\ Resumes(d)

LEMMA KeysInit == Init => KeysInv
<1> SUFFICES ASSUME Init PROVE KeysInv
    OBVIOUS
<1>1. \A d \in Calls : pc[d] = "off"
  BY DEF Init
<1>2. ASSUME NEW d \in Calls PROVE SafePane(d) /\ Looked(d) /\ Resumes(d)
  BY <1>1 DEF SafePane, Looked, Resumes, Keyed, Waiting
<1> QED BY FreshInit, <1>1, <1>2 DEF KeysInv

\* Enter ends no Claude Code; and one that comes to nobody's turn starts none.
LEMMA EnterSafe ==
    ASSUME Types, NEW text \in Lines, Submit(text)
    PROVE  /\ screen \in ClaudeScreens => screen' \in ClaudeScreens
           /\ ~copy /\ screen \notin {"busy", "ask"} /\ (screen = "idle" => text \notin {"mixed", "claude"}) =>
                 /\ screen' \notin {"busy", "ask"}
                 /\ screen' = "idle" => line' = "" \/ (screen = "idle" /\ line' = line)
<1> USE DEF Lines, ClaudeScreens, Running
<1>1. CASE copy /\ UNCHANGED <<screen, line>>
  BY <1>1
<1>2. CASE ~copy /\ ShellRuns(text)
  BY <1>2 DEF ShellRuns
<1>3. CASE ~copy /\ screen \in {"trust", "mcp", "ask"} /\ Confirmed
  BY <1>3 DEF Confirmed, Types, PaneTypes, PaneInv
<1>4. CASE ~copy /\ ClaudeTakes(text)
  BY <1>4 DEF ClaudeTakes
<1>5. CASE ~copy /\ screen \in {"none", "starting", "other"} /\ UNCHANGED <<screen, line>>
  BY <1>5
<1> QED BY <1>1, <1>2, <1>3, <1>4, <1>5 DEF Submit

\* A step of the one call there is.
LEMMA KeysStep ==
    ASSUME KeysInv, Alone, NEW d \in Calls, Call(d)
    PROVE  SafePane(d)' /\ Looked(d)' /\ Resumes(d)'
<1> DEFINE Known == SafePane(d)' /\ Looked(d)' /\ Resumes(d)'
<1>0. Types /\ Fresh(d) /\ SafePane(d) /\ Looked(d) /\ Resumes(d)
  BY DEF KeysInv, FreshInv
<1>a. /\ pc \in [Calls -> Pcs] /\ op \in [Calls -> Ops] /\ DOMAIN cur = Calls /\ DOMAIN seen = Calls
      /\ changed \in [Calls -> BOOLEAN] /\ moved \in [Calls -> BOOLEAN]
      /\ copy \in BOOLEAN /\ ghost \in BOOLEAN /\ screen \in Screens
      /\ line \in Lines /\ PaneInv /\ setting \in Settings
  BY <1>0 DEF Types, PaneTypes, CallTypes, Lines
<1>b. setting' = setting /\ setting.ghosts \in BOOLEAN /\ setting.hints \in BOOLEAN /\ setting.ops \subseteq Ops
  BY <1>0, <1>a, CallTouches, SettingsAssumption
<1>c. copy /\ pc[d] \notin Unready => changed[d]
  BY <1>0 DEF Fresh
<1>1. CASE Leave(d)
  BY <1>a, <1>1 DEF Leave, Goto, SafePane, Looked, Resumes, Keyed, Waiting
<1>2. CASE \E o \in setting.ops : Start(d, o)
  BY <1>a, <1>2 DEF Start, Goto, SafePane, Looked, Resumes, Keyed, Waiting
<1>3. CASE HasSession(d)
  BY <1>1, <1>3, <1>a DEF HasSession, Goto, pane, locals, SafePane, Looked, Resumes, Keyed, Waiting
<1>4. CASE NewSession(d)
  BY <1>0, <1>4, <1>a DEF NewSession, Goto, locals, SafePane, Looked, Resumes, Keyed, Waiting
<1>5. CASE LeaveCopyMode(d)
  BY <1>5, <1>a DEF LeaveCopyMode, Goto, SafePane, Looked, Resumes, Keyed, Waiting
<1>6. CASE PaneCommand(d)
  <2>1. /\ PaneCommandName = "shell" => screen = "shell"
        /\ PaneCommandName = "claude" => screen \in ClaudeScreens
    BY <1>a DEF PaneCommandName, Screens, ClaudeScreens, Running
  <2> QED BY <2>1, <1>6, <1>a DEF PaneCommand, Goto, pane, SafePane, Looked, Resumes, Keyed, Waiting
<1>7. CASE Look(d)
  <2>1. UiVisible(View) /\ ~setting.ghosts => screen \in ClaudeScreens
    BY <1>a, <1>b DEF UiVisible, View, PaneInv, ClaudeScreens, Running
  <2>2. CASE cur[d] = "shell" /\ Goto(d, "launch") /\ UNCHANGED <<pane, locals, history>>
    BY <1>0, <1>7, <2>2, <1>a DEF Look, Goto, pane, locals, history, SafePane, Looked, Resumes, Keyed, Waiting
  <2>3. CASE /\ cur[d] # "shell" /\ (cur[d] = "claude" \/ UiVisible(View)) /\ Goto(d, "idle")
             /\ UNCHANGED <<pane, locals, history>>
    BY <1>0, <1>7, <2>1, <2>3, <1>a, <1>b
       DEF Look, Goto, pane, locals, history, SafePane, Looked, Resumes, Keyed, Waiting
  <2> QED BY <1>1, <1>7, <2>2, <2>3 DEF Look
\* A pane that shows neither a dialog nor work in progress, in a view that is not scrolled
<1>8. ~copy /\ ~DialogVisible(View) /\ ~Busy(View) => screen \notin {"busy", "ask"}
  BY DEF View, DialogVisible, Busy
<1>9. CASE WaitIdle(d)
  <2>1. CASE PromptReady(View) /\ Ready(d, "before") /\ UNCHANGED <<setting, pane, op>>
    <3>1. ~copy => screen \notin {"busy", "ask"}
      BY <1>8, <2>1 DEF PromptReady
    <3> QED BY <1>0, <1>9, <2>1, <3>1, <1>a
            DEF WaitIdle, Ready, Goto, pane, SafePane, Looked, Resumes, Keyed, Waiting
  <2>2. CASE ~DialogVisible(View) /\ ~Busy(View) /\ Settle(d) /\ UNCHANGED <<setting, pane, op>>
    BY <1>0, <1>9, <2>2, <1>a
       DEF WaitIdle, Settle, Goto, pane, history, SafePane, Looked, Resumes, Keyed, Waiting
  <2> QED BY <1>9, <2>1, <2>2 DEF WaitIdle
<1>10. CASE PaneSettled(d)
  <2>1. CASE View = seen[d] /\ Ready(d, "before") /\ UNCHANGED <<setting, pane, op>>
    <3>1. ~copy => screen \notin {"busy", "ask"}
      BY <1>0, <1>8, <1>10, <2>1 DEF PaneSettled, Looked
    <3> QED BY <1>0, <1>10, <2>1, <3>1, <1>a
            DEF PaneSettled, Ready, Goto, pane, SafePane, Looked, Resumes, Keyed, Waiting
  <2>2. CASE Goto(d, "idle") /\ UNCHANGED <<setting, pane, op, cur, seen, history>>
    BY <1>0, <1>10, <2>2, <1>a
       DEF PaneSettled, Goto, pane, history, SafePane, Looked, Resumes, Keyed, Waiting
  <2> QED BY <1>10, <2>1, <2>2 DEF PaneSettled
<1>11. CASE WaitPrompt(d)
  <2>1. CASE PromptReady(View) /\ Ready(d, AfterPrompt(d)) /\ UNCHANGED <<setting, pane, op>>
    <3>1. ~copy => screen \notin {"busy", "ask"}
      BY <1>8, <2>1 DEF PromptReady
    <3>2. ~setting.ghosts => screen \in ClaudeScreens
      BY <2>1, <1>a, <1>b DEF PromptReady, UiVisible, View, PaneInv, ClaudeScreens, Running
    <3> QED BY <1>0, <1>11, <2>1, <3>1, <3>2, <1>a, <1>b
            DEF WaitPrompt, AfterPrompt, Ready, Goto, pane, SafePane, Looked, Resumes, Keyed, Waiting
  <2>2. CASE DialogVisible(View) /\ Goto(d, "accept") /\ UNCHANGED <<setting, pane, op, cur, seen, history>>
    <3>1. ~copy => screen \in {"trust", "mcp", "ask"}
      BY <2>2 DEF DialogVisible, View
    <3> QED BY <1>0, <1>c, <1>11, <2>2, <3>1, <1>a
            DEF WaitPrompt, Goto, pane, history, SafePane, Looked, Resumes, Keyed, Waiting, Unready
  <2> QED BY <1>11, <2>1, <2>2 DEF WaitPrompt
<1>12. CASE Launch(d)
  <2>1. ASSUME ~changed[d] PROVE screen' \in {"shell", "starting", "other"}
    BY <1>0, <1>a, <1>c, <1>12, <2>1 DEF Launch, Submit, ShellRuns, Confirmed, ClaudeTakes, SafePane, Keyed, Unready
  <2> QED BY <1>12, <2>1, <1>a DEF Launch, Goto, locals, history, SafePane, Looked, Resumes, Keyed, Waiting
<1>13. CASE AcceptDialog(d) \/ RenameEnter(d) \/ RcEnter(d) \/ RcEnterAgain(d)
  <2>1. /\ Submit(line) /\ UNCHANGED <<setting, locals, history>>
        /\ pc[d] \in {"accept", "enter", "rcenter", "rcenter2"}
        /\ \/ pc[d] = "accept" /\ pc'[d] = "prompt"
           \/ pc[d] = "enter" /\ pc'[d] = "confirm"
           \/ pc[d] = "rcenter" /\ pc'[d] \in {"rcenter2", "rcwait"}
           \/ pc[d] = "rcenter2" /\ pc'[d] = "rcwait"
    BY <1>13, <1>a DEF AcceptDialog, RenameEnter, RcEnter, RcEnterAgain, Enter, Goto
  <2>2. ASSUME ~changed[d]
        PROVE  /\ ~copy /\ screen \notin {"busy", "ask"} /\ (screen = "idle" => line \notin {"mixed", "claude"})
               /\ pc[d] = "rcenter" /\ screen = "idle" => line \in {"", "/rc", "/remote-control"}
    BY <1>0, <1>c, <2>1, <2>2 DEF SafePane, Keyed, Waiting, Unready
  <2>3. SafePane(d)'
    BY <1>0, <1>a, <2>1, <2>2, EnterSafe DEF SafePane, locals, history
  <2>4. Resumes(d)'
    BY <1>0, <1>a, <2>1, EnterSafe DEF Resumes, locals, history, Waiting
  <2> QED BY <2>1, <2>3, <2>4 DEF Looked
<1>14. CASE RenameClear(d) \/ RcClear(d)
  <2>1. /\ pc'[d] \in {"type", "rctype"} /\ pc[d] \in {"clear", "rcclear"} /\ KillLine
        /\ pc[d] = "clear" <=> pc'[d] = "type"
        /\ UNCHANGED <<setting, locals, history>>
    BY <1>14, <1>a DEF RenameClear, RcClear, Goto
  <2>2. screen' = screen /\ (~copy /\ screen = "idle" => line' = "")
    BY <2>1 DEF KillLine, TakesText
  <2> QED BY <1>0, <1>c, <2>1, <2>2
          DEF locals, history, SafePane, Looked, Resumes, Keyed, Waiting, Unready
<1>15. CASE RenameType(d) \/ RcType(d)
  <2>1. /\ \/ pc[d] = "type" /\ pc'[d] = "enter" /\ Text("/rename")
           \/ /\ pc[d] = "rctype" /\ pc'[d] = "rcenter"
              /\ \E text \in {"/rc", "/remote-control"} : Text(text)
        /\ UNCHANGED <<setting, locals, history>>
    BY <1>15, <1>a DEF RenameType, RcType, Goto
  <2>2. /\ screen' = screen
        /\ line = "" => line' \in {"", "/rename", "/rc", "/remote-control"}
        /\ line = "" /\ pc[d] = "type" => line' \in {"", "/rename"}
        /\ line = "" /\ pc[d] = "rctype" => line' \in {"", "/rc", "/remote-control"}
    BY <2>1 DEF Text, Typed
  <2> QED BY <1>0, <2>1, <2>2
          DEF locals, history, SafePane, Looked, Resumes, Keyed, Waiting
<1>16. ASSUME NEW s \in {"clear", "before", "record", "rcclear", "store"}, Goto(d, s),
              UNCHANGED <<setting, pane, op, changed, moved>>,
              pc[d] \in {"prompt", "confirm", "before", "rcwait"},
              op[d] = "resume" => s # "clear" /\ pc[d] \in {"before", "rcwait"}
       PROVE  Known
  BY <1>0, <1>a, <1>16 DEF Goto, pane, SafePane, Looked, Resumes, Keyed, Waiting
<1>17. CASE RenameConfirmed(d) \/ RenameUnconfirmed(d)
  BY <1>0, <1>16, <1>17
     DEF RenameConfirmed, RenameUnconfirmed, AfterRename, Resumes, history
<1>18. CASE RcBefore(d) \/ NewUrl(d) \/ NoNewUrl(d)
  BY <1>1, <1>16, <1>18 DEF RcBefore, NewUrl, AfterRc, NoNewUrl, locals, history
<1>19. CASE NoPrompt(d) \/ NeverIdle(d) \/ Dies(d) \/ StoreResumed(d) \/ StoreSetUp(d)
  BY <1>1, <1>16, <1>19 DEF NoPrompt, NeverIdle, Dies, StoreResumed, StoreSetUp, locals, history
<1> QED
  BY <1>2, <1>3, <1>4, <1>5, <1>6, <1>7, <1>9, <1>10, <1>11, <1>12, <1>13, <1>14, <1>15, <1>17,
     <1>18, <1>19 DEF Call, Step, TimesOut

\* A step of the pane or its user, under one call.
LEMMA KeysMoves ==
    ASSUME KeysInv, Alone, NEW d \in Calls, UserActs \/ ProgramMoves \/ Connects \/ Drops \/ UrlScrollsOff
    PROVE  SafePane(d)' /\ Looked(d)' /\ Resumes(d)'
<1>0. SafePane(d) /\ Looked(d) /\ Resumes(d) /\ PaneInv /\ screen \in Screens
  BY DEF KeysInv, FreshInv, Types, PaneTypes
<1>1. CASE UserActs
  <2>1. /\ UNCHANGED <<setting, pc, op, cur, seen>>
        /\ changed'[d] = (pc[d] # "off") /\ moved'[d] = (moved[d] \/ (pc[d] # "off" /\ screen' \in {"none", "shell", "other"}))
        /\ screen' \in {screen, "busy", "shell", "other", "none"}
        /\ screen = "none" => screen' = "none"
    BY <1>1 DEF UserActs, locals
  <2>2. SafePane(d)' /\ Looked(d)'
    BY <1>0, <2>1 DEF SafePane, Keyed, Waiting, Looked, DialogVisible, Busy
  <2>3. pc[d] # "off" => \/ moved'[d]
                         \/ screen' \in Screens \ {"none", "shell", "other"}
    BY <1>0, <2>1 DEF Screens
  <2>4. Resumes(d)'
    BY <1>0, <2>1, <2>3 DEF Resumes, Waiting, Screens, ClaudeScreens, Running
  <2> QED BY <2>2, <2>4
<1>2. CASE ProgramMoves
  <2>1. /\ UNCHANGED <<setting, line, pc, op, cur, seen, changed>>
        /\ moved'[d] = (moved[d] \/ (pc[d] # "off" /\ screen' = "shell"))
        /\ \/ screen = "starting" /\ screen' \in {"trust", "mcp", "idle", "shell"}
           \/ screen \in {"busy", "ask"} /\ screen' \in {"idle", "ask", "busy"}
           \/ screen = "other" /\ screen' = "shell"
    BY <1>2 DEF ProgramMoves, locals
  <2>2. SafePane(d)'
    BY <1>0, <2>1 DEF SafePane, PaneInv, Keyed, Waiting
  <2>3. Looked(d)'
    BY <1>0, <2>1 DEF Looked, DialogVisible, Busy
  <2>4. Resumes(d)'
    BY <1>0, <2>1 DEF Resumes, Waiting, ClaudeScreens, Running
  <2> QED BY <2>2, <2>3, <2>4
<1>3. CASE Connects \/ Drops \/ UrlScrollsOff
  <2>1. UNCHANGED <<setting, screen, line, pc, op, cur, seen, changed, moved>>
    BY <1>3 DEF Connects, Drops, UrlScrollsOff, locals, history
  <2> QED BY <1>0, <2>1 DEF SafePane, Looked, Resumes, DialogVisible, Busy
<1> QED BY <1>1, <1>2, <1>3

LEMMA KeysNext == KeysInv /\ [Next]_vars => KeysInv'
<1> SUFFICES ASSUME KeysInv, [Next]_vars PROVE KeysInv'
    OBVIOUS
<1> DEFINE Known(d) == SafePane(d) /\ Looked(d) /\ Resumes(d)
<1>1. FreshInv' /\ Types /\ setting.calls \subseteq Calls
  BY FreshNext, SettingsAssumption DEF KeysInv, FreshInv, Types, PaneTypes
<1>2. ASSUME NEW c \in setting.calls, Call(c) PROVE KeysInv'
  <2>1. setting' = setting
    BY <1>1, <1>2, CallTouches
  <2>2. \A d \in Calls : pc'[d] # "off" => d \in setting'.calls
    BY <1>1, <1>2, <2>1, CallTouches DEF KeysInv
  <2>3. ASSUME Alone, NEW d \in Calls PROVE Known(d)'
    <3>1. CASE d = c
      BY <1>1, <1>2, <2>3, <3>1, KeysStep
    <3>2. CASE d # c
      <4>1. pc'[d] = "off"
        BY <1>1, <1>2, <2>3, <3>2, CallTouches DEF KeysInv, Alone
      <4> QED BY <4>1 DEF SafePane, Looked, Resumes, Keyed, Waiting
    <3> QED BY <3>1, <3>2
  <2> QED BY <1>1, <2>1, <2>2, <2>3 DEF KeysInv, Alone
<1>3. CASE UserActs \/ ProgramMoves \/ Connects \/ Drops \/ UrlScrollsOff
  <2>1. UNCHANGED <<setting, pc>>
    BY <1>3 DEF UserActs, ProgramMoves, Connects, Drops, UrlScrollsOff
  <2>2. ASSUME Alone, NEW d \in Calls PROVE Known(d)'
    BY <1>3, <2>2, KeysMoves
  <2> QED BY <1>1, <2>1, <2>2 DEF KeysInv, Alone
<1>4. CASE UNCHANGED vars
  BY <1>1, <1>4
     DEF vars, pane, locals, history, KeysInv, Alone, SafePane, Looked, Resumes, DialogVisible, Busy
<1> QED BY <1>2, <1>3, <1>4 DEF Next, Call

\* Whatever Claude Code and its user do: no Enter of a call that drives the pane alone answers
\* a permission dialog, unless the user did something since the call found the pane ready.
THEOREM NoBlindAnswer == Spec => NoBlindApproval
<1> DEFINE Blind == Alone => \A d \in Calls :
              Presses(d, EnterPcs) /\ screen = "ask" /\ ~copy => changed[d]
<1>1. KeysInv => Blind
  BY DEF KeysInv, SafePane, Keyed, Waiting, EnterPcs, Presses
<1> QED BY KeysInit, KeysNext, <1>1, PTL DEF Spec, NoBlindApproval

\* The keys of a resume that drives the pane alone land where they are meant: the command in a
\* shell, everything else in Claude Code, and /rc on an input line of its own.
THEOREM ResumesLand == Spec => KeysLand
<1> DEFINE Landing == Alone /\ ~setting.ghosts => \A d \in Calls :
          op[d] = "resume" /\ ~changed[d] /\ ~moved[d] =>
             /\ Presses(d, {"launch"}) => screen = "shell"
             /\ Presses(d, TextPcs \cup (EnterPcs \ {"launch"})) => screen \notin {"none", "shell", "other"}
             /\ Presses(d, {"rcenter", "rcenter2"}) /\ screen = "idle" => line # "mixed"
<1>1. KeysInv => Landing
  <2> SUFFICES ASSUME KeysInv, Alone, ~setting.ghosts, NEW d \in Calls,
                      op[d] = "resume", ~changed[d], ~moved[d], pc[d] \in TextPcs \cup EnterPcs
               PROVE  /\ pc[d] = "launch" => screen = "shell"
                      /\ pc[d] # "launch" => screen \notin {"none", "shell", "other"}
                      /\ pc[d] \in {"rcenter", "rcenter2"} /\ screen = "idle" => line # "mixed"
    BY DEF Presses, TextPcs, EnterPcs
  <2>1. SafePane(d) /\ Resumes(d)
    BY DEF KeysInv
  <2> QED BY <2>1 DEF SafePane, Resumes, Keyed, Waiting, TextPcs, EnterPcs, ClaudeScreens, Running
<1> QED BY KeysInit, KeysNext, <1>1, PTL DEF Spec, KeysLand
=============================================================================
