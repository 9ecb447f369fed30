--------------------------- MODULE MCClaudeSession ---------------------------
(* Instances of ClaudeSession for TLC. *)
EXTENDS ClaudeSession
CONSTANT c1


Session(calls, ops, screens, hints, ghosts, n) ==
    [calls |-> calls, ops |-> ops, screens |-> screens, hints |-> hints, ghosts |-> ghosts, acts |-> n]

\* one resume of whatever the pane shows, with a prompt that is recognised or not; a fresh
\* session; Claude Code's last frame left on the screen
SessionSettings ==
    {Session({c1}, {"resume"}, {"none", "shell", "idle", "busy", "ask", "other"}, h, FALSE, 1) : h \in BOOLEAN}
    \cup {Session({c1}, {"setup", "teleport"}, {"none"}, TRUE, FALSE, 1)}
    \cup {Session({c1}, {"resume"}, {"idle"}, TRUE, TRUE, 1)}
=============================================================================
