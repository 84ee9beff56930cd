----------------------------- MODULE CommandLog -----------------------------
(***************************************************************************)
(* What a shared Session promises about the topology commands of one       *)
(* client: a server that runs applies a command at most once, an answer is *)
(* given at most once, and a command answered with success was applied.    *)
(* How often a command is sent, over which channel and in what order the   *)
(* server sees them is left open.                                          *)
(***************************************************************************)
EXTENDS Naturals, Sequences

CONSTANT Commands       \* the commands of the client; 0 is anybody else's

VARIABLES
    log,                \* the changes the server's topology shows
    asked,              \* commands the user asked for
    applied,            \* commands the running server has applied
    everApplied,        \* commands some server has applied
    answers             \* what the user was told of each command

Answers == {"none", "ok", "failed"}

LogInit ==
    /\ log = <<>>
    /\ asked = {} /\ applied = {} /\ everApplied = {}
    /\ answers = [c \in Commands |-> "none"]

Ask(c) ==
    /\ c \notin asked
    /\ asked' = asked \cup {c}
    /\ UNCHANGED <<log, applied, everApplied, answers>>

ApplyCommand(c) ==
    /\ c \in asked \ applied
    /\ log' = Append(log, c)
    /\ applied' = applied \cup {c}
    /\ everApplied' = everApplied \cup {c}
    /\ UNCHANGED <<asked, answers>>

ApplyOther ==
    /\ log' = Append(log, 0)
    /\ UNCHANGED <<asked, applied, everApplied, answers>>

(* A server that comes back shows a state it had saved.                    *)
Recover ==
    /\ \E k \in 0..Len(log) : log' = SubSeq(log, 1, k)
    /\ applied' = {}
    /\ UNCHANGED <<asked, everApplied, answers>>

(* One report may tell the user of several commands.                       *)
Answer ==
    /\ answers' \in [Commands -> Answers]
    /\ \A c \in Commands : answers'[c] # answers[c] =>
          /\ answers[c] = "none" /\ c \in asked
          /\ answers'[c] = "ok" => c \in everApplied
    /\ UNCHANGED <<log, asked, applied, everApplied>>

LogNext ==
    \/ \E c \in Commands : Ask(c) \/ ApplyCommand(c)
    \/ ApplyOther \/ Recover \/ Answer

logVars == <<log, asked, applied, everApplied, answers>>

LogSpec == LogInit /\ [][LogNext]_logVars
=============================================================================
