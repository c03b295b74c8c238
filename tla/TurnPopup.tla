----------------------------- MODULE TurnPopup -----------------------------
(* The turn popup as docs/ARCHITECTURE.md tabulates it ("Turn popup state    *)
(* machine"), apart from threads, generations and sockets: which phase may   *)
(* follow which, and whose turn the popup shows.  The table has no row for a  *)
(* popup that is written over by the no-creds error, or by an answer that      *)
(* comes after the turn: it is astray until the next seek, preempt or off.     *)
CONSTANTS Agents, NoAgent

VARIABLES mode,     \* "off", "selected" (t) or "follow" (f)
          phase,    \* the status column of the table, or "astray"
          agent     \* whose turn is shown

vars == <<mode, phase, agent>>

Init == mode = "selected" /\ phase = "idle" /\ agent = NoAgent

TurnOn == /\ mode = "off"
          /\ mode' \in {"selected", "follow"}
          /\ phase' = "idle"
          /\ UNCHANGED agent

SwitchMode == /\ mode # "off"
              /\ mode' \in {"selected", "follow"}
              /\ UNCHANGED <<phase, agent>>

\* A LIVE edge or the probe.
Seek == /\ phase \in {"idle", "astray"}
        /\ phase' = "seeking"
        /\ agent' \in Agents
        /\ UNCHANGED mode

NoCreds == /\ phase = "idle"
           /\ phase' = "error"
           /\ agent' \in Agents
           /\ UNCHANGED mode

Found == phase = "seeking" /\ phase' = "streaming" /\ UNCHANGED <<mode, agent>>

GiveUp == phase = "seeking" /\ phase' = "error" /\ UNCHANGED <<mode, agent>>

Complete == /\ phase = "streaming"
            /\ phase' \in {"linger", "error"}
            /\ UNCHANGED <<mode, agent>>

\* The linger timer, or the next fresh turn taking the place of a finished one.
Clear == /\ phase \in {"linger", "error"}
         /\ phase' = "idle"
         /\ agent' \in {agent, NoAgent}
         /\ UNCHANGED mode

GoAstray == /\ phase # "off"
            /\ phase' = "astray"
            /\ agent' \in Agents \cup {NoAgent}
            /\ UNCHANGED mode

\* A newer start drops the current turn, in follow mode only.
Preempt == /\ mode = "follow"
           /\ phase' = "idle"
           /\ agent' = NoAgent
           /\ UNCHANGED mode

Disable == mode' = "off" /\ phase' = "off" /\ UNCHANGED agent

Next == TurnOn \/ SwitchMode \/ Seek \/ NoCreds \/ Found \/ GiveUp \/ Complete
        \/ Clear \/ GoAstray \/ Preempt \/ Disable

Spec == Init /\ [][Next]_vars
=============================================================================
