----------------------------- MODULE AlertBoard -----------------------------
(***************************************************************************)
(* What the alert engine promises, seen from the dashboard: one place per  *)
(* signal, which is blank or shows one alert.  What is put there is what   *)
(* the signal showed when it was last looked at, never an older or         *)
(* invented level, and anybody may take an alert down, never put one up.   *)
(***************************************************************************)
EXTENDS Naturals

CONSTANTS Signal, Level,
          Blank,    \* nothing shown
          Face(_, _) \* Face(sig, level): what a level of sig shows, or Blank

VARIABLES reading, \* reading[sig]: the level of the signal
          look,    \* look[sig]: the level found when it was last looked at
          board    \* board[sig]: what is shown

vars == <<reading, look, board>>

Init ==
  /\ reading \in [Signal -> Level]
  /\ look \in [Signal -> Level]
  /\ board = [sig \in Signal |-> Blank]

\* The measured system moves.
Move(sig) ==
  /\ \E level \in Level : reading' = [reading EXCEPT ![sig] = level]
  /\ UNCHANGED <<look, board>>

\* An evaluator looks at some signals.
Look(sigs) ==
  /\ look' = [sig \in Signal |-> IF sig \in sigs THEN reading[sig] ELSE look[sig]]
  /\ UNCHANGED <<reading, board>>

\* In one step, what was found on some signals is shown, and the alerts of
\* others are taken down: by a person, by an evaluation that finds them
\* cleared, or by one they do not belong to.
Publish ==
  /\ board' = [sig \in Signal |-> board'[sig]]
  /\ \A sig \in Signal : board'[sig] \in {board[sig], Blank, Face(sig, look[sig])}
  /\ UNCHANGED <<reading, look>>

Next ==
  \/ \E sig \in Signal : Move(sig)
  \/ \E sigs \in SUBSET Signal : Look(sigs)
  \/ Publish

Spec == Init /\ [][Next]_vars
=============================================================================
