------------------------------ MODULE MCModes ------------------------------
(***************************************************************************)
(* Is the board in the mode the client was configured with?  BoardClient   *)
(* with a history of the two things that may have left it in another one:  *)
(* a request that the board did not take, and one that was never written.  *)
(***************************************************************************)
EXTENDS MCBoardClient

VARIABLES
    asked,     \* history: the mode of the last SETUP_REQ that left the line
    overtaken  \* history: the link state changed between the two halves of the
               \* last ChangeState of a Configure

Watch ==
    /\ asked' = IF /\ toBoard # << >> /\ toBoard' = Tail(toBoard)
                   /\ Head(toBoard).type = "SETUP_REQ"
                  THEN Head(toBoard).mode
                  ELSE asked
    /\ overtaken' = IF pc["app"] = "enter" /\ pc'["app"] # "enter"
                      THEN m_state # "SETUP"
                      ELSE overtaken

ModeInit == Init /\ asked = boardMode /\ overtaken = FALSE

modeVars == <<vars, asked, overtaken>>
ModeSpec == ModeInit /\ [][Next /\ Watch]_modeVars

QuietSpec == ModeSpec /\ Fairness /\ RadioFallsSilent

\* ModeFollows needs the board to have taken the last SETUP_REQ it was sent, and
\* the last Configure to have written its own.  Nothing else can break it: stale
\* SETUP_ACKs and repeated requests never leave an active client with a board in
\* another mode, nor does a request that failed before one the board took.
ModeFollowsUnlessFailed == asked = boardMode /\ ~overtaken => ModeFollows
=============================================================================
