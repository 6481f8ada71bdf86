---------------------------- MODULE MCChatService ----------------------------
(* ChatService for TLC, with one tool.  Who asks about whom is fixed: the   *)
(* two requests about different customers, the question of the UI about     *)
(* the first.  With one connection the requests never run their agents at   *)
(* the same time; the second one's model asks for no tool, so that calls    *)
(* in flight together are the first one's and the UI's.                     *)
EXTENDS ChatService

CONSTANTS h1, h2, u1, c1, c2

OneTool == {"calculate_dti"}

Subject == [r \in Tasks |-> IF r = h2 THEN c2 ELSE c1]

AskAboutSubject ==
  \A r \in Tasks : about'[r] # about[r] => about'[r] = Subject[r]

SecondNeedsNoTool == pc'[h2] # "tools"

SubjectsSpec ==
  /\ Init
  /\ [][Next /\ AskAboutSubject /\ SecondNeedsNoTool]_vars
  /\ Fairness

=============================================================================
