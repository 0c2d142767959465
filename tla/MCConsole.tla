------------------------------ MODULE MCConsole ------------------------------
(***************************************************************************)
(* The two consoles of the Rails client, Settings and AgentProfiles.  They *)
(* share no state: a behaviour moves the one it starts with, and the other *)
(* stays where it is.                                                      *)
(***************************************************************************)
EXTENDS Settings, AgentProfiles, TLC

CONSTANTS P, C, m1, m2, openai, anthropic

VARIABLE console

ASSUME NobodyIsNoId

\* The primary model, and the model of a chunker bound to one provider's SDK.
MCForm == <<P, C>>
MCProvider == (m1 :> openai) @@ (m2 :> anthropic)
MCDefault == (P :> m1) @@ (C :> m2)
MCClient == (P :> None) @@ (C :> anthropic)

\* The console that stays behind has one initial state.
ConsoleInit ==
  /\ Init /\ ProfilesInit
  /\ \/ console = "settings" /\ row = [p \in Profiles |-> "absent"]
     \/ console = "agents" /\ keys = {}

ConsoleNext ==
  /\ UNCHANGED console
  /\ \/ console = "settings" /\ Next /\ UNCHANGED profileVars
     \/ console = "agents" /\ ProfilesNext /\ UNCHANGED vars

ConsoleSpec == ConsoleInit /\ [][ConsoleNext]_<<vars, profileVars, console>> /\ Fairness
=============================================================================
