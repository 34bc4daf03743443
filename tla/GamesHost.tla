----------------------------- MODULE GamesHost ------------------------------
(***************************************************************************)
(* The door games' host, internal/games/games.go and                       *)
(* internal/shell/cmd_games.go: a session runs one game at a time, against *)
(* tables that all sessions share.  Nothing keeps a user from playing the  *)
(* same game in two sessions.                                              *)
(***************************************************************************)
EXTENDS Integers, Sequences, FiniteSets, Functions

CONSTANTS
    Sessions,   \* shell sessions
    UserOf,     \* UserOf[s] : the user logged in
    Games,      \* the registry
    Guests      \* bound: Guests[g], the sessions that a run lets play g

VARIABLES
    playing,    \* the game a session runs, "shell" if none
    excused     \* history: {}, or "twice": a user has had a game open twice,
                \*   "unsaved": a write that goes with a score has failed

hostVars == <<playing, excused>>

Users == {UserOf[s] : s \in Sessions}

HostInit ==
    /\ playing = [s \in Sessions |-> "shell"]
    /\ excused = {}

Twins(s, g) == {t \in Sessions \ {s} : UserOf[t] = UserOf[s] /\ playing[t] = g}

\* runGame: the command named after a game.
RunGame(s, g) ==
    /\ playing[s] = "shell" /\ s \in Guests[g]
    /\ playing' = [playing EXCEPT ![s] = g]
    /\ excused' = IF Twins(s, g) = {} THEN excused ELSE excused \cup {"twice"}

\* Play returns, or panics and is recovered.
QuitGame(s) ==
    /\ playing' = [playing EXCEPT ![s] = "shell"]
    /\ UNCHANGED excused
=============================================================================
