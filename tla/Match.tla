------------------------------- MODULE Match -------------------------------
(***************************************************************************)
(* What the daemon promises of a match, without rooms, processes or        *)
(* messages: players join, players fall for good, the match is decided     *)
(* once, the moment at most one player of several stands (or the only      *)
(* player falls), and everybody who is told a result is told that one,     *)
(* unless the daemon is stopped.                                           *)
(***************************************************************************)
EXTENDS Naturals, FiniteSets

VARIABLES known,        \* ids of the players that ever joined
          standing,     \* those that have not fallen
          decided,      \* the match is over
          champion,     \* its winner, 0 for none
          told,         \* results given to players
          stopped       \* the daemon was stopped

matchVars == <<known, standing, decided, champion, told, stopped>>

MatchInit == /\ known = {} /\ standing = {}
             /\ decided = FALSE /\ champion = 0
             /\ told = {} /\ stopped = FALSE

Join(p) == /\ p \notin known \cup {0}
           /\ known' = known \cup {p} /\ standing' = standing \cup {p}
           /\ UNCHANGED <<decided, champion, told, stopped>>

Over(joined, left) ==
    IF \E p, q \in joined : p # q THEN \A p, q \in left : p = q ELSE left = {}

Fall(losers) ==
    /\ standing' = standing \ losers
    /\ IF ~decided /\ known # {} /\ Over(known, standing')
       THEN /\ decided' = TRUE
            /\ champion' \in standing' \cup {0}
            /\ champion' = 0 => standing' = {}
       ELSE UNCHANGED <<decided, champion>>
    /\ UNCHANGED <<known, told, stopped>>

Announce == /\ decided
            /\ told' = told \cup {champion}
            /\ UNCHANGED <<known, standing, decided, champion, stopped>>

Abandon == /\ stopped
           /\ told' \in {told \cup {0}, told \cup {champion}}
           /\ UNCHANGED <<known, standing, decided, champion, stopped>>

Stop == /\ stopped' = TRUE
        /\ UNCHANGED <<known, standing, decided, champion, told>>

MatchNext == \/ \E p \in known' \ known : Join(p)
             \/ \E losers \in SUBSET standing : Fall(losers)
             \/ Announce \/ Abandon \/ Stop

MatchSpec == MatchInit /\ [][MatchNext]_matchVars
=============================================================================
