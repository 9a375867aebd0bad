------------------------------ MODULE PagingLock ------------------------------
(***************************************************************************)
(* What escalation promises, without its timers: either the levels of a    *)
(* run are being paged one after the other, or one person holds the        *)
(* incident and nobody is paged, or the run is over.  A level is never     *)
(* paged again in the same round.  The one exception to who holds it is a  *)
(* change of the owner that was asked for when there was no run.           *)
(***************************************************************************)
EXTENDS Integers

CONSTANTS People, Nobody

VARIABLES phase,   \* "paging", "held", or "idle": over, or never begun
          holder,  \* who owns the incident
          level,   \* the last level visited, -1 before the first
          round,   \* the round of the run
          early    \* changes of the owner asked for when there was no run

pvars == <<phase, holder, level, round, early>>

Init == /\ phase \in {"paging", "idle"}
        /\ holder = Nobody
        /\ level \in Int
        /\ round = 0
        /\ early = {}

NoRun == phase = "idle" /\ level = -1 /\ round = 0

\* A further level is paged; it does not change who owns the incident.
Climb == /\ phase # "idle"
         /\ level' > level
         /\ UNCHANGED <<phase, holder, round>>

\* Somebody takes or is given the incident, and paging stops.
Hold(p) == /\ phase # "idle"
           /\ phase' = "held" /\ holder' = p
           /\ UNCHANGED <<level, round>>

\* Nobody holds it any more: paging resumes above the level it stopped at.
Resume == /\ phase = "held"
          /\ phase' = "paging" /\ holder' = Nobody
          /\ level' > level
          /\ UNCHANGED round

\* The run is over, with or without its holder.
End == /\ phase # "idle" /\ phase' = "idle"
       /\ holder' \in {holder, Nobody}
       /\ level' >= level
       /\ UNCHANGED round

\* A level of the definition was removed: the same place in a new round.
Renumber == /\ phase # "idle"
            /\ round' = round + 1
            /\ level' \in {level - 1, level}
            /\ UNCHANGED <<phase, holder>>

\* The incident is handed to another chain or reopened.
NewRound == /\ phase' \in {"paging", "idle"}
            /\ holder' = Nobody
            /\ level' \in Int
            /\ \/ round' = round + 1
               \/ phase = "idle" /\ level = -1 /\ round' = round

\* The chain was deleted, and the run with it.
Forget == /\ phase' = "idle" /\ level' = -1 /\ round' = 0
          /\ UNCHANGED holder

\* With no run, ownership changes freely.
Own == /\ phase = "idle"
       /\ holder' \in People \cup {Nobody}
       /\ UNCHANGED <<phase, level, round>>

\* Somebody asks to change the owner while there is no run.
AskEarly == /\ NoRun
            /\ early \subseteq early'
            /\ UNCHANGED <<phase, holder, level, round>>

\* What was asked for then is done, whether or not a run has begun since.
ActEarly == /\ \E o \in early : early' = early \ {o}
            /\ holder' \in People \cup {Nobody}
            /\ UNCHANGED <<phase, level, round>>

\* An owner that left beside a paging run goes; paging goes on.
Leave == /\ phase = "paging" /\ holder' = Nobody
         /\ UNCHANGED <<phase, level, round>>

Next == \/ AskEarly \/ ActEarly
        \/ /\ \/ Climb \/ Resume \/ End \/ Renumber \/ NewRound \/ Forget
              \/ Own \/ Leave \/ \E p \in People : Hold(p)
           /\ UNCHANGED early

Spec == Init /\ [][Next]_pvars
=============================================================================
