----------------------------- MODULE GigContract -----------------------------
(***************************************************************************)
(* What a posted gig promises the people on it, with every request taken   *)
(* as one indivisible step: a bounded crew that workers join once, leave   *)
(* or finish; work that is handed over for confirmation at the moment the  *)
(* last member of the crew finishes.  JobLifecycle, whose requests read an *)
(* assignment before they lock the job, implements this specification.     *)
(***************************************************************************)
EXTENDS Naturals, FiniteSets

CONSTANTS Workers, WorkersNeeded

VARIABLES
  phase,     \* how far the gig is
  crew,      \* the workers who hold a place, those who finished included
  finished,  \* the members of the crew whose work is done
  gone       \* those who had a place and lost or left it

contract == <<phase, crew, finished, gone>>

Phases == {"Unlisted", "Staffing", "Working", "Confirming", "Settling",
           "CalledOff", "Over"}

Init ==
  /\ phase = "Unlisted"
  /\ crew = {} /\ finished = {} /\ gone = {}

MovePhase(from, to) ==
  /\ phase \in from
  /\ phase' \in to
  /\ UNCHANGED <<crew, finished, gone>>

List == MovePhase({"Unlisted"}, {"Staffing"})

\* A worker takes a free place, once.
Join(w) ==
  /\ phase = "Staffing"
  /\ w \notin crew \cup gone
  /\ Cardinality(crew) < WorkersNeeded
  /\ crew' = crew \cup {w}
  /\ UNCHANGED <<phase, finished, gone>>

\* Only one who still has work to do can leave; what is finished stays.
Leave(w) ==
  /\ w \in crew \ finished
  /\ crew' = crew \ {w}
  /\ gone' = gone \cup {w}
  /\ UNCHANGED <<phase, finished>>

Begin ==
  /\ crew # {}
  /\ MovePhase({"Staffing"}, {"Working"})

\* The last of the crew to finish hands the work over for confirmation.
Finish(w) ==
  /\ w \in crew \ finished
  /\ finished' = finished \cup {w}
  /\ phase' = IF phase = "Working" /\ finished' = crew
                THEN "Confirming" ELSE phase
  /\ UNCHANGED <<crew, gone>>

\* Whoever has not finished loses the place when the gig is called off.
CallOff ==
  /\ phase \in {"Unlisted", "Staffing", "Working"}
  /\ phase' = "CalledOff"
  /\ crew' = finished
  /\ gone' = gone \cup (crew \ finished)
  /\ UNCHANGED finished

Settle == MovePhase({"Working", "Confirming", "CalledOff"}, {"Settling"})

CloseOut == MovePhase({"Settling"}, {"Over"})

Next ==
  \/ List \/ Begin \/ CallOff \/ Settle \/ CloseOut
  \/ \E w \in Workers : Join(w) \/ Leave(w) \/ Finish(w)

Spec == Init /\ [][Next]_contract
=============================================================================
