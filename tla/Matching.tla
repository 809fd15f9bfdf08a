------------------------------ MODULE Matching ------------------------------
(***************************************************************************)
(* Finding workers for one open job: what a worker's profile says of them, *)
(* the fan-out that tells the candidates of the job once it opens, and the *)
(* acceptance that decides again whether a worker may have a place.        *)
(*                                                                         *)
(* The fan-out runs after the commit that opened the job, in queries of    *)
(* its own: is the job open; who are the candidates; then one notice after *)
(* another.  Everything it has read may change under it.                   *)
(*                                                                         *)
(* Distances, pay and times are kept as what they decide: whether the job  *)
(* is within the worker's reach, whether an availability has lapsed.  The  *)
(* job's places are those of the other workers, who come and go.           *)
(***************************************************************************)
EXTENDS Tables

CONSTANTS
  Candidates, \* workers with a profile
  BatchSize   \* setting "matching": how many are told of a job

VARIABLES
  profile,   \* worker_profiles and worker_categories, as far as they decide
  standing,  \* users: status, and what is verified
  verification, \* verification_records: of those who passed, and are not lapsed
  blocked,   \* workers blocked by the customer, or who blocked them
  category,  \* the job's category: does it ask for verification, is it enabled
  opening,   \* jobs.state
  place,     \* job_workers of the candidates
  fanOutRun, \* the fan-out: where it is, and whom it has still to tell
  notified   \* history: those who were told

matchingVars == <<profile, standing, verification, blocked, category, opening, place,
                  fanOutRun, notified>>
peopleVars == <<profile, standing, verification, blocked, category>>

\* The facts that decide; a profile or a standing is the set of those it has.
PROFILE == {"available_now", "chose_category", "in_reach"}
ACCOUNT == {"ACTIVE", "email_verified", "phone_verified"}
CATEGORY == {"enabled", "requires_verification"}

MatchingTypeOK ==
  /\ profile \in [Candidates -> SUBSET PROFILE]
  /\ standing \in [Candidates -> SUBSET ACCOUNT]
  /\ verification \subseteq Candidates
  /\ blocked \subseteq Candidates
  /\ category \subseteq CATEGORY
  /\ opening \in {"MATCHING", "PARTIALLY_FILLED", "FILLED", "CANCELLED"}
  /\ place \in [Candidates -> {Absent, "ACTIVE", "LEFT"}]
  /\ fanOutRun \in [at : {"done", "start", "find", "tell"}, batch : SUBSET Candidates]
  /\ notified \subseteq Candidates

\* The job has just been posted; nobody's profile is complete yet.
MatchingInit ==
  /\ profile = [w \in Candidates |-> {}]
  /\ standing = [w \in Candidates |-> {"ACTIVE"}]
  /\ verification = {} /\ blocked = {}
  /\ category = {"enabled"}
  /\ opening = "MATCHING"
  /\ place = [w \in Candidates |-> Absent]
  /\ fanOutRun = [at |-> "start", batch |-> {}]
  /\ notified = {}

-----------------------------------------------------------------------------
OPENINGS == {"MATCHING", "PARTIALLY_FILLED"}

\* assertWorkerEligible: the profile exists; its category's demands are met.
assertWorkerEligible(w) == "requires_verification" \in category => w \in verification

(* Fault: blocks and standing are left to the acceptance *)
Fault_findsAnyone(w) ==
  /\ PROFILE \subseteq profile[w]
  /\ place[w] = Absent
  /\ assertWorkerEligible(w)

\* findCandidatesForJob.
isCandidate(w) ==
  /\ PROFILE \subseteq profile[w]
  /\ ACCOUNT \subseteq standing[w]
  /\ place[w] = Absent
  /\ w \notin blocked
  /\ "requires_verification" \in category => w \in verification

\* What acceptJob asks of the worker, besides that the job is open.
mayAccept(w) ==
  /\ ACCOUNT \subseteq standing[w]
  /\ place[w] = Absent
  /\ assertWorkerEligible(w)
  /\ w \notin blocked

-----------------------------------------------------------------------------
(* People: profiles, accounts, blocks, verification *)

\* setAvailability (the row of the profile is locked first, so the windows are
\* replaced in the same step), and the end of available_until.
setAvailability(w, now) ==
  /\ profile' = [profile EXCEPT ![w] = IF now THEN @ \cup {"available_now"}
                                              ELSE @ \ {"available_now"}]
  /\ UNCHANGED <<standing, verification, blocked, category, opening, place, fanOutRun, notified>>

\* upsertProfile: home, radius and minimum pay decide whether the job suits.
upsertProfile(w, reaches) ==
  /\ profile' = [profile EXCEPT ![w] = IF reaches THEN @ \cup {"in_reach"}
                                                  ELSE @ \ {"in_reach"}]
  /\ UNCHANGED <<standing, verification, blocked, category, opening, place, fanOutRun, notified>>

\* setCategories: only enabled ones can be chosen.
setCategories(w, chosen) ==
  /\ chosen => "enabled" \in category
  /\ profile' = [profile EXCEPT ![w] = IF chosen THEN @ \cup {"chose_category"}
                                                 ELSE @ \ {"chose_category"}]
  /\ UNCHANGED <<standing, verification, blocked, category, opening, place, fanOutRun, notified>>

\* Verifying mail and phone, and an admin's suspend and restore.
setAccount(w, facts) ==
  /\ standing[w] \ {"ACTIVE"} \subseteq facts
  /\ standing' = [standing EXCEPT ![w] = facts]
  /\ UNCHANGED <<profile, verification, blocked, category, opening, place, fanOutRun, notified>>

\* A check is passed, or lapses (external: nothing in the code writes it).
setVerification(w, passed) ==
  /\ verification' = IF passed THEN verification \cup {w} ELSE verification \ {w}
  /\ UNCHANGED <<profile, standing, blocked, category, opening, place, fanOutRun, notified>>

setBlocked(w, block) ==
  /\ blocked' = IF block THEN blocked \cup {w} ELSE blocked \ {w}
  /\ UNCHANGED <<profile, standing, verification, category, opening, place, fanOutRun, notified>>

\* An admin changes the category (catalog.repository.ts updateCategory).
updateCategory(facts) ==
  /\ category' = facts
  /\ UNCHANGED <<profile, standing, verification, blocked, opening, place, fanOutRun, notified>>

-----------------------------------------------------------------------------
(* The job *)

acceptJob(w) ==
  /\ opening \in OPENINGS
  /\ mayAccept(w)
  /\ place' = [place EXCEPT ![w] = "ACTIVE"]
  /\ opening' \in {"PARTIALLY_FILLED", "FILLED"}
  /\ UNCHANGED <<peopleVars, fanOutRun, notified>>

\* slot_reopened: somebody left; the job is announced again (of two fan-outs
\* of the job at once one is followed).
reopens ==
  /\ opening' = "MATCHING"
  /\ fanOutRun' = IF fanOutRun.at = "done"
                    THEN [fanOutRun EXCEPT !.at = "start"] ELSE fanOutRun

cancelAssignment(w) ==
  /\ place[w] = "ACTIVE"
  /\ place' = [place EXCEPT ![w] = "LEFT"]
  /\ IF opening \in {"FILLED", "PARTIALLY_FILLED"} THEN reopens
                                                   ELSE UNCHANGED <<opening, fanOutRun>>
  /\ UNCHANGED <<peopleVars, notified>>

\* The other workers take places and leave them; the customer cancels, or work
\* begins ("CANCELLED" stands for every state after the openings).
othersMove ==
  /\ \/ /\ opening \in OPENINGS
        /\ opening' \in {"PARTIALLY_FILLED", "FILLED"}
        /\ UNCHANGED fanOutRun
     \/ opening \in {"PARTIALLY_FILLED", "FILLED"} /\ reopens
     \/ opening' = "CANCELLED" /\ UNCHANGED fanOutRun
  /\ UNCHANGED <<peopleVars, place, notified>>

-----------------------------------------------------------------------------
(* The fan-out *)

readOpening ==
  /\ fanOutRun.at = "start"
  /\ fanOutRun' = [fanOutRun EXCEPT !.at = IF opening \in OPENINGS THEN "find" ELSE "done"]
  /\ UNCHANGED <<peopleVars, opening, place, notified>>

\* The nearest ones; which they are is left open.
findCandidates(batch) ==
  /\ fanOutRun.at = "find"
  /\ LET found == {w \in Candidates : isCandidate(w)} IN
       /\ batch \subseteq found
       /\ Cardinality(batch) = IF Cardinality(found) < BatchSize
                                 THEN Cardinality(found) ELSE BatchSize
  /\ fanOutRun' = [at |-> "tell", batch |-> batch]
  /\ UNCHANGED <<peopleVars, opening, place, notified>>

notifyNext(w) ==
  /\ w \in fanOutRun.batch
  /\ notified' = notified \cup {w}
  /\ fanOutRun' = [fanOutRun EXCEPT !.batch = @ \ {w}]
  /\ UNCHANGED <<peopleVars, opening, place>>

\* Done; or a query fails, or the server dies: the rest is never told.
endFanOut ==
  /\ fanOutRun.at # "done"
  /\ fanOutRun' = [at |-> "done", batch |-> {}]
  /\ UNCHANGED <<peopleVars, opening, place, notified>>

MatchingNext ==
  \/ \E w \in Candidates :
       \/ \E yes \in BOOLEAN :
            setAvailability(w, yes) \/ upsertProfile(w, yes) \/ setCategories(w, yes)
            \/ setVerification(w, yes) \/ setBlocked(w, yes)
       \/ \E facts \in SUBSET ACCOUNT : setAccount(w, facts)
       \/ acceptJob(w) \/ cancelAssignment(w) \/ notifyNext(w)
  \/ \E facts \in SUBSET CATEGORY : updateCategory(facts)
  \/ othersMove
  \/ readOpening \/ endFanOut
  \/ \E batch \in SUBSET Candidates : findCandidates(batch)

MatchingSpec == MatchingInit /\ [][MatchingNext]_matchingVars

-----------------------------------------------------------------------------
(* What must hold *)

\* Nobody is called to a job in vain: whoever is picked to be told could have
\* accepted at that moment, were the job still open, though the query that
\* picks (findCandidatesForJob) and the acceptance that decides (acceptJob) are
\* written apart; so a worker who left the job is not called back to it.
CalledCouldAccept ==
  [][\A w \in Candidates :
       fanOutRun.at = "find" /\ w \in fanOutRun'.batch => mayAccept(w)]_matchingVars
=============================================================================
