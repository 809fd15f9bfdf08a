------------------------------ MODULE Ratings -------------------------------
(***************************************************************************)
(* The ratings that a customer and a worker give each other after the      *)
(* assignments they share, and the aggregates in their profiles.           *)
(*                                                                         *)
(* submit is one READ COMMITTED transaction of several statements: each    *)
(* statement sees what is committed when it starts, besides what its own   *)
(* transaction wrote.  The UPDATE of a profile computes the aggregate from *)
(* that snapshot, then waits for the row if another transaction holds it.  *)
(*                                                                         *)
(* Of an aggregate only the set of ratings it was computed from is kept.   *)
(* That the work is completed is checked first and stays so.               *)
(***************************************************************************)
EXTENDS Tables

CONSTANT Assignments  \* completed assignments of one customer and one worker

VARIABLES
  rating,     \* rows of ratings as committed: Absent, "HIDDEN", "VISIBLE"
  elapsed,    \* those older than the blind window
  aggregate,  \* the ratings counted in the profile that a direction rates
  submission, \* the open transactions: one for each rating, at most
  raced       \* history: ratings whose transactions were open with another

ratingsVars == <<rating, elapsed, aggregate, submission, raced>>

DIRECTIONS == {"CUSTOMER_TO_WORKER", "WORKER_TO_CUSTOMER"}
RatingIds == Assignments \X DIRECTIONS

direction(r) == r[2]
opposite(dir) == CHOOSE d \in DIRECTIONS : d # dir
partner(r) == <<r[1], opposite(direction(r))>>

\* A key without a row, and an aggregate not written, are told from the values.
ASSUME AbsentIsNoRating ==
  /\ Absent \notin {"HIDDEN", "VISIBLE"}
  /\ \A counted \in SUBSET RatingIds : counted # Absent

NoSubmission == [at |-> "idle", pair |-> FALSE, read |-> {},
                 write |-> [d \in DIRECTIONS |-> Absent]]
SUBMIT_STEPS == {"idle", "inserted", "looked", "read", "wrote", "readOther", "done"}

RatingsTypeOK ==
  /\ rating \in [RatingIds -> {Absent, "HIDDEN", "VISIBLE"}]
  /\ elapsed \subseteq Rows(rating)
  /\ aggregate \in [DIRECTIONS -> SUBSET RatingIds]
  /\ submission \in [RatingIds -> [at : SUBMIT_STEPS, pair : BOOLEAN,
                                   read : SUBSET RatingIds,
                                   write : [DIRECTIONS -> OrAbsent(SUBSET RatingIds)]]]
  /\ raced \subseteq RatingIds

RatingsInit ==
  /\ rating = [r \in RatingIds |-> Absent]
  /\ elapsed = {}
  /\ aggregate = [d \in DIRECTIONS |-> {}]
  /\ submission = [r \in RatingIds |-> NoSubmission]
  /\ raced = {}

-----------------------------------------------------------------------------
OpenSubmissions == {r \in RatingIds : submission[r].at # "idle"}

\* The profile's row is locked by another transaction.
profileLocked(r, dir) ==
  \E q \in OpenSubmissions \ {r} : submission[q].write[dir] # Absent

Shown(r) == rating[r] = "VISIBLE" \/ r \in elapsed

(* Faults: definitions of this module as a plausible slip would have       *)
(* written them, used only to see that the properties below notice them.   *)

\* The rows are counted before the new one is among them.
Fault_countsOthers(r) == FALSE

\* visibilityCondition: the ratings that r's transaction sees and would show.
visibleTo(r, dir) ==
  {q \in Rows(rating) \cup {r} :
     /\ direction(q) = dir
     /\ Shown(q) \/ (submission[r].pair /\ q \in {r, partner(r)})}

\* Both directions of the assignment are there, as r's transaction sees it.
pairSubmitted(r) == rating[partner(r)] # Absent

-----------------------------------------------------------------------------
(* submit *)

insertRating(r) ==
  /\ rating[r] = Absent
  /\ submission[r] = NoSubmission
  /\ submission' = [submission EXCEPT ![r].at = "inserted"]
  /\ raced' = IF OpenSubmissions = {} THEN raced
              ELSE raced \cup OpenSubmissions \cup {r}
  /\ UNCHANGED <<rating, elapsed, aggregate>>

\* Are both directions there?  If so both become visible with the commit.
lookForPair(r) ==
  /\ submission[r].at = "inserted"
  /\ submission' = [submission EXCEPT ![r].at = "looked", ![r].pair = pairSubmitted(r)]
  /\ UNCHANGED <<rating, elapsed, aggregate, raced>>

\* recomputeAggregates starts: of the ratee, later of the rater.
readRatings(r) ==
  /\ \/ /\ submission[r].at = "looked"
        /\ submission' = [submission EXCEPT ![r].at = "read",
                            ![r].read = visibleTo(r, direction(r))]
     \/ /\ submission[r].at = "wrote" /\ submission[r].pair
        /\ submission' = [submission EXCEPT ![r].at = "readOther",
                            ![r].read = visibleTo(r, opposite(direction(r)))]
  /\ UNCHANGED <<rating, elapsed, aggregate, raced>>

\* ... and writes the profile once it has its row.
writeAggregate(r) ==
  /\ \/ /\ submission[r].at = "read"
        /\ ~profileLocked(r, direction(r))
        /\ submission' = [submission EXCEPT ![r].at = "wrote",
                            ![r].write[direction(r)] = submission[r].read]
     \/ /\ submission[r].at = "readOther"
        /\ ~profileLocked(r, opposite(direction(r)))
        /\ submission' = [submission EXCEPT ![r].at = "done",
                            ![r].write[opposite(direction(r))] = submission[r].read]
  /\ UNCHANGED <<rating, elapsed, aggregate, raced>>

commitRating(r) ==
  LET s == submission[r]
  IN  /\ \/ s.at = "done"
         \/ s.at = "wrote" /\ ~s.pair
      /\ rating' = [q \in RatingIds |->
                      IF s.pair /\ q \in {r, partner(r)} THEN "VISIBLE"
                      ELSE IF q = r THEN "HIDDEN" ELSE rating[q]]
      /\ aggregate' = [d \in DIRECTIONS |->
                         IF s.write[d] = Absent THEN aggregate[d] ELSE s.write[d]]
      /\ submission' = [submission EXCEPT ![r] = NoSubmission]
      /\ UNCHANGED <<elapsed, raced>>

\* Lost, or picked by the database to end a deadlock: nothing is kept.
rollbackRating(r) ==
  /\ submission[r] # NoSubmission
  /\ submission' = [submission EXCEPT ![r] = NoSubmission]
  /\ UNCHANGED <<rating, elapsed, aggregate, raced>>

\* rating_blind_window_days pass.
windowElapses(r) ==
  /\ r \in Rows(rating) \ elapsed
  /\ elapsed' = elapsed \cup {r}
  /\ UNCHANGED <<rating, aggregate, submission, raced>>

RatingsNext ==
  \E r \in RatingIds :
    \/ insertRating(r) \/ lookForPair(r) \/ readRatings(r) \/ writeAggregate(r)
    \/ commitRating(r) \/ rollbackRating(r) \/ windowElapses(r)

RatingsSpec == RatingsInit /\ [][RatingsNext]_ratingsVars

-----------------------------------------------------------------------------
(* What must hold *)

BlindUntilBoth ==
  /\ \A r \in Rows(rating) : Shown(r) /\ r \notin elapsed => rating[partner(r)] # Absent
  /\ \A dir \in DIRECTIONS : \A r \in aggregate[dir] : rating[r] # Absent /\ Shown(r)

MissedOnlyByOverlap ==
  \A r \in Rows(rating) :
    /\ rating[partner(r)] # Absent
    /\ r \notin raced /\ partner(r) \notin raced
    => rating[r] = "VISIBLE" /\ r \in aggregate[direction(r)]

\* Comment: "Double-blind" (ratings.service.ts, 0007_ratings.sql): within the
\* window nobody is shown a rating before having given the other one; nor does
\* the average in a profile, which everybody sees, tell about a rating that is
\* still hidden.  The other way round, both ratings are shown and both are
\* counted once both are given; only when two submissions of these people ran
\* at the same time may this fail, because neither saw the other's row.
DoubleBlind == BlindUntilBoth /\ MissedOnlyByOverlap
=============================================================================
