------------------------- MODULE SubscriptionProofs -------------------------
(***************************************************************************)
(* Proofs about Subscription, for any number of fetches with one ID: types,*)
(* that a callback completes once and last, that neither profile nor       *)
(* provider is written after cancel() has returned, and that cancel()      *)
(* reaches what its task reads from.  They rest on who holds a task's monitor at each place, and on     *)
(* what is complete there; none of it needs the tables, which the fetches  *)
(* do mix up.                                                              *)
(***************************************************************************)
EXTENDS Subscription, TLAPS

\* The monitor belongs to cancel() or to run() exactly while they are inside it.
Locks(f) ==
    /\ monitor[f] = "cancel" <=> canceller[f] \in {"token", "close"} \cup Finishing
    /\ monitor[f] = "run" <=> work[f] \in {"writing"} \cup Finishing

\* What is open belongs to a worker that waits for it, and the scratch file to one
\* that validates.
Owns(f) ==
    /\ resource[f] # "none" <=> work[f] \in {"assigned", "wait"}
    /\ scratch[f] => work[f] \in {"scratched", "opened", "assigned", "wait"}
    /\ caller[f] \in {"idle", "begin", "submit"} => work[f] = "none"
    /\ ~started[f] => work[f] \in {"none", "queued", "gone"}
    /\ started[f] => work[f] \notin {"none", "queued"}

\* Either cancel() completes a task that has not begun, or its worker does.
Ended(f) ==
    /\ canceller[f] \in {"token", "close"} => ~completed[f]
    /\ canceller[f] \in Finishing => completed[f] /\ ~started[f]
    /\ completed[f] /\ started[f] => work[f] \in Finishing \cup {"gone"}
    /\ work[f] \in Finishing => completed[f] /\ started[f]
    /\ work[f] = "gone" => completed[f]
    /\ told[f] = IF completed[f] /\ monitor[f] \notin {"cancel", "run"} THEN 1 ELSE 0

\* cancel() that had something to cancel has said so, and is not beside a write.
Stops(f) ==
    /\ canceller[f] \in {"token", "close", "returned"} => cancelled[f] \/ completed[f]
    /\ work[f] = "writing" => canceller[f] \in {"none", "enter"}

\* One file for the provider, one for the profile.
Written(f) ==
    /\ stage[f] = "profile" => saved[f] = 0 /\ work[f] \notin {"write", "writing"}
    /\ stage[f] = "provider" => saved[f] = 0
    /\ stage[f] = "verdict" /\ work[f] \notin Finishing \cup {"last", "gone"} => saved[f] <= 1
    /\ saved[f] <= 2

FInv == FetchTypeOK /\ \A f \in Fetches : Locks(f) /\ Owns(f) /\ Ended(f) /\ Stops(f) /\ Written(f)

\* No task at first.
LEMMA InitFInv == FetchInit => FInv
BY DEF FetchInit, FInv, FetchTypeOK, Finishing, Locks, Owns, Ended, Stops, Written

\* A task enters the table.
LEMMA PutsInv == ASSUME FInv, NEW f \in Fetches, Puts(f) PROVE FInv'
<1> USE FetchesAssumption DEF Puts, FInv, tableVars, flagVars, runVars, Finishing
<1>1. FetchTypeOK'
  BY DEF FetchTypeOK, Ended, Written, Locks
<1>2. ASSUME NEW g \in Fetches PROVE Locks(g)' /\ Owns(g)'
  BY DEF FetchTypeOK, Locks, Owns, Ended
<1>3. ASSUME NEW g \in Fetches PROVE Ended(g)' /\ Stops(g)'
  BY DEF FetchTypeOK, Locks, Owns, Ended, Stops
<1>4. ASSUME NEW g \in Fetches PROVE Written(g)'
  BY DEF FetchTypeOK, Locks, Owns, Written
<1>. QED BY <1>1, <1>2, <1>3, <1>4

\* Its token follows, if there is none.
LEMMA BeginsInv == ASSUME FInv, NEW f \in Fetches, Begins(f) PROVE FInv'
<1> USE FetchesAssumption DEF Begins, FInv, tableVars, flagVars, runVars, Finishing
<1>1. FetchTypeOK'
  BY DEF FetchTypeOK, Ended, Written, Locks
<1>2. ASSUME NEW g \in Fetches PROVE Locks(g)' /\ Owns(g)'
  BY DEF FetchTypeOK, Locks, Owns, Ended
<1>3. ASSUME NEW g \in Fetches PROVE Ended(g)' /\ Stops(g)'
  BY DEF FetchTypeOK, Locks, Owns, Ended, Stops
<1>4. ASSUME NEW g \in Fetches PROVE Written(g)'
  BY DEF FetchTypeOK, Locks, Owns, Written
<1>. QED BY <1>1, <1>2, <1>3, <1>4

\* The worker is queued.
LEMMA SubmitsInv == ASSUME FInv, NEW f \in Fetches, Submits(f) PROVE FInv'
<1> USE FetchesAssumption DEF Submits, FInv, tableVars, flagVars, runVars, Finishing
<1>1. FetchTypeOK'
  BY DEF FetchTypeOK, Ended, Written, Locks
<1>2. ASSUME NEW g \in Fetches PROVE Locks(g)' /\ Owns(g)'
  BY DEF FetchTypeOK, Locks, Owns, Ended
<1>3. ASSUME NEW g \in Fetches PROVE Ended(g)' /\ Stops(g)'
  BY DEF FetchTypeOK, Locks, Owns, Ended, Stops
<1>4. ASSUME NEW g \in Fetches PROVE Written(g)'
  BY DEF FetchTypeOK, Locks, Owns, Written
<1>. QED BY <1>1, <1>2, <1>3, <1>4

\* A task is looked up.
LEMMA CancelsInv == ASSUME FInv, NEW f \in Fetches, Cancels(f) PROVE FInv'
<1> USE FetchesAssumption DEF Cancels, FInv, tableVars, flagVars, runVars, Finishing
<1>1. FetchTypeOK'
  BY DEF FetchTypeOK, Ended, Written, Locks
<1>2. ASSUME NEW g \in Fetches PROVE Locks(g)' /\ Owns(g)'
  BY DEF FetchTypeOK, Locks, Owns, Ended
<1>3. ASSUME NEW g \in Fetches PROVE Ended(g)' /\ Stops(g)'
  BY DEF FetchTypeOK, Locks, Owns, Ended, Stops
<1>4. ASSUME NEW g \in Fetches PROVE Written(g)'
  BY DEF FetchTypeOK, Locks, Owns, Written
<1>. QED BY <1>1, <1>2, <1>3, <1>4

\* cancel() gets the monitor of a task that is not complete.
LEMMA CancelEntersInv == ASSUME FInv, NEW f \in Fetches, CancelEnters(f) PROVE FInv'
<1> USE FetchesAssumption DEF CancelEnters, FInv, tableVars, flagVars, runVars, Finishing
<1>1. FetchTypeOK'
  <2>1. CASE completed[f]
    BY <2>1 DEF FetchTypeOK
  <2>2. CASE ~completed[f]
    BY <2>2 DEF FetchTypeOK
  <2>. QED BY <2>1, <2>2
<1>2. ASSUME NEW g \in Fetches PROVE Locks(g)' /\ Owns(g)'
  BY DEF FetchTypeOK, Locks, Owns, Ended
<1>3. ASSUME NEW g \in Fetches PROVE Ended(g)' /\ Stops(g)'
  BY DEF FetchTypeOK, Locks, Owns, Ended, Stops
<1>4. ASSUME NEW g \in Fetches PROVE Written(g)'
  BY DEF FetchTypeOK, Locks, Owns, Written
<1>. QED BY <1>1, <1>2, <1>3, <1>4

\* The token is sent.
LEMMA FiresInv == ASSUME FInv, NEW f \in Fetches, Fires(f) PROVE FInv'
<1> USE FetchesAssumption DEF Fires, FInv, tableVars, flagVars, runVars, Finishing
<1>1. FetchTypeOK'
  BY DEF FetchTypeOK, Ended, Written, Locks
<1>2. ASSUME NEW g \in Fetches PROVE Locks(g)' /\ Owns(g)'
  BY DEF FetchTypeOK, Locks, Owns, Ended
<1>3. ASSUME NEW g \in Fetches PROVE Ended(g)' /\ Stops(g)'
  BY DEF FetchTypeOK, Locks, Owns, Ended, Stops
<1>4. ASSUME NEW g \in Fetches PROVE Written(g)'
  BY DEF FetchTypeOK, Locks, Owns, Written
<1>. QED BY <1>1, <1>2, <1>3, <1>4

\* A task that has not begun is complete now.
LEMMA CancelClosesInv == ASSUME FInv, NEW f \in Fetches, CancelCloses(f) PROVE FInv'
<1> USE FetchesAssumption DEF CancelCloses, Unstarted, Closed, FInv, tableVars, flagVars, runVars, Finishing
<1>1. FetchTypeOK'
  <2>1. CASE started[f]
    BY <2>1 DEF FetchTypeOK
  <2>2. CASE ~started[f]
    BY <2>2 DEF FetchTypeOK
  <2>. QED BY <2>1, <2>2
<1>2. ASSUME NEW g \in Fetches PROVE Locks(g)' /\ Owns(g)'
  BY DEF FetchTypeOK, Locks, Owns, Ended
<1>3. ASSUME NEW g \in Fetches PROVE Ended(g)' /\ Stops(g)'
  BY DEF FetchTypeOK, Locks, Owns, Ended, Stops
<1>4. ASSUME NEW g \in Fetches PROVE Written(g)'
  BY DEF FetchTypeOK, Locks, Owns, Written
<1>. QED BY <1>1, <1>2, <1>3, <1>4

\* finish() of a task that never runs.
LEMMA CancelFinishesInv == ASSUME FInv, NEW f \in Fetches, CancelFinishes(f) PROVE FInv'
<1> USE FetchesAssumption DEF CancelFinishes, FinishStep, Removes, Ends, Completes, Then, FInv, tableVars, flagVars, runVars, Finishing
<1>1. FetchTypeOK'
  BY DEF FetchTypeOK, Ended, Written, Locks
<1>2. ASSUME NEW g \in Fetches PROVE Locks(g)' /\ Owns(g)'
  BY DEF FetchTypeOK, Locks, Owns, Ended
<1>3. ASSUME NEW g \in Fetches PROVE Ended(g)' /\ Stops(g)'
  BY DEF FetchTypeOK, Locks, Owns, Ended, Stops
<1>4. ASSUME NEW g \in Fetches PROVE Written(g)'
  BY DEF FetchTypeOK, Locks, Owns, Written
<1>. QED BY <1>1, <1>2, <1>3, <1>4

\* The worker begins, unless the task is complete.
LEMMA BegunInv == ASSUME FInv, NEW f \in Fetches, Begun(f) PROVE FInv'
<1> USE FetchesAssumption DEF Begun, Turns, FInv, tableVars, flagVars, runVars, Finishing
<1>1. FetchTypeOK'
  <2>1. CASE completed[f]
    BY <2>1 DEF FetchTypeOK
  <2>2. CASE ~completed[f]
    BY <2>2 DEF FetchTypeOK
  <2>. QED BY <2>1, <2>2
<1>2. ASSUME NEW g \in Fetches PROVE Locks(g)' /\ Owns(g)'
  BY DEF FetchTypeOK, Locks, Owns, Ended
<1>3. ASSUME NEW g \in Fetches PROVE Ended(g)' /\ Stops(g)'
  BY DEF FetchTypeOK, Locks, Owns, Ended, Stops
<1>4. ASSUME NEW g \in Fetches PROVE Written(g)'
  BY DEF FetchTypeOK, Locks, Owns, Written
<1>. QED BY <1>1, <1>2, <1>3, <1>4

\* It looks where the next thing comes from.
LEMMA ChoosesInv == ASSUME FInv, NEW f \in Fetches, Chooses(f) PROVE FInv'
<1> USE FetchesAssumption DEF Chooses, Fails, Failing, Turns, FInv, tableVars, flagVars, runVars, Finishing
<1>1. FetchTypeOK'
  BY DEF FetchTypeOK, Ended, Written, Locks
<1>2. ASSUME NEW g \in Fetches PROVE Locks(g)' /\ Owns(g)'
  BY DEF FetchTypeOK, Locks, Owns, Ended
<1>3. ASSUME NEW g \in Fetches PROVE Ended(g)' /\ Stops(g)'
  BY DEF FetchTypeOK, Locks, Owns, Ended, Stops
<1>4. ASSUME NEW g \in Fetches PROVE Written(g)'
  BY DEF FetchTypeOK, Locks, Owns, Written
<1>. QED BY <1>1, <1>2, <1>3, <1>4

\* It listens to the token there is.
LEMMA ListensInv == ASSUME FInv, NEW f \in Fetches, Listens(f) PROVE FInv'
<1> USE FetchesAssumption DEF Listens, Fails, Failing, Turns, FInv, tableVars, flagVars, runVars, Finishing
<1>1. FetchTypeOK'
  BY DEF FetchTypeOK, Ended, Written, Locks
<1>2. ASSUME NEW g \in Fetches PROVE Locks(g)' /\ Owns(g)'
  BY DEF FetchTypeOK, Locks, Owns, Ended
<1>3. ASSUME NEW g \in Fetches PROVE Ended(g)' /\ Stops(g)'
  BY DEF FetchTypeOK, Locks, Owns, Ended, Stops
<1>4. ASSUME NEW g \in Fetches PROVE Written(g)'
  BY DEF FetchTypeOK, Locks, Owns, Written
<1>. QED BY <1>1, <1>2, <1>3, <1>4

\* The server answers.
LEMMA AnswersInv == ASSUME FInv, NEW f \in Fetches, Answers(f) PROVE FInv'
<1> USE FetchesAssumption DEF Answers, Obtains, Fails, Failing, Turns, FInv, tableVars, flagVars, runVars, Finishing
<1>1. FetchTypeOK'
  BY DEF FetchTypeOK, Ended, Written, Locks
<1>2. ASSUME NEW g \in Fetches PROVE Locks(g)' /\ Owns(g)'
  BY DEF FetchTypeOK, Locks, Owns, Ended
<1>3. ASSUME NEW g \in Fetches PROVE Ended(g)' /\ Stops(g)'
  BY DEF FetchTypeOK, Locks, Owns, Ended, Stops
<1>4. ASSUME NEW g \in Fetches PROVE Written(g)'
  BY DEF FetchTypeOK, Locks, Owns, Written
<1>. QED BY <1>1, <1>2, <1>3, <1>4

\* The token ends the request.
LEMMA InterruptedInv == ASSUME FInv, NEW f \in Fetches, Interrupted(f) PROVE FInv'
<1> USE FetchesAssumption DEF Interrupted, Fails, Failing, Turns, FInv, tableVars, flagVars, runVars, Finishing
<1>1. FetchTypeOK'
  BY DEF FetchTypeOK, Ended, Written, Locks
<1>2. ASSUME NEW g \in Fetches PROVE Locks(g)' /\ Owns(g)'
  BY DEF FetchTypeOK, Locks, Owns, Ended
<1>3. ASSUME NEW g \in Fetches PROVE Ended(g)' /\ Stops(g)'
  BY DEF FetchTypeOK, Locks, Owns, Ended, Stops
<1>4. ASSUME NEW g \in Fetches PROVE Written(g)'
  BY DEF FetchTypeOK, Locks, Owns, Written
<1>. QED BY <1>1, <1>2, <1>3, <1>4

\* The app opens the stream, or does not.
LEMMA AppOpensInv == ASSUME FInv, NEW f \in Fetches, AppOpens(f) PROVE FInv'
<1> USE FetchesAssumption DEF AppOpens, Fails, Failing, Turns, FInv, tableVars, flagVars, runVars, Finishing
<1>1. FetchTypeOK'
  BY DEF FetchTypeOK, Ended, Written, Locks
<1>2. ASSUME NEW g \in Fetches PROVE Locks(g)' /\ Owns(g)'
  BY DEF FetchTypeOK, Locks, Owns, Ended
<1>3. ASSUME NEW g \in Fetches PROVE Ended(g)' /\ Stops(g)'
  BY DEF FetchTypeOK, Locks, Owns, Ended, Stops
<1>4. ASSUME NEW g \in Fetches PROVE Written(g)'
  BY DEF FetchTypeOK, Locks, Owns, Written
<1>. QED BY <1>1, <1>2, <1>3, <1>4

\* The scratch file is there,
LEMMA ScratchesInv == ASSUME FInv, NEW f \in Fetches, Scratches(f) PROVE FInv'
<1> USE FetchesAssumption DEF Scratches, Fails, Failing, Turns, FInv, tableVars, flagVars, runVars, Finishing
<1>1. FetchTypeOK'
  <2>1. /\ work \in [Fetches -> {"none", "queued", "next", "http", "open", "opened", "assigned", "wait",
                               "scratch", "scratched", "write", "writing", "last", "gone"} \cup Finishing]
        /\ stage \in [Fetches -> {"profile", "provider", "verdict"}] /\ scratch \in [Fetches -> BOOLEAN]
        /\ resource \in [Fetches -> {"none", "open", "closed"}]
    BY DEF FetchTypeOK
  <2>2. \E w \in {"scratched", "next", "last"} : work' = [work EXCEPT ![f] = w]
    OBVIOUS
  <2>3. \E s \in {"profile", "provider", "verdict"} : stage' = [stage EXCEPT ![f] = s]
    <3>1. stage' = stage \/ stage' = [stage EXCEPT ![f] = "verdict"] \/ stage' = [stage EXCEPT ![f] = stage[f]]
      OBVIOUS
    <3>. QED BY <2>1, <3>1
  <2>4. scratch' = scratch \/ \E b \in BOOLEAN : scratch' = [scratch EXCEPT ![f] = b]
    OBVIOUS
  <2>5. resource' = resource \/ resource' = [resource EXCEPT ![f] = "none"]
    OBVIOUS
  <2>6. UNCHANGED <<tableVars, caller, canceller, heard, saved, monitor, flagVars, told>>
    OBVIOUS
  <2> HIDE DEF Scratches
  <2>7. work' \in [Fetches -> {"none", "queued", "next", "http", "open", "opened", "assigned", "wait",
                               "scratch", "scratched", "write", "writing", "last", "gone"} \cup Finishing]
    BY <2>1, <2>2
  <2>8. stage' \in [Fetches -> {"profile", "provider", "verdict"}]
    BY <2>1, <2>3
  <2>9. scratch' \in [Fetches -> BOOLEAN] /\ resource' \in [Fetches -> {"none", "open", "closed"}]
    BY <2>1, <2>4, <2>5
  <2>. QED BY <2>6, <2>7, <2>8, <2>9 DEF FetchTypeOK
<1>2. ASSUME NEW g \in Fetches PROVE Locks(g)' /\ Owns(g)'
  BY DEF FetchTypeOK, Locks, Owns, Ended
<1>3. ASSUME NEW g \in Fetches PROVE Ended(g)' /\ Stops(g)'
  BY DEF FetchTypeOK, Locks, Owns, Ended, Stops
<1>4. ASSUME NEW g \in Fetches PROVE Written(g)'
  BY DEF FetchTypeOK, Locks, Owns, Written
<1>. QED BY <1>1, <1>2, <1>3, <1>4

\* and goes if no child is started on it.
LEMMA StartsInv == ASSUME FInv, NEW f \in Fetches, Starts(f) PROVE FInv'
<1> USE FetchesAssumption DEF Starts, Fails, Failing, Deleted, Turns, FInv, tableVars, flagVars, runVars, Finishing
<1>1. FetchTypeOK'
  <2>1. /\ work \in [Fetches -> {"none", "queued", "next", "http", "open", "opened", "assigned", "wait",
                               "scratch", "scratched", "write", "writing", "last", "gone"} \cup Finishing]
        /\ stage \in [Fetches -> {"profile", "provider", "verdict"}] /\ scratch \in [Fetches -> BOOLEAN]
        /\ resource \in [Fetches -> {"none", "open", "closed"}]
    BY DEF FetchTypeOK
  <2>2. \E w \in {"opened", "next", "last"} : work' = [work EXCEPT ![f] = w]
    OBVIOUS
  <2>3. \E s \in {"profile", "provider", "verdict"} : stage' = [stage EXCEPT ![f] = s]
    <3>1. stage' = stage \/ stage' = [stage EXCEPT ![f] = "verdict"] \/ stage' = [stage EXCEPT ![f] = stage[f]]
      OBVIOUS
    <3>. QED BY <2>1, <3>1
  <2>4. scratch' = scratch \/ \E b \in BOOLEAN : scratch' = [scratch EXCEPT ![f] = b]
    OBVIOUS
  <2>5. resource' = resource \/ resource' = [resource EXCEPT ![f] = "none"]
    OBVIOUS
  <2>6. UNCHANGED <<tableVars, caller, canceller, heard, saved, monitor, flagVars, told>>
    OBVIOUS
  <2> HIDE DEF Starts
  <2>7. work' \in [Fetches -> {"none", "queued", "next", "http", "open", "opened", "assigned", "wait",
                               "scratch", "scratched", "write", "writing", "last", "gone"} \cup Finishing]
    BY <2>1, <2>2
  <2>8. stage' \in [Fetches -> {"profile", "provider", "verdict"}]
    BY <2>1, <2>3
  <2>9. scratch' \in [Fetches -> BOOLEAN] /\ resource' \in [Fetches -> {"none", "open", "closed"}]
    BY <2>1, <2>4, <2>5
  <2>. QED BY <2>6, <2>7, <2>8, <2>9 DEF FetchTypeOK
<1>2. ASSUME NEW g \in Fetches PROVE Locks(g)' /\ Owns(g)'
  BY DEF FetchTypeOK, Locks, Owns, Ended
<1>3. ASSUME NEW g \in Fetches PROVE Ended(g)' /\ Stops(g)'
  BY DEF FetchTypeOK, Locks, Owns, Ended, Stops
<1>4. ASSUME NEW g \in Fetches PROVE Written(g)'
  BY DEF FetchTypeOK, Locks, Owns, Written
<1>. QED BY <1>1, <1>2, <1>3, <1>4

\* The stream can be closed from now on.
LEMMA AssignsInv == ASSUME FInv, NEW f \in Fetches, Assigns(f) PROVE FInv'
<1> USE FetchesAssumption DEF Assigns, Turns, FInv, tableVars, flagVars, runVars, Finishing
<1>1. FetchTypeOK'
  BY DEF FetchTypeOK, Ended, Written, Locks
<1>2. ASSUME NEW g \in Fetches PROVE Locks(g)' /\ Owns(g)'
  BY DEF FetchTypeOK, Locks, Owns, Ended
<1>3. ASSUME NEW g \in Fetches PROVE Ended(g)' /\ Stops(g)'
  BY DEF FetchTypeOK, Locks, Owns, Ended, Stops
<1>4. ASSUME NEW g \in Fetches PROVE Written(g)'
  BY DEF FetchTypeOK, Locks, Owns, Written
<1>. QED BY <1>1, <1>2, <1>3, <1>4

\* It is, if the task was cancelled.
LEMMA WaitsInv == ASSUME FInv, NEW f \in Fetches, Waits(f) PROVE FInv'
<1> USE FetchesAssumption DEF Waits, CheckedAgain, Deleted, Fails, Failing, Turns, FInv, tableVars, flagVars, runVars, Finishing
<1>1. FetchTypeOK'
  <2>1. /\ work \in [Fetches -> {"none", "queued", "next", "http", "open", "opened", "assigned", "wait",
                               "scratch", "scratched", "write", "writing", "last", "gone"} \cup Finishing]
        /\ stage \in [Fetches -> {"profile", "provider", "verdict"}] /\ scratch \in [Fetches -> BOOLEAN]
        /\ resource \in [Fetches -> {"none", "open", "closed"}]
    BY DEF FetchTypeOK
  <2>2. \E w \in {"wait", "next", "last"} : work' = [work EXCEPT ![f] = w]
    OBVIOUS
  <2>3. \E s \in {"profile", "provider", "verdict"} : stage' = [stage EXCEPT ![f] = s]
    <3>1. stage' = stage \/ stage' = [stage EXCEPT ![f] = "verdict"] \/ stage' = [stage EXCEPT ![f] = stage[f]]
      OBVIOUS
    <3>. QED BY <2>1, <3>1
  <2>4. scratch' = scratch \/ \E b \in BOOLEAN : scratch' = [scratch EXCEPT ![f] = b]
    OBVIOUS
  <2>5. resource' = resource \/ resource' = [resource EXCEPT ![f] = "none"]
    OBVIOUS
  <2>6. UNCHANGED <<tableVars, caller, canceller, heard, saved, monitor, flagVars, told>>
    OBVIOUS
  <2> HIDE DEF Waits
  <2>7. work' \in [Fetches -> {"none", "queued", "next", "http", "open", "opened", "assigned", "wait",
                               "scratch", "scratched", "write", "writing", "last", "gone"} \cup Finishing]
    BY <2>1, <2>2
  <2>8. stage' \in [Fetches -> {"profile", "provider", "verdict"}]
    BY <2>1, <2>3
  <2>9. scratch' \in [Fetches -> BOOLEAN] /\ resource' \in [Fetches -> {"none", "open", "closed"}]
    BY <2>1, <2>4, <2>5
  <2>. QED BY <2>6, <2>7, <2>8, <2>9 DEF FetchTypeOK
<1>2. ASSUME NEW g \in Fetches PROVE Locks(g)' /\ Owns(g)'
  BY DEF FetchTypeOK, Locks, Owns, Ended
<1>3. ASSUME NEW g \in Fetches PROVE Ended(g)' /\ Stops(g)'
  BY DEF FetchTypeOK, Locks, Owns, Ended, Stops
<1>4. ASSUME NEW g \in Fetches PROVE Written(g)'
  BY DEF FetchTypeOK, Locks, Owns, Written
<1>. QED BY <1>1, <1>2, <1>3, <1>4

\* The stream ends.
LEMMA ComesInv == ASSUME FInv, NEW f \in Fetches, Comes(f) PROVE FInv'
<1> USE FetchesAssumption DEF Comes, Deleted, Obtains, Fails, Failing, Turns, FInv, tableVars, flagVars, runVars, Finishing
<1>1. FetchTypeOK'
  BY DEF FetchTypeOK, Ended, Written, Locks
<1>2. ASSUME NEW g \in Fetches PROVE Locks(g)' /\ Owns(g)'
  BY DEF FetchTypeOK, Locks, Owns, Ended
<1>3. ASSUME NEW g \in Fetches PROVE Ended(g)' /\ Stops(g)'
  BY DEF FetchTypeOK, Locks, Owns, Ended, Stops
<1>4. ASSUME NEW g \in Fetches PROVE Written(g)'
  BY DEF FetchTypeOK, Locks, Owns, Written
<1>. QED BY <1>1, <1>2, <1>3, <1>4

\* cancel() has closed it.
LEMMA BreaksInv == ASSUME FInv, NEW f \in Fetches, Breaks(f) PROVE FInv'
<1> USE FetchesAssumption DEF Breaks, Deleted, Fails, Failing, Turns, FInv, tableVars, flagVars, runVars, Finishing
<1>1. FetchTypeOK'
  BY DEF FetchTypeOK, Ended, Written, Locks
<1>2. ASSUME NEW g \in Fetches PROVE Locks(g)' /\ Owns(g)'
  BY DEF FetchTypeOK, Locks, Owns, Ended
<1>3. ASSUME NEW g \in Fetches PROVE Ended(g)' /\ Stops(g)'
  BY DEF FetchTypeOK, Locks, Owns, Ended, Stops
<1>4. ASSUME NEW g \in Fetches PROVE Written(g)'
  BY DEF FetchTypeOK, Locks, Owns, Written
<1>. QED BY <1>1, <1>2, <1>3, <1>4

\* A task that is not cancelled may write.
LEMMA PermitsInv == ASSUME FInv, NEW f \in Fetches, Permits(f) PROVE FInv'
<1> USE FetchesAssumption DEF Permits, Locked, Fails, Failing, Turns, FInv, tableVars, flagVars, runVars, Finishing
<1>1. FetchTypeOK'
  BY DEF FetchTypeOK, Ended, Written, Locks
<1>2. ASSUME NEW g \in Fetches PROVE Locks(g)' /\ Owns(g)'
  BY DEF FetchTypeOK, Locks, Owns, Ended
<1>3. ASSUME NEW g \in Fetches PROVE Ended(g)' /\ Stops(g)'
  BY DEF FetchTypeOK, Locks, Owns, Ended, Stops
<1>4. ASSUME NEW g \in Fetches PROVE Written(g)'
  BY DEF FetchTypeOK, Locks, Owns, Written
<1>. QED BY <1>1, <1>2, <1>3, <1>4

\* It writes.
LEMMA SavesInv == ASSUME FInv, NEW f \in Fetches, Saves(f) PROVE FInv'
<1> USE FetchesAssumption DEF Saves, Fails, Failing, Turns, FInv, tableVars, flagVars, runVars, Finishing
<1>1. FetchTypeOK'
  BY DEF FetchTypeOK, Ended, Written, Locks
<1>2. ASSUME NEW g \in Fetches PROVE Locks(g)' /\ Owns(g)'
  BY DEF FetchTypeOK, Locks, Owns, Ended
<1>3. ASSUME NEW g \in Fetches PROVE Ended(g)' /\ Stops(g)'
  BY DEF FetchTypeOK, Locks, Owns, Ended, Stops
<1>4. ASSUME NEW g \in Fetches PROVE Written(g)'
  BY DEF FetchTypeOK, Locks, Owns, Written
<1>. QED BY <1>1, <1>2, <1>3, <1>4

\* The worker lets go of everything and completes the task.
LEMMA FinishesInv == ASSUME FInv, NEW f \in Fetches, Finishes(f) PROVE FInv'
<1> USE FetchesAssumption DEF Finishes, Turns, FInv, tableVars, flagVars, runVars, Finishing
<1>1. FetchTypeOK'
  <2>1. CASE completed[f]
    BY <2>1 DEF FetchTypeOK
  <2>2. CASE ~completed[f]
    BY <2>2 DEF FetchTypeOK
  <2>. QED BY <2>1, <2>2
<1>2. ASSUME NEW g \in Fetches PROVE Locks(g)' /\ Owns(g)'
  BY DEF FetchTypeOK, Locks, Owns, Ended
<1>3. ASSUME NEW g \in Fetches PROVE Ended(g)' /\ Stops(g)'
  BY DEF FetchTypeOK, Locks, Owns, Ended, Stops
<1>4. ASSUME NEW g \in Fetches PROVE Written(g)'
  BY DEF FetchTypeOK, Locks, Owns, Written
<1>. QED BY <1>1, <1>2, <1>3, <1>4

\* finish() of a task that ran.
LEMMA RunFinishesInv == ASSUME FInv, NEW f \in Fetches, RunFinishes(f) PROVE FInv'
<1> USE FetchesAssumption DEF RunFinishes, FinishStep, Removes, Ends, Completes, Then, Turns, FInv, tableVars, flagVars, runVars, Finishing
<1>1. FetchTypeOK'
  BY DEF FetchTypeOK, Ended, Written, Locks
<1>2. ASSUME NEW g \in Fetches PROVE Locks(g)' /\ Owns(g)'
  BY DEF FetchTypeOK, Locks, Owns, Ended
<1>3. ASSUME NEW g \in Fetches PROVE Ended(g)' /\ Stops(g)'
  BY DEF FetchTypeOK, Locks, Owns, Ended, Stops
<1>4. ASSUME NEW g \in Fetches PROVE Written(g)'
  BY DEF FetchTypeOK, Locks, Owns, Written
<1>. QED BY <1>1, <1>2, <1>3, <1>4

\* Every step preserves the invariant.
LEMMA NextFInv == ASSUME FInv, [FetchNext]_fetchVars PROVE FInv'
<1>1. CASE UNCHANGED fetchVars
  BY <1>1 DEF fetchVars, tableVars, flagVars, runVars, FInv, FetchTypeOK, Locks, Owns, Ended, Stops, Written
<1>2. ASSUME NEW f \in Fetches, CallStep(f) \/ CancelStep(f) PROVE FInv'
  BY <1>2, PutsInv, BeginsInv, SubmitsInv, CancelEntersInv, FiresInv, CancelClosesInv, CancelFinishesInv
     DEF CallStep, CancelStep
<1>3. ASSUME NEW f \in Fetches, RunStep(f) PROVE FInv'
  BY <1>3, BegunInv, ChoosesInv, ListensInv, InterruptedInv, ScratchesInv, StartsInv, AssignsInv, WaitsInv, BreaksInv, PermitsInv,
     SavesInv, FinishesInv, RunFinishesInv DEF RunStep
<1>4. ASSUME NEW f \in Fetches, Outside(f) PROVE FInv'
  BY <1>4, CancelsInv, AnswersInv, AppOpensInv, ComesInv DEF Outside
<1>. QED
  BY <1>1, <1>2, <1>3, <1>4 DEF FetchNext

\* The inductive invariant holds throughout.
THEOREM FetchInvariant == FetchSpec => []FInv
BY InitFInv, NextFInv, PTL DEF FetchSpec

\* Every variable keeps its type: two files and one answer at most.
THEOREM FetchTyped == FetchSpec => []FetchTypeOK
<1>1. FInv => FetchTypeOK
  BY DEF FInv
<1>. QED BY <1>1, FetchInvariant, PTL

\* A callback completes once, when its worker holds nothing and does nothing.
THEOREM CompletesLast == FetchSpec => []CompletionIsLast
<1>1. FInv => CompletionIsLast
  BY DEF FInv, FetchTypeOK, Locks, Owns, Ended, Finishing, CompletionIsLast
<1>. QED BY <1>1, FetchInvariant, PTL

\* Only Saves writes, and not beside or after a cancel().
LEMMA Unwritten ==
    ASSUME FInv, FetchNext, NEW f \in Fetches, saved'[f] # saved[f] PROVE canceller[f] # "returned"
<1>1. PICK g \in Fetches : CallStep(g) \/ CancelStep(g) \/ RunStep(g) \/ Outside(g)
  BY DEF FetchNext
<1>2. Saves(g)
  BY <1>1 DEF CallStep, Puts, Begins, Submits, CancelStep, CancelEnters, Fires, CancelCloses, CancelFinishes,
       RunStep, Begun, Chooses, Listens, Interrupted, Scratches, Starts, Assigns, Waits, Breaks, Permits,
       Finishes, RunFinishes, Outside, Cancels, Answers, AppOpens, Comes, runVars
<1>3. f = g /\ work[f] = "writing"
  BY <1>2 DEF Saves, FInv, FetchTypeOK
<1>. QED BY <1>3 DEF FInv, Stops

\* Neither the profile nor a provider is written once cancel() has returned.
THEOREM CancelIsFinal == FetchSpec => NoWriteAfterCancel
<1>1. FInv /\ [FetchNext]_fetchVars
      => [\A f \in Fetches : saved'[f] # saved[f] => canceller[f] # "returned"]_fetchVars
  BY Unwritten
<1>. QED BY <1>1, FetchInvariant, PTL DEF FetchSpec, NoWriteAfterCancel

-----------------------------------------------------------------------------
(* A cancel() reaches what its task waits for *)

\* The flag rises before cancel() closes anything; a task that waits has found it
\* down after its stream or child was there for cancel() to see.
Reach(f) ==
    /\ cancelled[f] => canceller[f] \notin {"none", "enter"}
    /\ cancelled[f] /\ work[f] = "wait" => canceller[f] \in {"token", "close"} \/ resource[f] = "closed"

\* A step of one fetch leaves the flag, the places and the stream of another alone.
LEMMA OthersAlone ==
    ASSUME NEW f \in Fetches, NEW g \in Fetches \ {f}, FInv,
           CallStep(f) \/ CancelStep(f) \/ RunStep(f) \/ Outside(f)
    PROVE  /\ cancelled'[g] = cancelled[g] /\ canceller'[g] = canceller[g]
           /\ work'[g] = work[g] /\ resource'[g] = resource[g]
<1> USE DEF FInv, FetchTypeOK, runVars, flagVars
<1>1. CASE CallStep(f)
  BY <1>1 DEF CallStep, Puts, Begins, Submits
<1>2. CASE CancelStep(f)
  BY <1>2 DEF CancelStep, CancelEnters, Fires, CancelCloses, CancelFinishes
<1>3. CASE Begun(f) \/ Chooses(f) \/ Listens(f) \/ Interrupted(f) \/ Assigns(f) \/ Waits(f)
  BY <1>3 DEF Begun, Chooses, Listens, Interrupted, Assigns, Waits, Turns, Fails
<1>3a. CASE Scratches(f) \/ Starts(f) \/ AppOpens(f)
  BY <1>3a DEF Scratches, Starts, AppOpens, Turns, Fails
<1>4. CASE Breaks(f) \/ Permits(f) \/ Saves(f) \/ Finishes(f) \/ RunFinishes(f)
  BY <1>4 DEF Breaks, Permits, Saves, Finishes, RunFinishes, Turns, Fails
<1>5. CASE Cancels(f) \/ Answers(f) \/ Comes(f)
  BY <1>5 DEF Cancels, Answers, Comes, Obtains, Turns, Fails
<1>. QED BY <1>1, <1>2, <1>3, <1>3a, <1>4, <1>5 DEF RunStep, Outside

\* cancel() raises the flag, then closes.
LEMMA CancelKeepsReach ==
    ASSUME FInv, NEW f \in Fetches, Reach(f), CancelStep(f) PROVE Reach(f)'
<1> USE DEF FInv, FetchTypeOK, Reach, runVars, flagVars
<1>1. CASE CancelEnters(f)
  BY <1>1 DEF CancelEnters
<1>2. CASE Fires(f)
  BY <1>2 DEF Fires
<1>3. CASE CancelCloses(f)
  BY <1>3 DEF CancelCloses, Closed, Owns
<1>4. CASE CancelFinishes(f)
  <2>1. canceller[f] \in Finishing /\ ~started[f]
    BY <1>4 DEF CancelFinishes, FinishStep, Removes, Ends, Completes, Finishing, Ended
  <2>2. work[f] # "wait" /\ work' = work /\ cancelled' = cancelled
    BY <1>4, <2>1 DEF CancelFinishes, Owns
  <2>3. canceller'[f] \notin {"none", "enter"}
    BY <1>4, <2>1 DEF CancelFinishes, Then, Finishing
  <2>. QED BY <2>2, <2>3
<1>. QED BY <1>1, <1>2, <1>3, <1>4 DEF CancelStep

\* The task looks at the flag again when cancel() can see what it waits for.
LEMMA WorkKeepsReach ==
    ASSUME FInv, NEW f \in Fetches, Reach(f), CallStep(f) \/ RunStep(f) \/ Outside(f)
    PROVE  Reach(f)'
<1> USE DEF FInv, FetchTypeOK, Reach, runVars, flagVars
<1>1. CASE CallStep(f)
  BY <1>1 DEF CallStep, Puts, Begins, Submits
<1>2. CASE Cancels(f)
  BY <1>2 DEF Cancels
<1>3. CASE Waits(f)
  BY <1>3 DEF Waits, CheckedAgain, Turns, Fails, Failing
<1>4. CASE Begun(f) \/ Chooses(f) \/ Listens(f) \/ Interrupted(f) \/ Assigns(f)
  BY <1>4 DEF Begun, Chooses, Listens, Interrupted, Assigns, Turns, Fails, Failing
<1>5. CASE Breaks(f) \/ Permits(f) \/ Saves(f) \/ Finishes(f)
  BY <1>5 DEF Breaks, Permits, Saves, Finishes, Turns, Fails, Failing
<1>6. CASE RunFinishes(f)
  BY <1>6 DEF RunFinishes, Turns, Then
<1>7. CASE Scratches(f) \/ Starts(f) \/ AppOpens(f)
  BY <1>7 DEF Scratches, Starts, AppOpens, Turns, Fails, Failing
<1>8. CASE Answers(f) \/ Comes(f)
  BY <1>8 DEF Answers, Comes, Obtains, Turns, Fails, Failing
<1>. QED BY <1>1, <1>2, <1>3, <1>4, <1>5, <1>6, <1>7, <1>8 DEF RunStep, Outside

\* Once cancel() has returned, its task reads from nothing that need not come.
THEOREM CancelIsNotMissed == FetchSpec => []CancelReaches
<1> DEFINE Reached == \A f \in Fetches : Reach(f)
<1>1. FetchInit => Reached
  BY DEF FetchInit, Reach
<1>2. FInv /\ Reached /\ [FetchNext]_fetchVars => Reached'
  <2> SUFFICES ASSUME FInv, Reached, [FetchNext]_fetchVars, NEW g \in Fetches PROVE Reach(g)'
    OBVIOUS
  <2>1. CASE UNCHANGED fetchVars
    BY <2>1 DEF fetchVars, runVars, flagVars, Reach
  <2>2. CASE FetchNext
    <3>1. PICK f \in Fetches : CallStep(f) \/ CancelStep(f) \/ RunStep(f) \/ Outside(f)
      BY <2>2 DEF FetchNext
    <3>2. CASE g = f
      BY <3>1, <3>2, CancelKeepsReach, WorkKeepsReach
    <3>3. CASE g # f
      BY <3>1, <3>3, OthersAlone DEF Reach
    <3>. QED BY <3>2, <3>3
  <2>. QED BY <2>1, <2>2
<1>3. FInv /\ Reached => CancelReaches
  BY DEF FInv, FetchTypeOK, Reach, Stops, Ended, Finishing, CancelReaches, Owns
<1> HIDE DEF Reached
<1>. QED BY <1>1, <1>2, <1>3, FetchInvariant, PTL DEF FetchSpec
=============================================================================
