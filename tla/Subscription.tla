---------------------------- MODULE Subscription ----------------------------
(***************************************************************************)
(* Fetches of one task ID: Subscription.java, whose tasks run on threads   *)
(* of their own, and the cancellation tokens that compat.rs keeps for      *)
(* them.  A task downloads the profile, then perhaps a provider, has a     *)
(* child process validate the result, of which it writes a scratch file,   *)
(* and writes the profile.                                                 *)
(*                                                                         *)
(* Abstracted: what is downloaded, the progress reports, a scratch file    *)
(* that cannot be deleted, and the interruption of a worker's thread,      *)
(* which comes on top of `cancelled` and of what cancel() closes.  The     *)
(* answer of a server, a content provider or a child comes at any time,    *)
(* or never.                                                               *)
(***************************************************************************)
EXTENDS Naturals

CONSTANTS
    Fetches,    \* calls of fetch() with the same ID, each with its Task
    Nobody

ASSUME FetchesAssumption == Nobody \notin Fetches

VARIABLES
    task,       \* Subscription.TASKS for the ID
    token,      \* FETCHES for the ID: whose entry it is
    fired,      \* whose token was sent true
    caller,     \* where each fetch() is
    canceller,  \* where the cancel() of each task is
    work,       \* where each run() is
    stage,      \* what it obtains: the profile, a provider, the verdict
    heard,      \* whose token its request listens to
    resource,   \* its stream, or its child and the child's stream
    monitor,    \* who is inside the task's monitor
    cancelled,
    started,
    completed,
    saved,      \* provider and profile files the task has written
    scratch,    \* the file validate() hands to the child is there
    told        \* how often its callback completed

tableVars == <<task, token, fired>>
flagVars == <<cancelled, started, completed>>
runVars == <<work, stage, heard, resource, saved, scratch>>
fetchVars == <<tableVars, caller, canceller, runVars, monitor, flagVars, told>>

Finishing == {"remove", "end", "complete"}

FetchTypeOK ==
    /\ task \in Fetches \cup {Nobody} /\ token \in Fetches \cup {Nobody} /\ fired \subseteq Fetches
    /\ caller \in [Fetches -> {"idle", "begin", "submit", "returned", "thrown"}]
    /\ canceller \in [Fetches -> {"none", "enter", "token", "close", "returned"} \cup Finishing]
    /\ work \in [Fetches -> {"none", "queued", "next", "http", "open", "opened", "assigned", "wait",
                             "scratch", "scratched", "write", "writing", "last", "gone"} \cup Finishing]
    /\ stage \in [Fetches -> {"profile", "provider", "verdict"}]
    /\ heard \in [Fetches -> Fetches \cup {Nobody}]
    /\ resource \in [Fetches -> {"none", "open", "closed"}]
    /\ monitor \in [Fetches -> {"free", "cancel", "run"}]
    /\ cancelled \in [Fetches -> BOOLEAN] /\ started \in [Fetches -> BOOLEAN]
    /\ completed \in [Fetches -> BOOLEAN]
    /\ saved \in [Fetches -> 0 .. 2] /\ told \in [Fetches -> 0 .. 2]
    /\ scratch \in [Fetches -> BOOLEAN]

FetchInit ==
    /\ task = Nobody /\ token = Nobody /\ fired = {}
    /\ caller = [f \in Fetches |-> "idle"]
    /\ canceller = [f \in Fetches |-> "none"]
    /\ work = [f \in Fetches |-> "none"] /\ stage = [f \in Fetches |-> "profile"]
    /\ heard = [f \in Fetches |-> Nobody] /\ resource = [f \in Fetches |-> "none"]
    /\ saved = [f \in Fetches |-> 0] /\ scratch = [f \in Fetches |-> FALSE]
    /\ monitor = [f \in Fetches |-> "free"]
    /\ cancelled = [f \in Fetches |-> FALSE] /\ started = [f \in Fetches |-> FALSE]
    /\ completed = [f \in Fetches |-> FALSE] /\ told = [f \in Fetches |-> 0]

-----------------------------------------------------------------------------
(* fetch() *)

Puts(f) ==
    /\ caller[f] = "idle"
    /\ IF task = Nobody
       THEN task' = f /\ caller' = [caller EXCEPT ![f] = "begin"]
       ELSE caller' = [caller EXCEPT ![f] = "thrown"] /\ UNCHANGED task
    /\ UNCHANGED <<token, fired, canceller, runVars, monitor, flagVars, told>>

\* "beginFetch" refuses an ID that has a token.
Begins(f) ==
    /\ caller[f] = "begin"
    /\ IF token = Nobody
       THEN token' = f /\ caller' = [caller EXCEPT ![f] = "submit"] /\ UNCHANGED task
       ELSE /\ task' = (IF task = f THEN Nobody ELSE task)
            /\ caller' = [caller EXCEPT ![f] = "thrown"] /\ UNCHANGED token
    /\ UNCHANGED <<fired, canceller, runVars, monitor, flagVars, told>>

Submits(f) ==
    /\ caller[f] = "submit"
    /\ caller' = [caller EXCEPT ![f] = "returned"]
    /\ work' = [work EXCEPT ![f] = "queued"]
    /\ UNCHANGED <<tableVars, canceller, stage, heard, resource, saved, scratch, monitor, flagVars, told>>

-----------------------------------------------------------------------------
(* finish(), inside the monitor of the task: who is `actor[f]` runs it *)

Removes(f, actor) ==
    /\ actor[f] = "remove"
    /\ task' = IF task = f THEN Nobody ELSE task
    /\ UNCHANGED <<token, fired, monitor, told>>

\* "endFetch" removes the ID's token, whoever put it there.
Ends(f, actor) ==
    /\ actor[f] = "end"
    /\ token' = Nobody
    /\ UNCHANGED <<task, fired, monitor, told>>

Completes(f, actor) ==
    /\ actor[f] = "complete"
    /\ told' = [told EXCEPT ![f] = @ + 1]
    /\ monitor' = [monitor EXCEPT ![f] = "free"]
    /\ UNCHANGED tableVars

Then(place, last) == IF place = "remove" THEN "end" ELSE IF place = "end" THEN "complete" ELSE last

FinishStep(f, actor) == Removes(f, actor) \/ Ends(f, actor) \/ Completes(f, actor)

-----------------------------------------------------------------------------
(* cancel() *)

\* The task is looked up first, and entered later.
Cancels(f) ==
    /\ canceller[f] = "none" /\ task = f
    /\ canceller' = [canceller EXCEPT ![f] = "enter"]
    /\ UNCHANGED <<tableVars, caller, runVars, monitor, flagVars, told>>

CancelEnters(f) ==
    /\ canceller[f] = "enter" /\ monitor[f] = "free"
    /\ IF completed[f]
       THEN canceller' = [canceller EXCEPT ![f] = "returned"] /\ UNCHANGED <<monitor, cancelled>>
       ELSE /\ canceller' = [canceller EXCEPT ![f] = "token"]
            /\ monitor' = [monitor EXCEPT ![f] = "cancel"]
            /\ cancelled' = [cancelled EXCEPT ![f] = TRUE]
    /\ UNCHANGED <<tableVars, caller, runVars, started, completed, told>>

\* "cancelFetch" keeps the request in the token: a later listener sees it too.
Fires(f) ==
    /\ canceller[f] = "token"
    /\ fired' = IF token = Nobody THEN fired ELSE fired \cup {token}
    /\ canceller' = [canceller EXCEPT ![f] = "close"]
    /\ UNCHANGED <<task, token, caller, runVars, monitor, flagVars, told>>

\* Mutant: cancel() completes a running task as well.
Always(f) == TRUE

\* Only a task whose worker has not begun is completed here.
Unstarted(f) == ~started[f]

Closed(f) == IF resource[f] = "open" THEN "closed" ELSE resource[f]

CancelCloses(f) ==
    /\ canceller[f] = "close"
    /\ resource' = [resource EXCEPT ![f] = Closed(f)]
    /\ IF Unstarted(f)
       THEN /\ completed' = [completed EXCEPT ![f] = TRUE]
            /\ canceller' = [canceller EXCEPT ![f] = "remove"] /\ UNCHANGED monitor
       ELSE /\ canceller' = [canceller EXCEPT ![f] = "returned"]
            /\ monitor' = [monitor EXCEPT ![f] = "free"] /\ UNCHANGED completed
    /\ UNCHANGED <<tableVars, caller, work, stage, heard, saved, scratch, cancelled, started, told>>

CancelFinishes(f) ==
    /\ FinishStep(f, canceller)
    /\ canceller' = [canceller EXCEPT ![f] = Then(@, "returned")]
    /\ UNCHANGED <<caller, runVars, flagVars>>

-----------------------------------------------------------------------------
(* run() *)

Turns(f, place) == work' = [work EXCEPT ![f] = place]

\* What a failure leads to: a provider that cannot be fetched is left out, unless
\* check() says that the task is cancelled.
Failing(f) == IF stage[f] = "provider" /\ ~cancelled[f] THEN "next" ELSE "last"
Fails(f) ==
    /\ Turns(f, Failing(f))
    /\ stage' = [stage EXCEPT ![f] = IF Failing(f) = "next" THEN "verdict" ELSE @]

Begun(f) ==
    /\ work[f] = "queued" /\ monitor[f] = "free"
    /\ IF completed[f]
       THEN Turns(f, "gone") /\ UNCHANGED started
       ELSE Turns(f, "next") /\ started' = [started EXCEPT ![f] = TRUE]
    /\ UNCHANGED <<tableVars, caller, canceller, stage, heard, resource, saved, scratch, monitor, cancelled, completed, told>>

\* check(), and where the next thing comes from: the profile that is there, a
\* server, a content provider or a file, or, to validate the result, a child.
Chooses(f) ==
    /\ work[f] = "next"
    /\ \/ cancelled[f] /\ Fails(f)
       \/ ~cancelled[f] /\ stage[f] # "verdict" /\ UNCHANGED stage /\ (Turns(f, "http") \/ Turns(f, "open"))
       \/ ~cancelled[f] /\ stage[f] = "verdict" /\ UNCHANGED stage /\ Turns(f, "scratch")
       \/ ~cancelled[f] /\ stage[f] = "profile" /\ stage' = [stage EXCEPT ![f] = "provider"] /\ UNCHANGED work
       \/ ~cancelled[f] /\ stage[f] = "provider" /\ stage' = [stage EXCEPT ![f] = "verdict"] /\ UNCHANGED work
       \/ ~cancelled[f] /\ Fails(f)
    /\ UNCHANGED <<tableVars, caller, canceller, heard, resource, saved, scratch, monitor, flagVars, told>>

\* The ID's token, if there is one, is subscribed to.
Listens(f) ==
    /\ work[f] = "http" /\ heard[f] = Nobody
    /\ IF token = Nobody
       THEN Fails(f) /\ UNCHANGED heard
       ELSE heard' = [heard EXCEPT ![f] = token] /\ UNCHANGED <<work, stage>>
    /\ UNCHANGED <<tableVars, caller, canceller, resource, saved, scratch, monitor, flagVars, told>>

\* What the worker obtained is written, or is the profile and kept for later.
Obtains(f) ==
    IF stage[f] = "profile"
    THEN Turns(f, "next") /\ stage' = [stage EXCEPT ![f] = "provider"]
    ELSE Turns(f, "write") /\ UNCHANGED stage

\* fetch() answers or fails, or 60 seconds pass.
Answers(f) ==
    /\ work[f] = "http" /\ heard[f] # Nobody
    /\ heard' = [heard EXCEPT ![f] = Nobody]
    /\ Obtains(f) \/ Fails(f)
    /\ UNCHANGED <<tableVars, caller, canceller, resource, saved, scratch, monitor, flagVars, told>>

\* The token was sent true, or dropped with its sender.
Interrupted(f) ==
    /\ work[f] = "http" /\ heard[f] # Nobody
    /\ heard[f] \in fired \/ token # heard[f]
    /\ heard' = [heard EXCEPT ![f] = Nobody]
    /\ Fails(f)
    /\ UNCHANGED <<tableVars, caller, canceller, resource, saved, scratch, monitor, flagVars, told>>

\* openContent() is the app's, which may keep the worker: cancel() has no stream
\* to close yet.
AppOpens(f) ==
    /\ work[f] = "open"
    /\ \/ Turns(f, "opened") /\ UNCHANGED stage
       \/ Fails(f)
    /\ UNCHANGED <<tableVars, caller, canceller, heard, resource, saved, scratch, monitor, flagVars, told>>

\* validate() writes its scratch file outside the monitor: cancel() may have
\* returned by then.
Scratches(f) ==
    /\ work[f] = "scratch"
    /\ \/ Turns(f, "scratched") /\ scratch' = [scratch EXCEPT ![f] = TRUE] /\ UNCHANGED stage
       \/ Fails(f) /\ UNCHANGED scratch
    /\ UNCHANGED <<tableVars, caller, canceller, heard, resource, saved, monitor, flagVars, told>>

\* Every way out of validate() deletes it.
Deleted(f) == scratch' = [scratch EXCEPT ![f] = FALSE]

\* check(), then the launcher is started on it.
Starts(f) ==
    /\ work[f] = "scratched"
    /\ \/ ~cancelled[f] /\ Turns(f, "opened") /\ UNCHANGED <<stage, scratch>>
       \/ Fails(f) /\ Deleted(f)
    /\ UNCHANGED <<tableVars, caller, canceller, heard, resource, saved, monitor, flagVars, told>>

\* A stream or child is there before cancel() can see it, hence the check() that
\* follows its assignment.
Assigns(f) ==
    /\ work[f] = "opened"
    /\ Turns(f, "assigned")
    /\ resource' = [resource EXCEPT ![f] = "open"]
    /\ UNCHANGED <<tableVars, caller, canceller, stage, heard, saved, scratch, monitor, flagVars, told>>

\* Mutant: there is no such check.
NoCheck(f) == FALSE

CheckedAgain(f) == cancelled[f]

Waits(f) ==
    /\ work[f] = "assigned"
    /\ IF CheckedAgain(f)
       THEN Fails(f) /\ resource' = [resource EXCEPT ![f] = "none"] /\ Deleted(f)
       ELSE Turns(f, "wait") /\ UNCHANGED <<stage, resource, scratch>>
    /\ UNCHANGED <<tableVars, caller, canceller, heard, saved, monitor, flagVars, told>>

\* The stream ends or fails; the child, its output and its verdict.
Comes(f) ==
    /\ work[f] = "wait"
    /\ resource' = [resource EXCEPT ![f] = "none"] /\ Deleted(f)
    /\ Obtains(f) \/ Fails(f)
    /\ UNCHANGED <<tableVars, caller, canceller, heard, saved, monitor, flagVars, told>>

\* Closed by cancel().
Breaks(f) ==
    /\ work[f] = "wait" /\ resource[f] = "closed"
    /\ resource' = [resource EXCEPT ![f] = "none"] /\ Deleted(f)
    /\ Fails(f)
    /\ UNCHANGED <<tableVars, caller, canceller, heard, saved, monitor, flagVars, told>>

\* Mutant: the file is written outside the monitor.
Unlocked(f) == monitor

Locked(f) == [monitor EXCEPT ![f] = "run"]

\* The check() inside the monitor, the write, and out of it.
Permits(f) ==
    /\ work[f] = "write" /\ monitor[f] = "free"
    /\ IF cancelled[f]
       THEN Fails(f) /\ UNCHANGED monitor
       ELSE Turns(f, "writing") /\ monitor' = Locked(f) /\ UNCHANGED stage
    /\ UNCHANGED <<tableVars, caller, canceller, heard, resource, saved, scratch, flagVars, told>>

\* The provider's file, or at last the profile; a failed write leaves no file.
Saves(f) ==
    /\ work[f] = "writing"
    /\ \/ /\ saved' = [saved EXCEPT ![f] = @ + 1]
          /\ Turns(f, IF stage[f] = "provider" THEN "next" ELSE "last")
          /\ stage' = [stage EXCEPT ![f] = "verdict"]
       \/ Fails(f) /\ UNCHANGED saved
    /\ monitor' = [monitor EXCEPT ![f] = IF @ = "run" THEN "free" ELSE @]
    /\ UNCHANGED <<tableVars, caller, canceller, heard, resource, scratch, flagVars, told>>

\* The finally block closes what is left and calls finish(), which lets one
\* caller in.
Finishes(f) ==
    /\ work[f] = "last" /\ monitor[f] = "free"
    /\ resource' = [resource EXCEPT ![f] = "none"]
    /\ IF completed[f]
       THEN Turns(f, "gone") /\ UNCHANGED <<monitor, completed>>
       ELSE /\ Turns(f, "remove") /\ monitor' = [monitor EXCEPT ![f] = "run"]
            /\ completed' = [completed EXCEPT ![f] = TRUE]
    /\ UNCHANGED <<tableVars, caller, canceller, stage, heard, saved, scratch, cancelled, started, told>>

RunFinishes(f) ==
    /\ FinishStep(f, work)
    /\ Turns(f, Then(work[f], "gone"))
    /\ UNCHANGED <<caller, canceller, stage, heard, resource, saved, scratch, flagVars>>

-----------------------------------------------------------------------------

CallStep(f) == Puts(f) \/ Begins(f) \/ Submits(f)
CancelStep(f) == CancelEnters(f) \/ Fires(f) \/ CancelCloses(f) \/ CancelFinishes(f)
RunStep(f) ==
    \/ Begun(f) \/ Chooses(f) \/ Listens(f) \/ Interrupted(f) \/ Scratches(f) \/ Starts(f) \/ Assigns(f)
    \/ Waits(f) \/ Breaks(f)
    \/ Permits(f) \/ Saves(f) \/ Finishes(f) \/ RunFinishes(f)
Outside(f) == Cancels(f) \/ Answers(f) \/ AppOpens(f) \/ Comes(f)

FetchNext == \E f \in Fetches : CallStep(f) \/ CancelStep(f) \/ RunStep(f) \/ Outside(f)

\* Threads run, and a request ends within its 60 seconds; a content provider need
\* neither open its stream nor fill it, a child need not answer, nor need anybody
\* cancel.
FetchFairness ==
    \A f \in Fetches :
        /\ WF_fetchVars(CallStep(f)) /\ WF_fetchVars(CancelStep(f))
        /\ WF_fetchVars(RunStep(f)) /\ WF_fetchVars(Answers(f))

FetchSpec == FetchInit /\ [][FetchNext]_fetchVars /\ FetchFairness

-----------------------------------------------------------------------------
(* Properties *)

\* Once cancel() has returned, its task writes neither a provider's file nor the
\* profile any more.  NOT so of the scratch file of validate(): see the README.
NoWriteAfterCancel ==
    [][\A f \in Fetches : saved'[f] # saved[f] => canceller[f] # "returned"]_fetchVars

\* A callback completes once, and then the worker has released its stream or child,
\* left no scratch file, and does nothing any more.
CompletionIsLast ==
    \A f \in Fetches : told[f] > 0 =>
        told[f] = 1 /\ resource[f] = "none" /\ ~scratch[f] /\ work[f] \in {"none", "queued", "gone"}

\* Once cancel() has returned, its task no longer reads from a stream or a child
\* that may never answer: what it reads from is closed, whether cancel() came
\* before the thing was there, before the task held it, or while it waited.
CancelReaches ==
    \A f \in Fetches : canceller[f] = "returned" /\ work[f] = "wait" => resource[f] = "closed"

\* A cancelled task completes though no stream or child answers, unless the app
\* keeps its worker inside openContent(), where cancel() has nothing to close.
CancelEnds ==
    \A f \in Fetches : []<>(work[f] # "open") => (cancelled[f] ~> told[f] = 1)

\* "A task owns its HTTP cancellation token": none outlives its task.
TokenOwned == token # Nobody => told[token] = 0
=============================================================================
