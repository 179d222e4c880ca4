-------------------------------- MODULE Activity --------------------------------
(***************************************************************************)
(* One call of an activity (packages activity and workflow): the function  *)
(* the workflow calls, the attempts Temporal makes at it on a worker, the  *)
(* failure an attempt ends with turned into Temporal's and back, and the   *)
(* decoder makeWorkflowActivities puts around it.  An implementation may   *)
(* be wrapped in validate.                                                 *)
(*                                                                         *)
(* Temporal is external: it retries a failure that may be retried, and     *)
(* ends the call when its schedule-to-close timeout runs out, which is     *)
(* then the failure, or with the last failure when no time is left for     *)
(* another attempt.  An attempt it has given up on may go on running, and  *)
(* its answer is refused.                                                  *)
(***************************************************************************)
EXTENDS Naturals

CONSTANTS
  MaximumAttempts,  \* of the retry policy
  Errors            \* errors implementations fail with, by what the code asks of them

Error ==
  [tagged : BOOLEAN,   \* it has a _tag
   error  : BOOLEAN,   \* it is an instance of Error
   json   : BOOLEAN,   \* it has a toJSON
   final  : BOOLEAN,   \* its nonRetryable is true
   schema : {"class", "struct", "none"}]  \* what the activity's schema has for it

\* What a schema's decoder fails with.
ParseError ==
  [tagged |-> TRUE, error |-> TRUE, json |-> TRUE, final |-> FALSE, schema |-> "none"]

ASSUME ActivityAssumption == MaximumAttempts \in Nat \ {0} /\ Errors \subseteq Error

Attempts == 1..MaximumAttempts

\* How the effect of an implementation ends.  A defect and a failure made of several
\* have no error of their own; an ApplicationFailure is thrown past the runtime.
Exit ==
  [as : {"value"}, fits : BOOLEAN] \cup [as : {"fail"}, error : Errors \cup {ParseError}]
    \cup [as : {"defect", "several"}] \cup [as : {"ApplicationFailure"}, final : BOOLEAN]

NoExit == [as |-> "none"]
Failed(error) == [as |-> "fail", error |-> error]

VARIABLES
  call,      \* the call: how it was made, its input, and where it is
  started,   \* number of attempts started
  executing, \* attempts whose implementation runs
  checked,   \* the implementation is wrapped in validate
  exits,     \* exits[n]: how attempt n ended, validated if it is
  heard,     \* attempts whose answer Temporal took
  seen       \* what the workflow's effect ended with

callVars == <<checked, call, started, executing, exits, heard, seen>>

-----------------------------------------------------------------------------
(* The worker's side *)

\* validateError: an error that is no class of the schema's comes out as plain data,
\* and one the schema does not have as the decoder's own error.
ValidateError(error) ==
  IF error.schema = "none" THEN ParseError
  ELSE [error EXCEPT !.error = @ /\ error.schema = "class"]

\* validate: what an implementation's exit may become.  Of several failures it keeps
\* the first, unless one is a defect, and what is thrown past it is a defect.
Validated(exit) ==
  CASE exit.as = "value"   -> {IF exit.fits THEN exit ELSE Failed(ParseError)}
    [] exit.as = "fail"    -> {Failed(ValidateError(exit.error))}
    [] exit.as = "several" -> {Failed(ValidateError(e)) : e \in Errors} \cup {[as |-> "defect"]}
    [] OTHER               -> {[as |-> "defect"]}

\* How an attempt may end.  Input that does not fit keeps the implementation from
\* being called.
Exits == IF ~checked THEN Exit
         ELSE IF call.fits THEN UNION {Validated(exit) : exit \in Exit}
         ELSE {Failed(ParseError)}

\* getFailure: what the rejected promise is taken for.  TypedError gives plain data
\* a toJSON; anything else is an UnknownException, which has one.
Unknown == [known |-> FALSE, json |-> TRUE, final |-> FALSE]

GetFailure(exit) ==
  IF exit.as = "fail" /\ exit.error.tagged
  THEN [known |-> TRUE,
        json  |-> exit.error.error => exit.error.json,
        final |-> exit.error.final]
  ELSE Unknown

\* Wrong on purpose: the flag is not passed on.
ForgetsFinal(f) == [detail |-> IF f.known THEN "own" ELSE "unknown", final |-> FALSE]

\* toApplicationFailure: calling a toJSON that is not there throws a TypeError.
ToApplicationFailure(f) ==
  IF f.json THEN [detail |-> IF f.known THEN "own" ELSE "unknown", final |-> f.final]
  ELSE [detail |-> "none", final |-> FALSE]

\* makeActivities: what the promise of an activity is rejected with.
Thrown(exit) ==
  IF exit.as = "ApplicationFailure" THEN [detail |-> "none", final |-> exit.final]
  ELSE ToApplicationFailure(GetFailure(exit))

-----------------------------------------------------------------------------
(* The workflow's side *)

\* Wrong on purpose: details are looked for on the ActivityFailure.
LooksTooHigh(n, failure) == [as |-> "UnknownException", by |-> 0]

\* toInvokeActivity's mapError: the first of the details, if the cause of the
\* failure has any.
MapError(n, failure) ==
  IF failure.detail = "none" THEN [as |-> "UnknownException", by |-> 0]
  ELSE [as |-> "error", by |-> n]

\* addGroupDecoder's onFailure is given a Cause.  That is no error of the schema's,
\* and unless it is decoded to itself the effect fails with it.
OnFailure(result) == [as |-> "Cause", of |-> result]

OnSuccess(n) == IF exits'[n].fits THEN [as |-> "value", by |-> n]
                ELSE [as |-> "BadOutput", by |-> n]

Fails(result) ==
  seen' = IF call.via = "makeWorkflowActivities" THEN OnFailure(result) ELSE result

Succeeds(n) ==
  seen' = IF call.via = "makeWorkflowActivities" THEN OnSuccess(n)
          ELSE [as |-> "value", by |-> n]

\* The workflow calls the function it was given.
Call(via, fits) ==
  /\ call.at = "idle"
  /\ IF via = "makeWorkflowActivities" /\ ~fits
     THEN /\ call' = [at |-> "closed", via |-> via, fits |-> fits]
          /\ seen' = OnFailure([as |-> "BadInput", by |-> 0])
     ELSE /\ call' = [at |-> "scheduled", via |-> via, fits |-> fits]
          /\ UNCHANGED seen
  /\ UNCHANGED <<checked, started, executing, exits, heard>>

-----------------------------------------------------------------------------
(* Temporal *)

MayRetry == started < MaximumAttempts

Start ==
  /\ call.at = "scheduled"
  /\ MayRetry
  /\ started' = started + 1
  /\ executing' = executing \cup {started'}
  /\ call' = [call EXCEPT !.at = "started"]
  /\ UNCHANGED <<checked, exits, heard, seen>>

\* An attempt ends.  Its answer counts when it is that of the attempt
\* Temporal waits for.
Ends(n, exit) ==
  /\ n \in executing
  /\ executing' = executing \ {n}
  /\ exits' = [exits EXCEPT ![n] = exit]
  /\ IF call.at = "started" /\ n = started
     THEN /\ heard' = heard \cup {n}
          /\ IF exit.as = "value"
             THEN call' = [call EXCEPT !.at = "closed"] /\ Succeeds(n)
             ELSE \/ /\ ~Thrown(exit).final
                     /\ MayRetry
                     /\ call' = [call EXCEPT !.at = "scheduled"]
                     /\ UNCHANGED seen
                  \* ... or no time is left for another attempt.
                  \/ /\ call' = [call EXCEPT !.at = "closed"]
                     /\ Fails(MapError(n, Thrown(exit)))
     ELSE UNCHANGED <<call, heard, seen>>
  /\ UNCHANGED <<checked, started>>

\* The worker is lost, or the answer, and Temporal gives the attempt up.
GivesUp ==
  /\ call.at = "started"
  /\ MayRetry
  /\ call' = [call EXCEPT !.at = "scheduled"]
  /\ UNCHANGED <<checked, started, executing, exits, heard, seen>>

Crash(n) ==
  /\ n \in executing
  /\ executing' = executing \ {n}
  /\ UNCHANGED <<checked, call, started, exits, heard, seen>>

\* scheduleToCloseTimeout.  A TimeoutFailure has no details.
TimesOut ==
  /\ call.at \in {"scheduled", "started"}
  /\ call' = [call EXCEPT !.at = "closed"]
  /\ Fails(MapError(started, [detail |-> "none", final |-> TRUE]))
  /\ UNCHANGED <<checked, started, executing, exits, heard>>

-----------------------------------------------------------------------------
Vias == {"mapGroupToScheduleActivities", "makeWorkflowActivities"}
None == [as |-> "none"]

CallInit ==
  /\ checked \in BOOLEAN
  /\ call = [at |-> "idle", via |-> "mapGroupToScheduleActivities", fits |-> TRUE]
  /\ started = 0
  /\ executing = {}
  /\ exits = [n \in Attempts |-> NoExit]
  /\ heard = {}
  /\ seen = None

CallNext ==
  \/ \E via \in Vias, fits \in BOOLEAN : Call(via, fits)
  \/ Start
  \/ \E n \in Attempts : Crash(n) \/ \E exit \in Exits : Ends(n, exit)
  \/ GivesUp
  \/ TimesOut

CallSpec == CallInit /\ [][CallNext]_callVars

-----------------------------------------------------------------------------
(* Properties *)

Plain == [as : {"value", "error", "BadInput", "BadOutput", "UnknownException"},
          by : Attempts \cup {0}]

CallTypeOK ==
  /\ checked \in BOOLEAN
  /\ call \in [at : {"idle", "scheduled", "started", "closed"}, via : Vias, fits : BOOLEAN]
  /\ started \in 0..MaximumAttempts
  /\ executing \subseteq 1..started
  /\ exits \in [Attempts -> UNION {{e, NoExit} \cup Validated(e) : e \in Exit}]
  /\ heard \subseteq 1..started
  /\ seen \in Plain \cup {None} \cup [as : {"Cause"}, of : Plain]

\* An error of its own that an implementation fails with alone, and can be told.
Told(exit) ==
  exit.as = "fail" /\ exit.error.tagged /\ (exit.error.error => exit.error.json)

\* An error that says it is not to be retried is not: once Temporal has heard of
\* it no further attempt is made, whatever attempts it had given up on before.
FinalIsFinal ==
  \A n \in heard : Told(exits[n]) /\ exits[n].error.final => started = n

\* What the workflow is shown is the error or the value of the last attempt, and of
\* none it had given up on: the error, if a Cause around it, is the one that attempt
\* failed with, and it is shown when that attempt's failure was heard and ended the
\* call.
Inner == IF seen.as = "Cause" THEN seen.of ELSE seen

ShowsTheLastAttempt ==
  /\ Inner.as \in {"error", "value", "BadOutput"} =>
       /\ Inner.by = started
       /\ Inner.by \in heard
       /\ (Inner.as = "error") = (exits[started].as # "value")
  /\ call.at = "closed" /\ started \in heard =>
       /\ Told(exits[started]) => Inner.as \in {"error", "UnknownException"}
       /\ Told(exits[started]) /\ exits[started].error.final => Inner.as = "error"

\* "all inputs to the function and the success and error values it returns are
\* checked at runtime according to the provided schema": an error comes out of the
\* decoder as the error it is.
ErrorsAreErrors == seen.as # "Cause"

=============================================================================
