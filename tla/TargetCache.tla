---------------------------- MODULE TargetCache ----------------------------
(***************************************************************************)
(* The cache of scrape targets of targets/cache.go.  Two goroutines        *)
(* refresh it from Prometheus: Run every three minutes, and Get, called by *)
(* the reader, when it meets a job and instance for the first time.  The   *)
(* request of a refresh is made without the lock, so the answer to one may *)
(* be applied after the answer to a later one.                             *)
(***************************************************************************)
EXTENDS FiniteSets

CONSTANTS Keys,    \* job and instance combinations
          Targets, \* the targets there may be: a key and the value of an
                   \* additional label, or None, and the names of the labels
                   \* it was discovered with
          None

ASSUME TargetAssumption ==
    /\ \A t \in Targets : t[1] \in Keys
    /\ \A T \in SUBSET Targets : T # None

VARIABLES
    active,    \* Prometheus (external): the active targets
    reachable, \* whether its API answers
    targets,   \* c.targets: for each key None, or the targets; {} is a nil entry
    response,  \* the answer a refresh of each goroutine has yet to apply
    getter     \* where Get is

targetVars == <<targets, response, getter>>
promVars == <<active, reachable>>

Refreshers == {"run", "get"}

Labels(t) == <<t[1], t[2]>>

\* Prometheus has one target for given labels.
Distinct(T) == \A t, u \in T : Labels(t) = Labels(u) => t = u

TargetInit ==
    /\ active \in {T \in SUBSET Targets : Distinct(T)} /\ reachable \in BOOLEAN
    /\ targets = [k \in Keys |-> None]
    /\ response = [w \in Refreshers |-> None] /\ getter = "idle"

\* Prometheus: targets come and go or are discovered with other labels, the
\* API is out of reach and back again.
TargetChange(t) ==
    /\ active' = IF t \in active THEN active \ {t}
                 ELSE {u \in active : Labels(u) # Labels(t)} \cup {t}
    /\ UNCHANGED <<reachable, targetVars>>

ReachableChange ==
    /\ reachable' = ~reachable /\ UNCHANGED <<active, targetVars>>

-----------------------------------------------------------------------------
(* refresh, and Run that calls it *)

\* The target of an answer that the map keeps: the one it has already, if that
\* has the same Labels, whatever it was discovered with.
Kept(t) ==
    LET same == IF targets[t[1]] = None THEN {}
                ELSE {p \in targets[t[1]] : Labels(p) = Labels(t)}
    IN IF same = {} THEN t ELSE CHOOSE p \in same : TRUE

FoundIn(answer, k) == {Kept(t) : t \in {u \in answer : u[1] = k}}

\* Mutant: the negative entries are forgotten.
RefreshedForgets(answer) ==
    [k \in Keys |-> IF FoundIn(answer, k) = {} THEN None ELSE FoundIn(answer, k)]

\* Mutant: they are carried over whether found or not.
RefreshedKeepsNegative(answer) ==
    [k \in Keys |-> IF targets[k] = {} THEN {}
                    ELSE IF FoundIn(answer, k) = {} THEN None ELSE FoundIn(answer, k)]

\* The map after an answer.  Negative entries are carried over unless found.
Refreshed(answer) ==
    [k \in Keys |-> IF FoundIn(answer, k) = {} /\ targets[k] # {} THEN None
                    ELSE FoundIn(answer, k)]

\* A request that fails changes nothing: Run logs it and waits for the next
\* tick.
RunRequest ==
    /\ response["run"] = None /\ reachable
    /\ response' = [response EXCEPT !["run"] = active]
    /\ UNCHANGED <<promVars, targets, getter>>

RunApply ==
    /\ response["run"] # None
    /\ targets' = Refreshed(response["run"])
    /\ response' = [response EXCEPT !["run"] = None]
    /\ UNCHANGED <<promVars, getter>>

-----------------------------------------------------------------------------
(* Get *)

\* targetMatch: the labels of the target, all of them, are those of the
\* series.  Which one is returned if there are several is left open.
Matches(t, label) == t[2] \in {None, label}

\* On a miss the lock is released for a refresh.
GetRequest(k) ==
    /\ getter = "idle" /\ targets[k] = None /\ reachable
    /\ response' = [response EXCEPT !["get"] = active] /\ getter' = "refresh"
    /\ UNCHANGED <<promVars, targets>>

GetApply ==
    /\ getter = "refresh"
    /\ targets' = Refreshed(response["get"])
    /\ response' = [response EXCEPT !["get"] = None] /\ getter' = "relock"
    /\ UNCHANGED promVars

\* Get returns a target of those that the map has for the key, or None, at
\* once or after a refresh; an empty entry is set if the refresh has not
\* brought one.
GetReturn(k, label, t) ==
    /\ \/ getter = "idle" /\ targets[k] # None
       \/ getter = "relock"
    /\ targets' = [targets EXCEPT ![k] = IF @ = None THEN {} ELSE @]
    /\ LET matching == {u \in targets'[k] : Matches(u, label)}
       IN IF matching = {} THEN t = None ELSE t \in matching
    /\ getter' = "idle"
    /\ UNCHANGED <<promVars, response>>

\* The refresh fails.
GetError(k) ==
    /\ getter = "idle" /\ targets[k] = None /\ ~reachable
    /\ UNCHANGED <<promVars, targetVars>>
==============================================================================
