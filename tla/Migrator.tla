------------------------------- MODULE Migrator -------------------------------
(***************************************************************************)
(* Migrations: a read or write of the old and the new origin, as the stage *)
(* that a flag evaluation gives says, with a tracker that records what     *)
(* happened.  The functions that read and write belong to the application  *)
(* and may fail.                                                           *)
(***************************************************************************)
EXTENDS Evaluation

CONSTANTS
    Orders,         \* how both origins are read: "Serial", "Reversed" or "Concurrent"
    Measures        \* what is measured: "latency", "errors"

VARIABLES
    op,             \* the operation: "read", "write", or "" for none
    order,          \* the order of its executions, "Serial" or "Reversed" when Random
    exec,           \* what has become of the execution of each origin
    tracker         \* invoked, errors, latencies, the consistency check, and Build

migrationVars == <<op, order, exec, tracker>>

Origins == {"old", "new"}
NewTracker == [invoked |-> {}, errors |-> {}, latency |-> {}, check |-> FALSE, built |-> "no"]
NoExecution == [o \in Origins |-> "no"]
NoOperation == op = "" /\ order = "Serial" /\ exec = NoExecution /\ tracker = NewTracker

stage == detail.value
authoritative == IF stage \in {"off", "dualwrite", "shadow"} THEN "old" ELSE "new"
nonAuthoritative == IF authoritative = "old" THEN "new" ELSE "old"

\* The origins that the stage calls for
Called ==
    IF \/ op = "read" /\ stage \in {"shadow", "live"}
       \/ op = "write" /\ stage \in {"dualwrite", "shadow", "live", "rampdown"}
    THEN Origins ELSE {authoritative}

Finished(o) == exec[o] # "no"
Running == pc = "return" /\ op # "" /\ tracker.built = "no"

\* Read or Write begins with MigrationVariation.
BeginOperation(o, method, ord) ==
    /\ method.type = "migration"
    /\ Begin(method)
    /\ op' = o
    /\ order' = IF o = "write" THEN "Serial" ELSE ord
    /\ UNCHANGED <<exec, tracker>>

\* Mutant: the second write does not depend on the first.
MayExecuteAnyway(o) ==
    \/ /\ o = authoritative
       /\ order = "Reversed" /\ nonAuthoritative \in Called => Finished(nonAuthoritative)
    \/ /\ o = nonAuthoritative /\ o \in Called
       /\ order \in {"Reversed", "Concurrent"} \/ Finished(authoritative)

\* readFromBoth and writeToBoth: who may be executed when
MayExecute(o) ==
    \/ /\ o = authoritative
       /\ order = "Reversed" /\ nonAuthoritative \in Called => Finished(nonAuthoritative)
    \/ /\ o = nonAuthoritative /\ o \in Called
       /\ \/ order \in {"Reversed", "Concurrent"}
          \/ exec[authoritative] = "ok"
          \/ op = "read" /\ Finished(authoritative)

\* exec, and what it tells the tracker; a write is tracked as invoked at once, a
\* read when all are done.
Execute(o) ==
    /\ Running /\ exec[o] = "no"
    /\ MayExecute(o)
    /\ \E result \in {"ok", "failed"} :
          /\ exec' = [exec EXCEPT ![o] = result]
          /\ tracker' = [tracker EXCEPT
                !.latency = IF "latency" \in Measures THEN @ \cup {o} ELSE @,
                !.errors = IF result = "failed" /\ "errors" \in Measures THEN @ \cup {o} ELSE @,
                !.invoked = IF op = "write" THEN @ \cup {o} ELSE @]
    /\ UNCHANGED <<op, order, callVars, sourceVars>>

\* Nothing more will be executed.
AllExecuted == Running /\ \A o \in Origins : Finished(o) \/ ~MayExecute(o)

\* checkConsistency and the other conditions of Build
Valid(t) ==
    /\ t.invoked # {}
    /\ detail.error # "USER_NOT_SPECIFIED"
    /\ t.latency \cup t.errors \subseteq t.invoked
    /\ t.check => t.invoked = Origins

\* The end of readFromBoth and of Read: TrackConsistency, unless the flag's check ratio
\* skips it, and TrackInvoked; a write has been tracked before.
Tracked ==
    IF op = "write" THEN {tracker}
    ELSE {[tracker EXCEPT !.check = c, !.invoked = Called] :
             c \in {FALSE, Called = Origins /\ \A o \in Origins : exec[o] = "ok"}}

\* trackMigrationOp
Build ==
    /\ AllExecuted
    /\ \E t \in Tracked :
          tracker' = [t EXCEPT !.built = IF ~Valid(t) THEN "error"
                                         ELSE IF m.disabled THEN "silent" ELSE "sent"]
    /\ UNCHANGED <<op, order, exec, callVars, sourceVars>>

MigrationStep == (\E o \in Origins : Execute(o)) \/ Build
=============================================================================
