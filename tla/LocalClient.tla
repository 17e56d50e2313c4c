----------------------------- MODULE LocalClient -----------------------------
(***************************************************************************)
(* A client with data of its own: either files, or the data of a test, and *)
(* a listener for the values of a flag.  A test that edits flags at length *)
(* is looked at by itself ("builder"): one goroutine, before there is a    *)
(* client.                                                                 *)
(***************************************************************************)
EXTENDS FileDataSource, TestDataSource

VARIABLE source     \* "file", "test" or "builder"

vars == <<source, clientVars, fileVars, testVars>>

Init ==
    /\ ClientInit /\ FileInit /\ TestInit
    /\ source \in {"file", "test", "builder"}
    /\ source # "file" => ~reloader /\ \A f \in 1 .. Files : files[f] \in {Missing, Bad}

Next ==
    /\ UNCHANGED source
    /\ \/ source = "file" /\ FileStep /\ UNCHANGED testVars
       \/ source = "test" /\ TestStep /\ UNCHANGED fileVars
       \/ source = "builder" /\ BuilderStep /\ UNCHANGED fileVars
       \/ (\E w \in Writers : SinkStep(w)) /\ UNCHANGED <<fileVars, testVars>>
       \/ source # "builder" /\ TrackerStep /\ UNCHANGED <<fileVars, testVars>>

Spec == Init /\ [][Next]_vars

\* Goroutines run, timers fire, and the application reads its channel; nothing makes
\* the files change, the test update or the application add a listener.
FairSpec ==
    /\ Spec
    /\ \A w \in Writers : WF_vars(SinkStep(w) /\ UNCHANGED <<source, fileVars, testVars>>)
    /\ WF_vars(ListenerStep /\ UNCHANGED <<source, fileVars, testVars>>)
    /\ WF_vars(ReadValueChange /\ UNCHANGED <<source, fileVars, testVars>>)
    /\ WF_vars(source = "file" /\ LoaderStep /\ UNCHANGED <<source, testVars>>)
    /\ WF_vars(source = "file" /\ RetryTimer /\ UNCHANGED <<source, testVars>>)
    /\ WF_vars(source = "test" /\ (StartTest \/ StartReturns) /\ UNCHANGED <<source, fileVars>>)

-----------------------------------------------------------------------------
(* Properties *)

\* A flag builder gives each targeted context its variation (FlagBuilder).
TargetsAreServed ==
    \A b \in {currentBuilder} \cup {builder[u] : u \in Updaters} : b # Nil => ServesTargets(b)

\* The client ends up with what its source has: the watcher finds every change of the
\* files, whatever else happens while it reloads them and however often one of them
\* is missing or half written; and the test's updates, which "immediately propagate"
\* (Update) outside the lock and in any order, leave the latest data.  Close, and a
\* watcher that cannot be created, end that, as does a store that refuses the data.
LocalDataConverges ==
    <>[](CASE source = "file" /\ reloader  -> loader = "end" \/ lost # {} \/ FilesAreLoaded
           [] source = "file" /\ ~reloader -> ready
           [] source = "test"              -> starter = "started" /\ instance => UpdatesArrived
           [] source = "builder"           -> TRUE)

\* A value change listener that stays ends up with the flag's value, and the application
\* has been told it or had it when the listener was added ("pushes a new
\* FlagValueChangeEvent to the channel if and only if the resulting value has changed",
\* AddFlagValueChangeListener), with two exceptions: a full data set changed the value
\* without a newer version, or just as the listener was added; or the value changed before
\* the first evaluation, which is not immediate, and has not changed since.
ValueChangesAreReported == <>[](subscribed => missed \/ early \/ told = Value(store))

=============================================================================
