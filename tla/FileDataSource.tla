---------------------------- MODULE FileDataSource ----------------------------
(***************************************************************************)
(* The data source that reads files (ldfiledata), and the reloader that    *)
(* watches them (ldfilewatch).  Both run on one goroutine at a time: Start *)
(* on the client's, everything after it on the watcher's.                  *)
(*                                                                         *)
(* A file is Missing, Bad (it cannot be parsed) or the items it has.  A    *)
(* flag of "flagValues" always has the same version.  Files are in         *)
(* different directories; an event of a file that is not one of them       *)
(* changes nothing and is left out.                                        *)
(***************************************************************************)
EXTENDS FlagTracker

CONSTANTS
    Loader,         \* the writer: the goroutine that loads the files
    Files,          \* the number of files
    Contents,       \* what each file may contain
    Missing, Bad,
    DuplicateKeysHandling,
    MaxFileChanges  \* bound on the changes of the files

ASSUME LoaderAssumption == Loader \in Writers
ASSUME FilesAssumption == Files \in Nat \ {0}
ASSUME HandlingAssumption == DuplicateKeysHandling \in {"fail", "ignore"}

VARIABLES
    files, fileChanges,
    reloader,       \* is there a reloaderFactory
    loader,         \* position of the goroutine
    filesData,      \* the files read so far
    starting,       \* the load is the one in Start
    watched,        \* the files whose changes the watcher sees
    events,         \* the files with changes that it has not been told of
    retry,          \* "none", "scheduled" or "ready"
    isInitialized, ready,   \* ready: readyOnce is done and readyCh closed
    closeReloaderCh         \* "nil", "open" or "closed"

watchVars == <<watched, events, retry>>
readyVars == <<isInitialized, ready>>
fileVars == <<files, fileChanges, reloader, loader, filesData, starting, watchVars, readyVars,
              closeReloaderCh>>

FileInit ==
    /\ files \in {fs \in [1 .. Files -> UNION {Contents[f] : f \in 1 .. Files}] :
                    \A f \in 1 .. Files : fs[f] \in Contents[f]}
    /\ fileChanges = 0
    /\ reloader \in BOOLEAN
    /\ loader = "new" /\ filesData = <<>> /\ starting = TRUE
    /\ watched = {} /\ events = {} /\ retry = "none"
    /\ isInitialized = FALSE /\ ready = FALSE /\ closeReloaderCh = "nil"

\* Someone writes or removes a file.
FileChanges(f, content) ==
    /\ fileChanges < MaxFileChanges /\ fileChanges' = fileChanges + 1
    /\ content # files[f] /\ files' = [files EXCEPT ![f] = content]
    /\ events' = IF f \in watched THEN events \cup {f} ELSE events
    /\ UNCHANGED <<clientVars, reloader, loader, filesData, starting, watched, retry, readyVars,
                   closeReloaderCh>>

-----------------------------------------------------------------------------
(* fileDataSource *)

\* Start, and reload
StartFile ==
    /\ loader = "new" /\ loader' = "read"
    /\ UNCHANGED <<clientVars, files, fileChanges, reloader, filesData, starting, watchVars,
                   readyVars, closeReloaderCh>>

\* The files that have a key, and mergeFileData with insertData.
HavingKey(data, k) == {f \in 1 .. Files : data[f][k] # NoItem}
Mergeable(data) ==
    DuplicateKeysHandling = "ignore" \/ \A k \in Keys : Cardinality(HavingKey(data, k)) <= 1
Merge(data) ==
    [k \in Keys |->
        IF HavingKey(data, k) = {} THEN NoItem
        ELSE data[CHOOSE f \in HavingKey(data, k) : \A g \in HavingKey(data, k) : f <= g][k]]

\* readFile, and after the last one the merged data goes to the sink.
ReadFile ==
    /\ loader = "read"
    /\ LET content == files[Len(filesData) + 1]
           data == Append(filesData, content)
       IN \/ /\ content \in {Missing, Bad}
             /\ status' = StatusAfter("interrupted")
             /\ loader' = "loaded" /\ filesData' = <<>>
             /\ UNCHANGED <<call, lost>>
          \/ /\ content \notin {Missing, Bad} /\ Len(data) < Files
             /\ filesData' = data
             /\ UNCHANGED <<loader, status, call, lost>>
          \/ /\ content \notin {Missing, Bad} /\ Len(data) = Files
             /\ filesData' = <<>>
             /\ IF Mergeable(data)
                THEN CallInit(Loader, Merge(data)) /\ loader' = "init" /\ UNCHANGED status
                ELSE /\ status' = StatusAfter("interrupted") /\ loader' = "loaded"
                     /\ UNCHANGED <<call, lost>>
    /\ UNCHANGED <<store, refusals, trackerVars, missed, files, fileChanges, reloader,
                   starting, watchVars, readyVars, closeReloaderCh>>

\* signalStartComplete
SignalStartComplete(succeeded) ==
    /\ ready' = TRUE
    /\ isInitialized' = IF ready THEN isInitialized ELSE succeeded

\* Init has returned.
InitReturns ==
    /\ loader = "init" /\ loader' = "loaded"
    /\ \/ /\ Ended(Loader, "done")
          /\ SignalStartComplete(TRUE) /\ status' = "valid"
       \/ /\ Ended(Loader, "refused")
          /\ UNCHANGED <<status, readyVars>>
    /\ UNCHANGED <<store, refusals, lost, trackerVars, missed, files, fileChanges, reloader,
                   filesData, starting, watchVars, closeReloaderCh>>

\* The end of Start; the watcher may not be created.
Started ==
    /\ loader = "loaded" /\ starting
    /\ starting' = FALSE
    /\ IF reloader
       THEN closeReloaderCh' = "open" /\ loader' \in {"setup", "end"} /\ UNCHANGED readyVars
       ELSE SignalStartComplete(isInitialized) /\ loader' = "end" /\ UNCHANGED closeReloaderCh
    /\ UNCHANGED <<clientVars, files, fileChanges, reloader, filesData, watchVars>>

CloseFile ==
    /\ closeReloaderCh = "open" /\ closeReloaderCh' = "closed"
    /\ UNCHANGED <<clientVars, files, fileChanges, reloader, loader, filesData, starting, watchVars,
                   readyVars>>

-----------------------------------------------------------------------------
(* fileWatcher *)

\* setupWatches, up to a file that is missing: a retry is scheduled.  Then reload.
SetupWatches ==
    /\ loader = "setup" /\ loader' = "read"
    /\ LET missing == {f \in 1 .. Files : files[f] = Missing}
       IN /\ watched' = watched \cup {f \in 1 .. Files : \A g \in missing : f < g}
          /\ retry' = IF missing # {} /\ retry = "none" THEN "scheduled" ELSE retry
    /\ UNCHANGED <<clientVars, files, fileChanges, reloader, filesData, starting, events, readyVars,
                   closeReloaderCh>>

RetryTimer ==
    /\ retry = "scheduled" /\ retry' = "ready"
    /\ UNCHANGED <<clientVars, files, fileChanges, reloader, loader, filesData, starting, watched,
                   events, readyVars, closeReloaderCh>>

\* Mutant: the events of the changes so far are dropped after the reload.
ReloadedConsumes ==
    /\ loader = "loaded" /\ ~starting /\ loader' = "wait"
    /\ events' = {}
    /\ UNCHANGED <<clientVars, files, fileChanges, reloader, filesData, starting, watched, retry,
                   readyVars, closeReloaderCh>>

Reloaded ==
    /\ loader = "loaded" /\ ~starting /\ loader' = "wait"
    /\ UNCHANGED <<clientVars, files, fileChanges, reloader, filesData, starting, watchVars,
                   readyVars, closeReloaderCh>>

\* waitForEvents: an event, with consumeExtraEvents, which may leave some; ...
FileEvent ==
    /\ loader = "wait" /\ loader' = "setup"
    /\ \E f \in events : events' \in SUBSET (events \ {f})
    /\ UNCHANGED <<clientVars, files, fileChanges, reloader, filesData, starting, watched, retry,
                   readyVars, closeReloaderCh>>

\* ... a retry; ...
RetryWatches ==
    /\ loader = "wait" /\ loader' = "setup"
    /\ retry = "ready" /\ retry' = "none"
    /\ UNCHANGED <<clientVars, files, fileChanges, reloader, filesData, starting, watched, events,
                   readyVars, closeReloaderCh>>

\* ... or the end.
WatcherQuits ==
    /\ loader = "wait" /\ loader' = "end"
    /\ closeReloaderCh = "closed"
    /\ UNCHANGED <<clientVars, files, fileChanges, reloader, filesData, starting, watchVars,
                   readyVars, closeReloaderCh>>

LoaderStep ==
    \/ StartFile \/ ReadFile \/ InitReturns \/ Started \/ SetupWatches \/ Reloaded
    \/ FileEvent \/ RetryWatches

FileStep ==
    \/ LoaderStep \/ WatcherQuits \/ RetryTimer \/ CloseFile
    \/ \E f \in 1 .. Files : \E content \in Contents[f] : FileChanges(f, content)

-----------------------------------------------------------------------------
(* What the data should be *)

Readable == \A f \in 1 .. Files : files[f] \notin {Missing, Bad}

\* The data of the files is in the store, the state is valid and the client is told;
\* with files that cannot be used, the state is not valid.
FilesAreLoaded ==
    IF Readable /\ Mergeable(files)
    THEN store = Merge(files) /\ status = "valid" /\ isInitialized
    ELSE status # "valid"

=============================================================================
