---------------------------- MODULE ConfigReload ----------------------------
(***************************************************************************)
(* FileProvider (internal/adapters/config/file_provider.go): the watcher   *)
(* that polls the configuration file and the readers of Current, while an  *)
(* operator edits the file.                                                *)
(*                                                                         *)
(* One system call of the watcher is one step.  The content of the file is *)
(* the number of the write that produced it; whether it parses and passes  *)
(* Validate is chosen by that write.  A write is one step and gives the    *)
(* file a modification time it never had.                                  *)
(***************************************************************************)
EXTENDS Integers

CONSTANT MaxWrites   \* bound on the number of writes of the file

ASSUME BoundAssumption == MaxWrites \in Nat \ {0}

VARIABLES
    file,      \* the file: content, validity, modification time, existence
    current,   \* FileProvider.current
    modTime,   \* FileProvider.modTime
    pc,        \* the watcher: Watch, reloadIfChanged and reload
    data,      \* reload: the content read
    mtime,     \* reload: the modification time of the second Stat
    valid,     \* history: the writes whose content is valid
    crossed    \* history: the last write fell between a reload's ReadFile
               \* and its second Stat

reloading == <<pc, data, mtime>>
edits == <<file, valid, crossed>>
vars == <<file, current, modTime, pc, data, mtime, valid, crossed>>

Version == 0..MaxWrites
File    == [content : Version, valid : BOOLEAN, modTime : Version, exists : BOOLEAN]
PC      == {"idle", "read", "stat", "store"}

\* NewFileProvider returned: version 0 was read and no write interfered.
Init ==
    /\ file = [content |-> 0, valid |-> TRUE, modTime |-> 0, exists |-> TRUE]
    /\ current = 0
    /\ modTime = 0
    /\ pc = "idle" /\ data = 0 /\ mtime = 0
    /\ valid = {0}
    /\ crossed = FALSE

-----------------------------------------------------------------------------
(* The operator.                                                           *)

Write(ok) ==
    /\ file.content < MaxWrites
    /\ LET n == file.content + 1
       IN  /\ file' = [content |-> n, valid |-> ok, modTime |-> n, exists |-> TRUE]
           /\ valid' = IF ok THEN valid \cup {n} ELSE valid
    /\ crossed' = (pc = "stat")
    /\ UNCHANGED <<current, modTime, reloading>>

\* The file is moved away; a later write puts one in its place.
Remove ==
    /\ file.exists
    /\ file.content < MaxWrites
    /\ file' = [file EXCEPT !.exists = FALSE]
    /\ UNCHANGED <<current, modTime, reloading, valid, crossed>>

-----------------------------------------------------------------------------
(* The watcher.                                                            *)

\* The ticker fires: reloadIfChanged compares modification times.  An equal
\* time, or a missing file, ends the poll without a trace.
PollChanged ==
    /\ pc = "idle"
    /\ file.exists
    /\ file.modTime # modTime
    /\ pc' = "read"
    /\ UNCHANGED <<edits, current, modTime, data, mtime>>

\* Seeded fault: what was read is used whether or not it is valid.
ReadUnchecked ==
    /\ pc = "read"
    /\ pc' = "stat"
    /\ data' = file.content
    /\ UNCHANGED <<edits, current, modTime, mtime>>

\* ReadFile, Parse, WithDefaults and Validate: an error keeps what there is.
ReadFile ==
    /\ pc = "read"
    /\ IF file.exists /\ file.valid
         THEN pc' = "stat" /\ data' = file.content
         ELSE pc' = "idle" /\ UNCHANGED data
    /\ UNCHANGED <<edits, current, modTime, mtime>>

\* The second Stat, of the path again.
StatFile ==
    /\ pc = "stat"
    /\ IF file.exists
         THEN pc' = "store" /\ mtime' = file.modTime
         ELSE pc' = "idle" /\ UNCHANGED mtime
    /\ UNCHANGED <<edits, current, modTime, data>>

\* Seeded fault: the time stored is the file's when the lock is taken.
StoreLate ==
    /\ pc = "store"
    /\ current' = data
    /\ modTime' = file.modTime
    /\ pc' = "idle"
    /\ UNCHANGED <<edits, data, mtime>>

\* Both fields under the lock; a reader of Current sees all of it or none.
StoreConfig ==
    /\ pc = "store"
    /\ current' = data
    /\ modTime' = mtime
    /\ pc' = "idle"
    /\ UNCHANGED <<edits, data, mtime>>

Watcher == PollChanged \/ ReadFile \/ StatFile \/ StoreConfig

Next == Watcher \/ Remove \/ \E ok \in BOOLEAN : Write(ok)

\* The ticker keeps firing and the watcher's goroutine keeps running.
Spec == Init /\ [][Next]_vars /\ WF_vars(Watcher)

-----------------------------------------------------------------------------
(* What the provider promises.                                             *)

\* Every variable keeps the shape the Go declarations give it, and a file
\* that fails to parse or validate, or disappears in mid-reload, is never
\* served: Current always returns a configuration that was valid.
ServesValid ==
    /\ file \in File /\ modTime \in Version /\ mtime \in Version
    /\ pc \in PC
    /\ {current, data} \subseteq valid
    /\ valid \subseteq Version

\* Write v is served, or the file has changed again.
Served(v) == current >= v \/ file.content # v \/ ~file.exists

\* README, GET /gateways: "edits to `configs/gateways.yaml` are reflected after
\* the reload interval if the file remains valid", wherever they fall.
EditReflected ==
    \A v \in Version :
        file.content = v /\ file.valid /\ file.exists ~> Served(v)
=============================================================================
