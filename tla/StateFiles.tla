----------------------------- MODULE StateFiles -----------------------------
(***************************************************************************)
(* The two files of cauto's state directory and the processes that share    *)
(* them: decisions.jsonl, to which records are appended under a lock taken  *)
(* with a timeout (state/decision_log.rs), and calibration.json, which is   *)
(* read without a lock and replaced as a whole (state/tuning.rs,            *)
(* cache/atomic.rs).                                                        *)
(*                                                                         *)
(* A record and the newline after it reach the log in three pieces; a       *)
(* process can be killed, or a write fail, after any of them.               *)
(***************************************************************************)
EXTENDS Tuning, Sequences

CONSTANTS
    Processes,  \* the processes that run
    Past,       \* sessions that ended before
    Repos,      \* repositories
    Workloads,  \* what each process is, was, asked to do
    Beginnings, \* the sessions whose lines the log begins with
    Nobody, NoStore

Command ==
    [op : {"session", "apply", "reset"}, repo : Repos, kind : FeedbackKinds,
     source : RouteSources]

Stores == [Repos -> Offsets]

ASSUME StateFilesConstantsOK ==
    /\ IsFiniteSet(Processes) /\ IsFiniteSet(Past)
    /\ Workloads \subseteq [Processes \cup Past -> Command]
    /\ Beginnings \subseteq SUBSET Past
    /\ Nobody \notin Processes
    /\ NoStore \notin Stores

VARIABLES
    cmd,          \* what each process does, fixed
    earlier,      \* the sessions decisions.jsonl begins with, fixed
    bytes,        \* what was appended to it since, a sequence of pieces
    logHolder,    \* who holds the lock on decisions.jsonl
    file,         \* calibration.json as a process reads it
    disk,         \* the file its directory entry names on the disk
    storeHolder,  \* who holds the lock beside calibration.json
    pc,           \* where each process is
    what,         \* the record it appends
    view,         \* the store it loaded
    next,         \* the store it writes
    temp          \* its temporary file

vars == <<cmd, earlier, bytes, logHolder, file, disk, storeHolder, pc, what, view, next, temp>>
logVars == <<bytes, logHolder>>
storeVars == <<file, disk, storeHolder, next, temp>>

Contents == {"none", "partial", "written", "synced"}
Pieces == [by : Processes, what : {"decision", "feedback"}, part : 1..3]
Piece(p, w, n) == [by |-> p, what |-> w, part |-> n]

\* A record parses when its two halves make up a line, the last one perhaps
\* without its newline yet.
Readable(log, p, w) ==
    \E i \in DOMAIN log :
        /\ log[i] = Piece(p, w, 1)
        /\ i = 1 \/ log[i - 1].part = 3
        /\ i + 1 \in DOMAIN log /\ log[i + 1] = Piece(p, w, 2)
        /\ i + 2 \in DOMAIN log => log[i + 2].part = 3

\* analyze_repository: the readable feedback on the readable decisions of a
\* repository.  (Fault: the decisions of every repository count.)
CountsOf(log, sessions) ==
    LET found(w) == {p \in sessions : p \in earlier \/ Readable(log, p, w)} IN
    CountFeedback([p \in found("decision") |-> [mode |-> "agent", source |-> cmd[p].source]],
                  [p \in found("feedback") |-> [kind |-> cmd[p].kind, decision |-> p]])
CountsEverywhere(log, repo) == CountsOf(log, Processes \cup Past)
CountsIn(log, repo) == CountsOf(log, {p \in Processes \cup Past : cmd[p].repo = repo})

\* Feedback that is worth counting: on a route cauto chose, both lines readable.
Reports(log, repo, kinds) ==
    {p \in Processes \cup Past :
        /\ cmd[p].repo = repo /\ cmd[p].kind \in kinds /\ cmd[p].source # "native"
        /\ p \in earlier \/ (Readable(log, p, "decision") /\ Readable(log, p, "feedback"))}

\* Three reports or more, and 70% of them on one side.
CallsFor(log, repo, offset) ==
    LET side == IF offset > 0 THEN "underpowered" ELSE "overkill"
        eligible == Cardinality(Reports(log, repo, FeedbackKinds \ {"failed"}))
    IN  eligible >= 3 /\ 10 * Cardinality(Reports(log, repo, {side})) >= 7 * eligible

\* Every offset of a store is one that the repository's own reports, as some
\* beginning of the log has them, call for.
Earned(s, log) ==
    \A repo \in Repos : s[repo] # 0 =>
        \E n \in 0..Len(log) : CallsFor(SubSeq(log, 1, n), repo, s[repo])

Init ==
    /\ cmd \in Workloads
    /\ earlier \in Beginnings
    /\ bytes = <<>>
    /\ logHolder = Nobody
    /\ \E s \in {s \in Stores : Earned(s, bytes)} : file = [value |-> s, state |-> "synced"]
    /\ disk = file
    /\ storeHolder = Nobody
    /\ pc = [p \in Processes |-> IF cmd[p].op = "session" THEN "open" ELSE "load"]
    /\ what = [p \in Processes |-> "decision"]
    /\ view = [p \in Processes |-> NoStore]
    /\ next = [p \in Processes |-> NoStore]
    /\ temp = [p \in Processes |-> "none"]

Final == {"done", "failed", "killed", "lost"}
Goto(p, step) == pc' = [pc EXCEPT ![p] = step]
At(p, step) == pc[p] = step

-----------------------------------------------------------------------------
(* append_json_line *)

\* The lock is taken as soon as it is free.
LockLog(p) ==
    /\ At(p, "open") /\ logHolder = Nobody
    /\ logHolder' = p
    /\ Goto(p, "first")
    /\ UNCHANGED <<cmd, earlier, bytes, what, view, storeVars>>

\* It was held for 250 ms: the record is not written.
\* (Fault: it is written all the same.)
LockTimeoutIgnored(p) ==
    /\ At(p, "open") /\ logHolder # Nobody
    /\ Goto(p, "first")
    /\ UNCHANGED <<cmd, earlier, logVars, what, view, storeVars>>
LockTimeout(p) ==
    /\ At(p, "open") /\ logHolder # Nobody
    /\ Goto(p, "failed")
    /\ UNCHANGED <<cmd, earlier, logVars, what, view, storeVars>>

\* The next piece; with the newline the lock is released, and a session goes on
\* from its decision to the feedback on it, or from that to the calibration.
Writing == <<"first", "second", "newline">>
AppendPiece(p) ==
    \E n \in 1..3 :
        /\ At(p, Writing[n])
        /\ bytes' = Append(bytes, Piece(p, what[p], n))
        /\ IF n < 3
           THEN Goto(p, Writing[n + 1]) /\ UNCHANGED <<logHolder, what>>
           ELSE /\ logHolder' = Nobody
                /\ what' = [what EXCEPT ![p] = "feedback"]
                /\ Goto(p, IF what[p] = "decision" THEN "open" ELSE "load")
        /\ UNCHANGED <<cmd, earlier, view, storeVars>>

\* The log cannot be opened, or a write fails: the lock is released, what was written
\* stays.
AppendFails(p) ==
    /\ At(p, "open") \/ \E n \in 1..3 : At(p, Writing[n])
    /\ logHolder' = IF logHolder = p THEN Nobody ELSE logHolder
    /\ Goto(p, "failed")
    /\ UNCHANGED <<cmd, earlier, bytes, what, view, storeVars>>

-----------------------------------------------------------------------------
(* load_store, analyze_repository, save_recommendation, reset_repository *)

LoadStore(p) ==
    /\ At(p, "load")
    /\ view' = [view EXCEPT ![p] = file.value]
    /\ Goto(p, IF cmd[p].op = "reset" THEN "reset" ELSE "analyze")
    /\ UNCHANGED <<cmd, earlier, logVars, what, storeVars>>

\* The file, or the log, cannot be read.
ReadFails(p) ==
    /\ pc[p] \in {"load", "analyze"}
    /\ Goto(p, "failed")
    /\ view' = [view EXCEPT ![p] = NoStore]
    /\ UNCHANGED <<cmd, earlier, logVars, what, storeVars>>

\* The store with another entry for the process's repository is to be written,
\* unless the entry is that already.
\* (Fault: the entries of all repositories change.)
SaveEverywhere(p, offset) ==
    /\ Goto(p, "lock")
    /\ next' = [next EXCEPT ![p] = [repo \in Repos |-> offset]]
    /\ UNCHANGED <<cmd, earlier, logVars, file, disk, storeHolder, what, view, temp>>
Save(p, offset) ==
    /\ IF offset = view[p][cmd[p].repo]
       THEN /\ Goto(p, "done")
            /\ view' = [view EXCEPT ![p] = NoStore]
            /\ UNCHANGED next
       ELSE /\ Goto(p, "lock")
            /\ next' = [next EXCEPT ![p] = [view[p] EXCEPT ![cmd[p].repo] = offset]]
            /\ UNCHANGED view
    /\ UNCHANGED <<cmd, earlier, logVars, file, disk, storeHolder, what, temp>>

Analyze(p) ==
    /\ At(p, "analyze")
    /\ Save(p, SavedOffset(view[p][cmd[p].repo], Recommendation(CountsIn(bytes, cmd[p].repo))))

Reset(p) ==
    /\ At(p, "reset")
    /\ Save(p, 0)

-----------------------------------------------------------------------------
(* atomic_write *)

\* The lock is waited for as long as it takes; the temporary file is the process's own.
LockStore(p) ==
    /\ At(p, "lock") /\ storeHolder = Nobody
    /\ storeHolder' = p
    /\ temp' = [temp EXCEPT ![p] = "partial"]
    /\ Goto(p, "write")
    /\ UNCHANGED <<cmd, earlier, logVars, file, disk, what, view, next>>

\* write_all and flush, then sync_data.
\* (Fault: the data is not synced.)
WriteTempUnsynced(p) ==
    /\ At(p, "write")
    /\ temp' = [temp EXCEPT ![p] = "written"]
    /\ Goto(p, "rename")
    /\ UNCHANGED <<cmd, earlier, logVars, file, disk, storeHolder, what, view, next>>
WriteTemp(p) ==
    /\ At(p, "write")
    /\ IF temp[p] = "partial"
       THEN temp' = [temp EXCEPT ![p] = "written"] /\ UNCHANGED pc
       ELSE temp' = [temp EXCEPT ![p] = "synced"] /\ Goto(p, "rename")
    /\ UNCHANGED <<cmd, earlier, logVars, file, disk, storeHolder, what, view, next>>

\* The private directory or the lock file cannot be had, creating, writing or syncing
\* the temporary file fails, or renaming it: it is removed and the lock released.
WriteFails(p) ==
    /\ pc[p] \in {"lock", "write", "rename"}
    /\ temp' = [temp EXCEPT ![p] = "none"]
    /\ storeHolder' = IF storeHolder = p THEN Nobody ELSE storeHolder
    /\ Goto(p, "failed")
    /\ view' = [view EXCEPT ![p] = NoStore]
    /\ UNCHANGED <<cmd, earlier, logVars, file, disk, what, next>>

Rename(p) ==
    /\ At(p, "rename")
    /\ file' = [value |-> next[p], state |-> temp[p]]
    /\ temp' = [temp EXCEPT ![p] = "none"]
    /\ view' = [view EXCEPT ![p] = NoStore]
    /\ Goto(p, "close")
    /\ UNCHANGED <<cmd, earlier, logVars, disk, storeHolder, what, next>>

\* The directory is synced if that works, and the lock released.
CloseStore(p) ==
    /\ At(p, "close")
    /\ disk' \in {disk, file}
    /\ storeHolder' = Nobody
    /\ Goto(p, "done")
    /\ UNCHANGED <<cmd, earlier, logVars, file, what, view, next, temp>>

-----------------------------------------------------------------------------
(* Failures of processes and of the machine *)

\* A process is killed.  The system releases the locks it holds; its temporary
\* file stays.  (Fault: a lock that outlives its holder.)
KilledKeepingLock(p) ==
    /\ pc[p] \notin Final
    /\ Goto(p, "killed")
    /\ view' = [view EXCEPT ![p] = NoStore]
    /\ logHolder' = IF logHolder = p THEN Nobody ELSE logHolder
    /\ UNCHANGED <<cmd, earlier, bytes, file, disk, storeHolder, what, next, temp>>
Killed(p) ==
    /\ pc[p] \notin Final
    /\ Goto(p, "killed")
    /\ view' = [view EXCEPT ![p] = NoStore]
    /\ logHolder' = IF logHolder = p THEN Nobody ELSE logHolder
    /\ storeHolder' = IF storeHolder = p THEN Nobody ELSE storeHolder
    /\ UNCHANGED <<cmd, earlier, bytes, file, disk, what, next, temp>>

\* A file after a power failure: what was not synced is lost in part.
AfterPowerFailure(f) == IF f.state = "synced" THEN f ELSE [f EXCEPT !.state = "partial"]

\* The machine fails, and with it every process that was started: the end of the
\* log, which is never synced, may be lost, and the directory may name the file
\* before the last replacements.  Processes that start later find what is left.
Started(p) == what[p] = "feedback" \/ pc[p] \notin {"open", "load"}
PowerFailure ==
    /\ \E p \in Processes : Started(p) /\ pc[p] # "lost"
    /\ \E n \in 0..Len(bytes) : bytes' = SubSeq(bytes, 1, n)
    /\ \E f \in {file, disk} : file' = AfterPowerFailure(f) /\ disk' = file'
    /\ pc' = [p \in Processes |-> IF Started(p) THEN "lost" ELSE pc[p]]
    /\ view' = [p \in Processes |-> NoStore]
    /\ logHolder' = Nobody
    /\ storeHolder' = Nobody
    /\ UNCHANGED <<cmd, earlier, what, next, temp>>

Proceed(p) ==
    \/ LockLog(p) \/ AppendPiece(p)
    \/ LoadStore(p) \/ Analyze(p) \/ Reset(p)
    \/ LockStore(p) \/ WriteTemp(p) \/ Rename(p) \/ CloseStore(p)

Next ==
    \/ \E p \in Processes :
          \/ Proceed(p)
          \/ LockTimeout(p) \/ AppendFails(p) \/ ReadFails(p) \/ WriteFails(p)
          \/ Killed(p)
    \/ PowerFailure

\* Every process is scheduled; nothing is assumed of errors and failures.
Spec == Init /\ [][Next]_vars /\ \A p \in Processes : WF_vars(Proceed(p))

-----------------------------------------------------------------------------
(* Properties *)

TypeOK ==
    /\ cmd \in Workloads
    /\ earlier \in Beginnings
    /\ bytes \in Seq(Pieces)
    /\ logHolder \in Processes \cup {Nobody}
    /\ file \in [value : Stores, state : Contents]
    /\ disk \in [value : Stores, state : Contents]
    /\ storeHolder \in Processes \cup {Nobody}
    /\ pc \in [Processes -> {"open", "first", "second", "newline", "load", "analyze", "reset", "lock", "write",
                             "rename", "close"} \cup Final]
    /\ what \in [Processes -> {"decision", "feedback"}]
    /\ view \in [Processes -> Stores \cup {NoStore}]
    /\ next \in [Processes -> Stores \cup {NoStore}]
    /\ temp \in [Processes -> Contents]

\* The pieces of two records never mix, and a line that was ended is a readable
\* record unless it begins with the remains of a write that was cut short (tests/
\* logging.rs: concurrent loggers append complete JSON lines).
CutShort(i) == bytes[i].part < 3 /\ pc[bytes[i].by] \in Final \ {"done"}
LinesAreWhole ==
    \A i \in DOMAIN bytes :
        \/ bytes[i].part = 1 /\ (i = 1 \/ bytes[i - 1].part = 3 \/ CutShort(i - 1))
        \/ i > 1 /\ bytes[i] = [bytes[i - 1] EXCEPT !.part = @ + 1]

\* calibration.json never holds part of a store, not even after the machine failed:
\* ARCHITECTURE.md, "atomic same-directory replacement".
StoreIsWhole == file.state # "partial" /\ disk.state # "partial"

\* An offset in the store is one that the repository's own feedback called for at
\* some time, or that was there: however late a process writes what it computed, and
\* whatever records were lost meanwhile.  (After a power failure the log may have
\* lost what the store was computed from.)
OffsetsWereEarned == (\A p \in Processes : pc[p] # "lost") => Earned(file.value, bytes)

\* The store is shared as SharedStore says: every update changes one entry of a
\* store that was in the file, in one step, and a power failure takes the file back
\* at most to the store whose directory entry was synced.
Shared == INSTANCE SharedStore
    WITH store <- file.value, kept <- disk.value, NoView <- NoStore
StoreIsShared == Shared!Spec

\* No process waits for ever: for a lock whose holder failed, or for its turn.
EveryoneFinishes == <>[](\A p \in Processes : pc[p] \in Final)

\* ARCHITECTURE.md: "`cauto tune --reset` removes only the selected repository entry".
ResetRemovesOnlyItsEntry ==
    [][\A p \in Processes : (Rename(p) /\ cmd[p].op = "reset") =>
           \A repo \in Repos \ {cmd[p].repo} : file'.value[repo] = file.value[repo]]_vars
=============================================================================
