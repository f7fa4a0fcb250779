---------------------------- MODULE Credentials ----------------------------
(***************************************************************************)
(* The file in which the CLI keeps its login to a deployment: a command    *)
(* loads it, changes what it loaded and saves it through a temporary file  *)
(* that all commands share (src/credentials.rs).  A command may be killed  *)
(* anywhere, and nothing keeps two from running at once.                   *)
(***************************************************************************)
EXTENDS FiniteSets

CONSTANTS
    Commands,  \* processes of the CLI
    NULL       \* no account

Absent == [kind |-> "absent", account |-> NULL]
Empty == [kind |-> "empty", account |-> NULL]
Torn == [kind |-> "torn", account |-> NULL]
Whole(account) == [kind |-> "whole", account |-> account]

VARIABLES
    path,   \* credentials.json
    tmp,    \* credentials.json.tmp
    fd,     \* what a command has open for writing: "tmp" or "path", as it is
            \* called now, "gone" without a name, or "none"
    store,  \* what a command has loaded, or made of it
    pc,     \* where each command is
    raced   \* history: commands have saved, or changed, the file at once

files == <<path, tmp, fd, store, raced>>

FilesInit ==
    /\ path = Absent /\ tmp = Absent
    /\ fd = [c \in Commands |-> "none"]
    /\ store = [c \in Commands |-> NULL]
    /\ raced = {}

Goto(c, where) == pc' = [pc EXCEPT ![c] = where]

\* The process is gone, and what it had in memory.
Ends(c) == Goto(c, "idle") /\ store' = [store EXCEPT ![c] = NULL]

Saving == {"open", "write", "rename"}
Changing == Saving \cup {"refresh"}
Others(c, places) == \E d \in Commands \ {c} : pc[d] \in places

\* load_from: what is not JSON is an error, a file that is missing or empty is
\* an empty store.
Readable == path.kind # "torn"

\* The command makes account of what it has read.
Load(c, account, where) ==
    /\ Readable
    /\ store' = [store EXCEPT ![c] = account]
    /\ raced' = raced \cup IF Others(c, Changing) THEN {"change"} ELSE {}
    /\ Goto(c, where)
    /\ UNCHANGED <<path, tmp, fd>>

-----------------------------------------------------------------------------
(* save_to.                                                                 *)

\* What the open files are called after names moved.
Renamed(c, to) ==
    fd' = [d \in Commands |->
              CASE d = c -> "none"
                [] d # c /\ fd[d] = "tmp" -> to
                [] d # c /\ fd[d] = "path" /\ to = "path" -> "gone"
                [] OTHER -> fd[d]]

\* Mutant of OpenTmp: the file itself is truncated and written.
OpenPath(c) ==
    /\ pc[c] = "open"
    /\ path' = Empty /\ tmp' = tmp
    /\ fd' = [fd EXCEPT ![c] = "path"]
    /\ raced' = raced \cup IF Others(c, Saving) THEN {"save", "change"} ELSE {}
    /\ Goto(c, "write")
    /\ UNCHANGED store

\* open_owner_only creates or truncates.
OpenTmp(c) ==
    /\ pc[c] = "open"
    /\ tmp' = Empty /\ path' = path
    /\ fd' = [fd EXCEPT ![c] = "tmp"]
    /\ raced' = raced \cup IF Others(c, Saving) THEN {"save", "change"} ELSE {}
    /\ Goto(c, "write")
    /\ UNCHANGED store

\* What a write from the start leaves where somebody else has written: all of
\* it when that was no longer, and else the end of the other after it.
Overwritten(old, account) ==
    {Whole(account)} \cup
    IF old.kind = "torn" \/ (old.kind = "whole" /\ old.account # NULL) THEN {Torn} ELSE {}

WriteTmp(c) ==
    /\ pc[c] = "write"
    /\ IF fd[c] = "tmp" THEN tmp' \in Overwritten(tmp, store[c]) /\ UNCHANGED path
       ELSE IF fd[c] = "path" THEN path' \in Overwritten(path, store[c]) /\ UNCHANGED tmp
       ELSE UNCHANGED <<path, tmp>>
    /\ store' = [store EXCEPT ![c] = NULL]
    /\ Goto(c, "rename")
    /\ UNCHANGED <<fd, raced>>

\* Whatever has the name now, whoever wrote it; the command goes on or ends.
Rename(c, goes_on) ==
    /\ pc[c] = "rename" /\ tmp # Absent
    /\ path' = tmp /\ tmp' = Absent
    /\ Renamed(c, "path")
    /\ Goto(c, IF goes_on THEN "send" ELSE "idle") /\ UNCHANGED store
    /\ UNCHANGED raced

\* Mutant of SaveFails: the file is removed rather than the temporary one.
SaveFailsForGood(c) ==
    /\ pc[c] \in {"write", "rename"}
    /\ path' = Absent /\ tmp' = tmp
    /\ fd' = [fd EXCEPT ![c] = "none"]
    /\ Ends(c)
    /\ UNCHANGED raced

\* An error, such as a rename of what is not there any more, removes the
\* temporary file, whoever uses it.
SaveFails(c) ==
    /\ pc[c] \in {"write", "rename"}
    /\ tmp' = Absent /\ path' = path
    /\ Renamed(c, "gone")
    /\ Ends(c)
    /\ UNCHANGED raced

\* The process ends here; what it was writing may have come half way.
Kill(c) ==
    /\ pc[c] # "idle"
    /\ tmp' \in {tmp} \cup IF pc[c] = "write" /\ fd[c] = "tmp" THEN {Torn} ELSE {}
    /\ path' \in {path} \cup IF pc[c] = "write" /\ fd[c] = "path" THEN {Torn} ELSE {}
    /\ fd' = [fd EXCEPT ![c] = "none"]
    /\ Ends(c)
    /\ UNCHANGED raced
=============================================================================
