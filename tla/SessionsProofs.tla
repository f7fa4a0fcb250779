--------------------------- MODULE SessionsProofs ---------------------------
(***************************************************************************)
(* For any number of commands of the CLI and any times within the stated   *)
(* slacks: the credentials file stays whole, every sign-in and sign-out    *)
(* has its cause, and no call with a fresh token is refused.               *)
(***************************************************************************)
EXTENDS Sessions, TLAPS

Places ==
    {"idle", "send", "fetch", "served", "refused", "unchecked", "refresh",
     "open", "write", "rename"}

Doings == {"nothing", "login", "call", "logout", "drop"}

File ==
    [kind : {"absent", "empty", "torn", "whole"}, account : Accounts \cup {NULL}]

Calling ==
    [doing : Doings, issued : Nat, due : Nat, first : BOOLEAN, keys : SUBSET {"old", "new"}]

\* Type correctness.
TypeInv ==
    /\ clock \in Nat
    /\ path \in File /\ tmp \in File
    /\ fd \in [Commands -> {"tmp", "path", "gone", "none"}]
    /\ store \in [Commands -> Accounts \cup {NULL}]
    /\ pc \in [Commands -> Places]
    /\ raced \subseteq {"save", "change"}
    /\ cache \in [keys : SUBSET {"old", "new"}, expires : Nat]
    /\ call \in [Commands -> Calling]

-----------------------------------------------------------------------------
\* The files that there are.
LEMMA FileTypes ==
    /\ Absent \in File /\ Empty \in File /\ Torn \in File
    /\ \A a \in Accounts \cup {NULL} :
          Whole(a) \in File /\ Whole(a).kind = "whole" /\ Whole(a).account = a
    /\ Absent.account = NULL /\ Empty.account = NULL /\ Torn.account = NULL
    /\ Absent.kind = "absent" /\ Empty.kind = "empty" /\ Torn.kind = "torn"
  BY DEF Absent, Empty, Torn, Whole, File

\* An account is one.
LEMMA AccountType ==
    ASSUME NEW issued \in Nat, NEW received \in Nat
    PROVE  /\ Account(issued, received) \in Accounts
           /\ Account(issued, received) # NULL
           /\ Account(issued, received).issued = issued
           /\ Account(issued, received).expires = received + Lifetime
  <1>1. Account(issued, received) \in Accounts
    BY NaturalAssumption DEF Account, Accounts
  <1> QED
    BY <1>1, AccountsAssumption DEF Account

\* A call begins.
LEMMA BeginType ==
    ASSUME TypeInv, NEW c \in Commands, NEW doing \in Doings, NEW issued \in Nat,
           NEW first \in BOOLEAN, Begin(c, doing, issued, first)
    PROVE  /\ call' \in [Commands -> Calling]
           /\ call'[c].doing = doing /\ call'[c].issued = issued /\ call'[c].first = first
           /\ call'[c].keys = {}
           /\ call'[c].due = clock + (IF doing = "login" THEN Lag ELSE MaxCall)
           /\ \A d \in Commands \ {c} : call'[d] = call[d]
  <1> DEFINE new == [doing |-> doing, issued |-> issued, first |-> first, keys |-> {},
                     due |-> clock + IF doing = "login" THEN Lag ELSE MaxCall]
  <1>1. new \in Calling
    <2>1. clock + (IF doing = "login" THEN Lag ELSE MaxCall) \in Nat
      BY NaturalAssumption DEF TypeInv
    <2> QED
      BY <2>1 DEF Calling
  <1>2. /\ new.doing = doing /\ new.issued = issued /\ new.first = first /\ new.keys = {}
        /\ new.due = clock + (IF doing = "login" THEN Lag ELSE MaxCall)
    OBVIOUS
  <1>3. call' = [call EXCEPT ![c] = new]
    BY DEF Begin
  <1> HIDE DEF new
  <1>4. call'[c] = new /\ \A d \in Commands \ {c} : call'[d] = call[d]
    BY <1>3 DEF TypeInv
  <1> QED
    BY <1>1, <1>2, <1>3, <1>4 DEF TypeInv

\* A call has its answer.
LEMMA AnsweredType ==
    ASSUME TypeInv, NEW c \in Commands, Answered(c)
    PROVE  /\ call' \in [Commands -> Calling]
           /\ call'[c].doing = call[c].doing /\ call'[c].issued = call[c].issued
           /\ call'[c].first = call[c].first /\ call'[c].keys = {}
           /\ call[c].doing = "login" => call'[c].due = call[c].due
           /\ \A d \in Commands \ {c} : call'[d] = call[d]
  <1> DEFINE new == [call[c] EXCEPT !.keys = {},
                        !.due = IF call[c].doing = "login" THEN @ ELSE 0]
  <1>1. call[c] \in Calling
    BY DEF TypeInv
  <1>2. /\ new \in Calling
        /\ new.doing = call[c].doing /\ new.issued = call[c].issued
        /\ new.first = call[c].first /\ new.keys = {}
        /\ call[c].doing = "login" => new.due = call[c].due
    BY <1>1 DEF Calling
  <1>3. call' = [call EXCEPT ![c] = new]
    BY DEF Answered, TypeInv
  <1> HIDE DEF new
  <1>4. call'[c] = new /\ \A d \in Commands \ {c} : call'[d] = call[d]
    BY <1>3 DEF TypeInv
  <1> QED
    BY <1>2, <1>3, <1>4 DEF TypeInv

\* The command's word about a token.
LEMMA VerdictType == \A c, keys : Verdict(c, keys) \in {"served", "refused"}
  BY DEF Verdict

\* A command that is somewhere goes somewhere.
LEMMA GotoType ==
    ASSUME TypeInv, NEW c \in Commands, NEW where \in Places, Goto(c, where)
    PROVE  /\ pc' \in [Commands -> Places] /\ pc'[c] = where
           /\ \A d \in Commands \ {c} : pc'[d] = pc[d]
  BY DEF Goto, TypeInv

-----------------------------------------------------------------------------
\* Types hold initially.
LEMMA InitType == Init => TypeInv
  <1> SUFFICES ASSUME Init PROVE TypeInv
    OBVIOUS
  <1>1. Idle \in Calling
    BY DEF Idle, Calling, Doings
  <1>2. /\ pc \in [Commands -> Places] /\ call \in [Commands -> Calling]
        /\ cache \in [keys : SUBSET {"old", "new"}, expires : Nat] /\ clock \in Nat
    BY <1>1 DEF Init, Places
  <1>3. /\ path \in File /\ tmp \in File
        /\ fd \in [Commands -> {"tmp", "path", "gone", "none"}]
        /\ store \in [Commands -> Accounts \cup {NULL}]
        /\ raced \subseteq {"save", "change"}
    BY FileTypes DEF Init, FilesInit
  <1> QED
    BY <1>2, <1>3 DEF TypeInv

\* What a command loads.
LEMMA LoadType ==
    ASSUME TypeInv, NEW c \in Commands, NEW account \in Accounts \cup {NULL},
           NEW where \in Places, Load(c, account, where)
    PROVE  /\ pc' \in [Commands -> Places] /\ store' \in [Commands -> Accounts \cup {NULL}]
           /\ raced' \subseteq {"save", "change"} /\ raced \subseteq raced'
           /\ path' = path /\ tmp' = tmp /\ fd' = fd
           /\ store'[c] = account /\ \A d \in Commands \ {c} : store'[d] = store[d]
           /\ pc'[c] = where /\ \A d \in Commands \ {c} : pc'[d] = pc[d]
           /\ Others(c, Changing) => "change" \in raced'
           /\ "save" \in raced' => "save" \in raced
  <1>1. /\ pc' \in [Commands -> Places] /\ pc'[c] = where
        /\ \A d \in Commands \ {c} : pc'[d] = pc[d]
    BY GotoType DEF Load
  <1>2. /\ store' \in [Commands -> Accounts \cup {NULL}]
        /\ store'[c] = account /\ \A d \in Commands \ {c} : store'[d] = store[d]
    BY DEF Load, TypeInv
  <1>3. raced' = raced \cup IF Others(c, Changing) THEN {"change"} ELSE {}
    BY DEF Load
  <1>4. path' = path /\ tmp' = tmp /\ fd' = fd
    BY DEF Load
  <1> QED
    BY <1>1, <1>2, <1>3, <1>4 DEF TypeInv

\* A command ends.
LEMMA EndsType ==
    ASSUME TypeInv, NEW c \in Commands, Ends(c)
    PROVE  /\ pc' \in [Commands -> Places] /\ store' \in [Commands -> Accounts \cup {NULL}]
           /\ pc'[c] = "idle" /\ \A d \in Commands \ {c} : pc'[d] = pc[d]
           /\ store'[c] = NULL /\ \A d \in Commands \ {c} : store'[d] = store[d]
  BY GotoType DEF Ends, TypeInv, Places

\* What the open files are called after a rename.
LEMMA RenamedType ==
    ASSUME TypeInv, NEW c \in Commands, NEW to \in {"path", "gone"}, Renamed(c, to)
    PROVE  /\ fd' \in [Commands -> {"tmp", "path", "gone", "none"}]
           /\ fd'[c] = "none"
           /\ \A d \in Commands : fd[d] = "none" => fd'[d] = "none"
           /\ \A d \in Commands : fd'[d] = "tmp" => FALSE
  BY DEF Renamed, TypeInv

\* The steps of a save.
LEMMA SaveType ==
    ASSUME TypeInv, NEW c \in Commands, Save(c)
    PROVE  TypeInv'
  <1>1. /\ clock' \in Nat /\ cache' \in [keys : SUBSET {"old", "new"}, expires : Nat]
        /\ call' \in [Commands -> Calling]
    <2>1. Idle \in Calling
      BY DEF Idle, Calling, Doings
    <2> QED
      BY <2>1 DEF Save, TypeInv
  <1> SUFFICES /\ path' \in File /\ tmp' \in File
               /\ fd' \in [Commands -> {"tmp", "path", "gone", "none"}]
               /\ store' \in [Commands -> Accounts \cup {NULL}]
               /\ pc' \in [Commands -> Places]
               /\ raced' \subseteq {"save", "change"}
    BY <1>1 DEF TypeInv
  <1>2. CASE OpenTmp(c)
    <2>1. pc' \in [Commands -> Places] /\ tmp' \in File
      BY <1>2, GotoType, FileTypes DEF OpenTmp, Places
    <2>2. raced' \subseteq {"save", "change"} /\ path' \in File
      BY <1>2 DEF OpenTmp, TypeInv
    <2>3. fd' \in [Commands -> {"tmp", "path", "gone", "none"}]
      BY <1>2 DEF OpenTmp, TypeInv
    <2>4. store' = store
      BY <1>2 DEF OpenTmp
    <2> QED
      BY <2>1, <2>2, <2>3, <2>4 DEF TypeInv
  <1>3. CASE WriteTmp(c)
    <2>1. pc' \in [Commands -> Places]
      BY <1>3, GotoType DEF WriteTmp, Places
    <2>2. store' \in [Commands -> Accounts \cup {NULL}]
      BY <1>3 DEF WriteTmp, TypeInv
    <2>3. \A old : Overwritten(old, store[c]) \subseteq File
      <3>1. store[c] \in Accounts \cup {NULL}
        BY DEF TypeInv
      <3> QED
        BY <3>1, FileTypes DEF Overwritten
    <2>4. path' \in File /\ tmp' \in File
      BY <1>3, <2>3 DEF WriteTmp, TypeInv
    <2>5. fd' = fd /\ raced' = raced
      BY <1>3 DEF WriteTmp
    <2> QED
      BY <2>1, <2>2, <2>4, <2>5 DEF TypeInv
  <1>4. CASE Rename(c, call[c].doing = "call")
    <2>1. pc' \in [Commands -> Places]
      BY <1>4, GotoType DEF Rename, Places
    <2>2. fd' \in [Commands -> {"tmp", "path", "gone", "none"}]
      BY <1>4, RenamedType DEF Rename
    <2>3. path' \in File /\ tmp' \in File
      BY <1>4, FileTypes DEF Rename, TypeInv
    <2>4. store' = store /\ raced' = raced
      BY <1>4 DEF Rename
    <2> QED
      BY <2>1, <2>2, <2>3, <2>4 DEF TypeInv
  <1>5. CASE SaveFails(c)
    <2>1. pc' \in [Commands -> Places] /\ store' \in [Commands -> Accounts \cup {NULL}]
      BY <1>5, EndsType DEF SaveFails
    <2>2. fd' \in [Commands -> {"tmp", "path", "gone", "none"}]
      BY <1>5, RenamedType DEF SaveFails
    <2>3. path' \in File /\ tmp' \in File /\ raced' = raced
      BY <1>5, FileTypes DEF SaveFails, TypeInv
    <2> QED
      BY <2>1, <2>2, <2>3 DEF TypeInv
  <1> QED
    BY <1>2, <1>3, <1>4, <1>5 DEF Save

\* Types hold in every state.
LEMMA NextType == TypeInv /\ [Next]_vars => TypeInv'
  <1> SUFFICES ASSUME TypeInv, [Next]_vars PROVE TypeInv'
    OBVIOUS
  <1> USE NaturalAssumption
  <1>1. CASE Tick
    BY <1>1 DEF Tick, TypeInv, files
  <1>2. ASSUME NEW c \in Commands, Login(c) PROVE TypeInv'
    BY <1>2, BeginType, GotoType DEF Login, TypeInv, files, Doings, Places
  <1>3. ASSUME NEW c \in Commands, KeepLogin(c) PROVE TypeInv'
    <2>1. Account(call[c].issued, clock) \in Accounts
      BY AccountType DEF TypeInv, Calling
    <2> QED
      BY <1>3, <2>1, LoadType DEF KeepLogin, TypeInv, Places
  <1>4. ASSUME NEW c \in Commands, ResolveFresh(c) PROVE TypeInv'
    <2>1. path.account \in Accounts
      BY <1>4 DEF ResolveFresh, TypeInv, File
    <2>2. path.account.issued \in Nat
      BY <2>1 DEF Accounts
    <2> QED
      BY <1>4, <2>2, LoadType, BeginType DEF ResolveFresh, TypeInv, Places, Doings
  <1>5. ASSUME NEW c \in Commands, ResolveStale(c) PROVE TypeInv'
    <2>1. path.account \in Accounts
      BY <1>5 DEF ResolveStale, TypeInv, File
    <2> QED
      BY <1>5, <2>1, LoadType DEF ResolveStale, TypeInv, Places
  <1>6. ASSUME NEW c \in Commands, Refreshed(c) PROVE TypeInv'
    <2>1. PICK issued \in {t \in Clocks : t <= clock /\ clock <= t + Lag} :
             store' = [store EXCEPT ![c] = Account(issued, clock)] /\ Begin(c, "call", issued, TRUE)
      BY <1>6 DEF Refreshed
    <2>0. issued \in Nat
      BY DEF Clocks
    <2>2. Account(issued, clock) \in Accounts
      BY <2>0, AccountType DEF TypeInv
    <2>3. store' \in [Commands -> Accounts \cup {NULL}]
      BY <2>1, <2>2 DEF TypeInv
    <2>4. call' \in [Commands -> Calling]
      BY <2>1, <2>0, BeginType DEF Doings
    <2>5. pc' \in [Commands -> Places]
      BY <1>6, GotoType DEF Refreshed, Places
    <2> QED
      BY <1>6, <2>3, <2>4, <2>5 DEF Refreshed, TypeInv
  <1>7. ASSUME NEW c \in Commands, RefreshFails(c) PROVE TypeInv'
    BY <1>7, BeginType, GotoType DEF RefreshFails, TypeInv, Places, Doings
  <1>8. ASSUME NEW c \in Commands, Logout(c) PROVE TypeInv'
    BY <1>8, LoadType, BeginType DEF Logout, TypeInv, Places, Doings
  <1>9. ASSUME NEW c \in Commands, Save(c) PROVE TypeInv'
    BY <1>9, SaveType
  <1>10. ASSUME NEW c \in Commands, CallAgain(c) PROVE TypeInv'
    <2>1. call[c].issued \in Nat
      BY DEF TypeInv, Calling
    <2> QED
      BY <1>10, <2>1, BeginType, GotoType DEF CallAgain, TypeInv, Places, Doings, files
  <1>11. ASSUME NEW c \in Commands, End(c) PROVE TypeInv'
    <2>1. Idle \in Calling
      BY DEF Idle, Calling, Doings
    <2>2. path' \in File /\ tmp' \in File
      BY <1>11, FileTypes DEF End, Kill, TypeInv
    <2>3. fd' \in [Commands -> {"tmp", "path", "gone", "none"}]
      BY <1>11 DEF End, Kill, TypeInv
    <2>4. pc' \in [Commands -> Places] /\ store' \in [Commands -> Accounts \cup {NULL}]
      BY <1>11, EndsType DEF End, Kill
    <2>5. call' \in [Commands -> Calling]
      BY <1>11, <2>1 DEF End, TypeInv
    <2> QED
      BY <1>11, <2>2, <2>3, <2>4, <2>5 DEF End, Kill, TypeInv
  <1>12. ASSUME NEW c \in Commands, Cached(c) PROVE TypeInv'
    <2>1. Verdict(c, cache.keys) \in Places
      BY VerdictType DEF Places
    <2> QED
      BY <1>12, <2>1, GotoType, AnsweredType DEF Cached, TypeInv, files
  <1>13. ASSUME NEW c \in Commands, Fetch(c) PROVE TypeInv'
    BY <1>13, GotoType DEF Fetch, TypeInv, files, Places
  <1>14. ASSUME NEW c \in Commands, Answer(c) PROVE TypeInv'
    <2>1. Published(clock) \subseteq {"old", "new"}
      BY DEF Published
    <2>2. call[c] \in Calling
      BY DEF TypeInv
    <2>3. [call[c] EXCEPT !.keys = Published(clock)] \in Calling
      BY <2>1, <2>2 DEF Calling
    <2>4. call' = [call EXCEPT ![c] = [call[c] EXCEPT !.keys = Published(clock)]]
      BY <1>14 DEF Answer
    <2> QED
      BY <1>14, <2>3, <2>4 DEF Answer, TypeInv, files
  <1>15. ASSUME NEW c \in Commands, Install(c) PROVE TypeInv'
    <2>1. Verdict(c, call[c].keys) \in Places
      BY VerdictType DEF Places
    <2>2. cache' \in [keys : SUBSET {"old", "new"}, expires : Nat]
      <3>1. clock + TTL \in Nat /\ call[c].keys \in SUBSET {"old", "new"}
        BY DEF TypeInv, Calling
      <3> QED
        BY <1>15, <3>1 DEF Install
    <2> QED
      BY <1>15, <2>1, <2>2, GotoType, AnsweredType DEF Install, TypeInv, files
  <1>16. ASSUME NEW c \in Commands, FetchFails(c) PROVE TypeInv'
    BY <1>16, GotoType, AnsweredType DEF FetchFails, TypeInv, files, Places
  <1>17. CASE UNCHANGED vars
    BY <1>17 DEF vars, files, TypeInv
  <1> QED
    BY <1>1, <1>2, <1>3, <1>4, <1>5, <1>6, <1>7, <1>8, <1>9, <1>10, <1>11, <1>12, <1>13, <1>14,
       <1>15, <1>16, <1>17 DEF Next

-----------------------------------------------------------------------------
(* The file.                                                                *)

Writing == {"write", "rename"}

\* What is open is being written.  Until two save at once, one writes, to a
\* file it has emptied, and what gets its name is whole; until two change the
\* file at once, one changes it.
FilesInv ==
    /\ \A c \in Commands : fd[c] # "none" => pc[c] \in Writing
    /\ "save" \in raced => "change" \in raced
    /\ "save" \notin raced =>
          /\ path.kind \in {"absent", "whole"}
          /\ \A c, d \in Commands : pc[c] \in Writing /\ pc[d] \in Writing => c = d
          /\ \A c \in Commands : pc[c] = "write" => tmp = Empty /\ fd[c] = "tmp"
          /\ \A c \in Commands : pc[c] = "rename" => tmp.kind = "whole"
    /\ "change" \notin raced =>
          \A c, d \in Commands : pc[c] \in Changing /\ pc[d] \in Changing => c = d

\* A step that leaves the files alone, of a command that does not change them.
LEMMA FilesKept ==
    ASSUME FilesInv, UNCHANGED <<path, tmp, fd, raced>>,
           \A d \in Commands : pc'[d] = pc[d] \/ {pc[d], pc'[d]} \cap Changing = {}
    PROVE  FilesInv'
  <1>1. \A d \in Commands : pc'[d] \in Writing \/ pc[d] \in Writing => pc'[d] = pc[d]
    BY DEF Writing, Changing, Saving
  <1>2. \A d \in Commands : pc'[d] \in Changing => pc'[d] = pc[d]
    OBVIOUS
  <1> QED
    BY <1>1, <1>2 DEF FilesInv, Writing

\* A command loads the file.
LEMMA FilesLoaded ==
    ASSUME TypeInv, FilesInv, NEW c \in Commands, pc[c] \notin Changing,
           NEW account \in Accounts \cup {NULL},
           NEW where \in {"send", "refresh", "open"}, Load(c, account, where)
    PROVE  FilesInv'
  <1>1. where \in Places
    BY DEF Places
  <1>2. /\ path' = path /\ tmp' = tmp /\ fd' = fd
        /\ pc'[c] = where /\ \A d \in Commands \ {c} : pc'[d] = pc[d]
        /\ Others(c, Changing) => "change" \in raced'
        /\ "save" \in raced' => "save" \in raced
        /\ raced \subseteq raced'
    BY <1>1, LoadType
  <1>3. \A d \in Commands : pc'[d] \in Writing \/ pc[d] \in Writing => pc'[d] = pc[d]
    BY <1>2 DEF Writing, Changing, Saving
  <1>4. "change" \notin raced' => \A d \in Commands \ {c} : pc[d] \notin Changing
    BY <1>2 DEF Others
  <1>5. "change" \notin raced' =>
           \A d, e \in Commands : pc'[d] \in Changing /\ pc'[e] \in Changing => d = e
    BY <1>2, <1>4
  <1>6. "save" \in raced' => "change" \in raced'
    BY <1>2 DEF FilesInv
  <1> QED
    BY <1>2, <1>3, <1>5, <1>6 DEF FilesInv, Writing

\* The temporary file is opened.
LEMMA FilesOpened ==
    ASSUME TypeInv, FilesInv, NEW c \in Commands, OpenTmp(c)
    PROVE  FilesInv'
  <1>1. /\ pc[c] = "open" /\ path' = path /\ tmp' = Empty
        /\ fd'[c] = "tmp" /\ \A d \in Commands \ {c} : fd'[d] = fd[d]
        /\ pc'[c] = "write" /\ \A d \in Commands \ {c} : pc'[d] = pc[d]
    BY GotoType DEF OpenTmp, Places, TypeInv
  <1>2. /\ raced \subseteq raced'
        /\ "save" \notin raced' => \A d \in Commands \ {c} : pc[d] \notin Saving
        /\ "save" \in raced' => "save" \in raced \/ "change" \in raced'
    BY DEF OpenTmp, Others
  <1>3. \A d \in Commands : pc'[d] \in Changing => pc[d] \in Changing
    BY <1>1 DEF Changing, Saving
  <1>4. "save" \notin raced' => \A d \in Commands : pc'[d] \in Writing => d = c
    BY <1>1, <1>2 DEF Writing, Saving
  <1>5. \A d \in Commands : fd'[d] # "none" => pc'[d] \in Writing
    BY <1>1 DEF FilesInv, Writing
  <1>6. "save" \notin raced' => path'.kind \in {"absent", "whole"}
    BY <1>1, <1>2 DEF FilesInv
  <1>7. "save" \in raced' => "change" \in raced'
    BY <1>2 DEF FilesInv
  <1>8. "change" \notin raced' =>
           \A d, e \in Commands : pc'[d] \in Changing /\ pc'[e] \in Changing => d = e
    BY <1>2, <1>3 DEF FilesInv
  <1>9. "save" \notin raced' =>
           /\ \A d \in Commands : pc'[d] = "write" => tmp' = Empty /\ fd'[d] = "tmp"
           /\ \A d \in Commands : pc'[d] = "rename" => tmp'.kind = "whole"
    BY <1>1, <1>4 DEF Writing
  <1> QED
    BY <1>4, <1>5, <1>6, <1>7, <1>8, <1>9 DEF FilesInv

\* It is written: while nobody else writes, all of it.
LEMMA FilesWritten ==
    ASSUME TypeInv, FilesInv, NEW c \in Commands, WriteTmp(c)
    PROVE  /\ FilesInv'
           /\ "save" \notin raced' => path' = path /\ tmp' = Whole(store[c])
  <1>1. /\ pc[c] = "write" /\ fd' = fd /\ raced' = raced
        /\ pc'[c] = "rename" /\ \A d \in Commands \ {c} : pc'[d] = pc[d]
    BY GotoType DEF WriteTmp, Places
  <1>2. ASSUME "save" \notin raced
        PROVE  path' = path /\ tmp' = Whole(store[c]) /\ tmp'.kind = "whole"
    <2>1. fd[c] = "tmp" /\ tmp = Empty
      BY <1>1, <1>2 DEF FilesInv
    <2>2. Overwritten(tmp, store[c]) = {Whole(store[c])}
      BY <2>1 DEF Overwritten, Empty
    <2>3. store[c] \in Accounts \cup {NULL}
      BY DEF TypeInv
    <2> QED
      BY <2>1, <2>2, <2>3, FileTypes DEF WriteTmp
  <1>3. \A d \in Commands : pc'[d] \in Changing => pc[d] \in Changing
    BY <1>1 DEF Changing, Saving
  <1>4. \A d \in Commands : pc'[d] \in Writing => pc[d] \in Writing
    BY <1>1 DEF Writing
  <1>5. \A d \in Commands : fd'[d] # "none" => pc'[d] \in Writing
    BY <1>1 DEF FilesInv, Writing
  <1>6. ASSUME "save" \notin raced
        PROVE  /\ \A d, e \in Commands : pc'[d] \in Writing /\ pc'[e] \in Writing => d = e
               /\ \A d \in Commands : pc'[d] = "write" => FALSE
    BY <1>1, <1>4, <1>6 DEF FilesInv, Writing
  <1> QED
    BY <1>1, <1>2, <1>3, <1>5, <1>6 DEF FilesInv

\* It takes the file's name.
LEMMA FilesRenamed ==
    ASSUME TypeInv, FilesInv, NEW c \in Commands, NEW goes_on, Rename(c, goes_on)
    PROVE  FilesInv'
  <1> DEFINE where == IF goes_on THEN "send" ELSE "idle"
  <1>1. where \in Places /\ where \notin Changing
    BY DEF Places, Changing, Saving
  <1>2. Goto(c, where) /\ pc[c] = "rename" /\ raced' = raced /\ path' = tmp /\ Renamed(c, "path")
    BY DEF Rename
  <1> HIDE DEF where
  <1>3. pc'[c] = where /\ \A d \in Commands \ {c} : pc'[d] = pc[d]
    BY <1>1, <1>2, GotoType
  <1>4. fd'[c] = "none" /\ \A d \in Commands : fd[d] = "none" => fd'[d] = "none"
    BY <1>2, RenamedType
  <1>5. \A d \in Commands : fd'[d] # "none" => pc'[d] \in Writing
    BY <1>3, <1>4 DEF FilesInv
  <1>6. \A d \in Commands : pc'[d] \in Changing => pc[d] \in Changing
    BY <1>1, <1>3
  <1>7. ASSUME "save" \notin raced
        PROVE  /\ path'.kind = "whole"
               /\ \A d \in Commands : pc'[d] \notin Writing
    BY <1>1, <1>2, <1>3, <1>7 DEF FilesInv, Writing, Changing, Saving
  <1> QED
    BY <1>2, <1>5, <1>6, <1>7 DEF FilesInv, Writing

\* A command ends, and what it had open is lost: its file is untouched, or it
\* was the temporary one's writer.
LEMMA FilesEnded ==
    ASSUME TypeInv, FilesInv, NEW c \in Commands, SaveFails(c) \/ Kill(c)
    PROVE  /\ FilesInv'
           /\ "save" \notin raced' => path' = path
  <1>1. pc'[c] = "idle" /\ \A d \in Commands \ {c} : pc'[d] = pc[d]
    BY EndsType DEF SaveFails, Kill
  <1>2. raced' = raced
    BY DEF SaveFails, Kill
  <1>3. fd'[c] = "none" /\ \A d \in Commands : fd[d] = "none" => fd'[d] = "none"
    BY RenamedType DEF SaveFails, Kill, TypeInv
  <1>4. \A d \in Commands : fd'[d] # "none" => pc'[d] \in Writing
    BY <1>1, <1>3 DEF FilesInv
  <1>5. \A d \in Commands : /\ pc'[d] \in Changing => pc[d] \in Changing /\ d # c
                            /\ pc'[d] \in Writing => pc[d] \in Writing /\ d # c
    BY <1>1 DEF Changing, Saving, Writing
  <1>6. ASSUME "save" \notin raced
        PROVE  path' = path
    BY <1>6 DEF FilesInv, SaveFails, Kill
  <1>7. ASSUME "save" \notin raced, NEW d \in Commands, pc'[d] \in Writing
        PROVE  pc[d] \in Writing /\ pc'[d] = pc[d] /\ tmp' = tmp /\ fd'[d] = fd[d]
    <2>1. pc[d] \in Writing /\ d # c
      BY <1>5, <1>7
    <2>2. pc[c] \notin Writing
      BY <1>7, <2>1 DEF FilesInv
    <2>3. Kill(c) /\ pc[c] # "write"
      BY <2>2 DEF SaveFails, Writing
    <2> QED
      BY <1>1, <2>1, <2>3 DEF Kill, TypeInv
  <1> QED
    BY <1>2, <1>4, <1>5, <1>6, <1>7 DEF FilesInv, Writing

\* A refresh ends, one way or the other: the command has what it will write.
LEMMA FilesKnown ==
    ASSUME TypeInv, FilesInv, NEW c \in Commands, pc[c] = "refresh", Goto(c, "open"),
           UNCHANGED <<path, tmp, fd, raced>>
    PROVE  FilesInv'
  <1>1. pc'[c] = "open" /\ \A d \in Commands \ {c} : pc'[d] = pc[d]
    BY GotoType DEF Places
  <1>2. \A d \in Commands : pc'[d] \in Changing => pc[d] \in Changing
    BY <1>1 DEF Changing, Saving
  <1>3. \A d \in Commands : pc'[d] \in Writing \/ pc[d] \in Writing => pc'[d] = pc[d]
    BY <1>1 DEF Writing
  <1> QED
    BY <1>2, <1>3 DEF FilesInv, Writing

\* No file is touched at first.
LEMMA InitFiles == Init => FilesInv
  BY FileTypes DEF Init, FilesInit, FilesInv, Writing, Changing, Saving

\* A step keeps the files in order.
LEMMA NextFiles == TypeInv /\ FilesInv /\ [Next]_vars => FilesInv'
  <1> SUFFICES ASSUME TypeInv, FilesInv, [Next]_vars PROVE FilesInv'
    OBVIOUS
  <1>1. CASE Tick \/ UNCHANGED vars
    <2>1. UNCHANGED <<path, tmp, fd, raced>> /\ pc' = pc
      BY <1>1 DEF Tick, vars, files
    <2> QED
      BY <2>1, FilesKept
  <1>2. ASSUME NEW c \in Commands,
               Login(c) \/ CallAgain(c) \/ Cached(c) \/ Fetch(c) \/ Answer(c) \/ Install(c)
                  \/ FetchFails(c)
        PROVE  FilesInv'
    <2>1. UNCHANGED <<path, tmp, fd, raced>>
      BY <1>2 DEF Login, CallAgain, Cached, Fetch, Answer, Install, FetchFails, files
    <2>2. /\ pc[c] \in {"idle", "served", "send", "fetch"}
          /\ pc' = pc
             \/ \E where \in {"send", "served", "refused", "fetch", "unchecked"} : Goto(c, where)
      BY <1>2, VerdictType
         DEF Login, CallAgain, Cached, Fetch, Answer, Install, FetchFails
    <2>3. ASSUME NEW where \in {"send", "served", "refused", "fetch", "unchecked"},
                 Goto(c, where)
          PROVE  pc'[c] = where /\ \A d \in Commands \ {c} : pc'[d] = pc[d]
      BY <2>3, GotoType DEF Places
    <2>4. \A d \in Commands : pc'[d] = pc[d] \/ {pc[d], pc'[d]} \cap Changing = {}
      BY <2>2, <2>3 DEF Changing, Saving
    <2> QED
      BY <2>1, <2>4, FilesKept
  <1>3. ASSUME NEW c \in Commands,
               KeepLogin(c) \/ ResolveFresh(c) \/ ResolveStale(c) \/ Logout(c)
        PROVE  FilesInv'
    <2>1. pc[c] \in {"idle", "served"} /\ pc[c] \notin Changing
      BY <1>3 DEF KeepLogin, ResolveFresh, ResolveStale, Logout, Changing, Saving
    <2>2. Account(call[c].issued, clock) \in Accounts
      BY AccountType DEF TypeInv, Calling
    <2>3. path.account \in Accounts \cup {NULL}
      BY DEF TypeInv, File
    <2>4. \E account \in Accounts \cup {NULL}, where \in {"send", "refresh", "open"} :
             Load(c, account, where)
      BY <1>3, <2>2, <2>3 DEF KeepLogin, ResolveFresh, ResolveStale, Logout
    <2> QED
      BY <2>1, <2>4, FilesLoaded
  <1>4. ASSUME NEW c \in Commands, Refreshed(c) \/ RefreshFails(c) PROVE FilesInv'
    BY <1>4, FilesKnown DEF Refreshed, RefreshFails
  <1>5. ASSUME NEW c \in Commands, Save(c) PROVE FilesInv'
    BY <1>5, FilesOpened, FilesWritten, FilesRenamed, FilesEnded DEF Save
  <1>6. ASSUME NEW c \in Commands, End(c) PROVE FilesInv'
    BY <1>6, FilesEnded DEF End
  <1> QED
    BY <1>1, <1>2, <1>3, <1>4, <1>5, <1>6 DEF Next

\* Types and files are in order in every reachable state.
THEOREM FilesInvariant == Spec => [](TypeInv /\ FilesInv)
  <1>1. Init => TypeInv /\ FilesInv
    BY InitType, InitFiles
  <1>2. TypeInv /\ FilesInv /\ [Next]_vars => (TypeInv /\ FilesInv)'
    BY NextType, NextFiles
  <1> QED
    BY <1>1, <1>2, PTL DEF Spec

\* As long as no two commands saved at the same time, the credentials file is
\* absent or whole: no crash of save_to in credentials.rs leaves half of one.
THEOREM FileStaysWhole == Spec => []FileIsWhole
  <1>1. TypeInv /\ FilesInv => FileIsWhole
    BY DEF TypeInv, FilesInv, FileIsWhole
  <1> QED
    BY <1>1, FilesInvariant, PTL

-----------------------------------------------------------------------------
(* What a command writes, and why.                                          *)

Leaves == {"logout", "drop"}
Purposes == {"login", "call"} \cup Leaves

\* A command that saves does it for one of four reasons, and takes the account
\* out for two of them; the file has an account where one is refreshed.
Reason(c) ==
    /\ pc[c] \in {"open", "write"} =>
          call[c].doing \in Purposes /\ (store[c] = NULL <=> call[c].doing \in Leaves)
    /\ "save" \notin raced /\ pc[c] = "rename" =>
          call[c].doing \in Purposes /\ (tmp.account = NULL <=> call[c].doing \in Leaves)
    /\ "change" \notin raced /\ (pc[c] = "refresh" \/ (pc[c] \in Saving /\ call[c].doing = "call"))
          => path.account # NULL

ReasonInv == \A c \in Commands : Reason(c)

\* A command's reason stands while others touch only what it does not use.
LEMMA ReasonStands ==
    ASSUME NEW d \in Commands, Reason(d),
           pc'[d] = pc[d], store'[d] = store[d], call'[d] = call[d], raced \subseteq raced',
           "save" \notin raced' /\ pc[d] = "rename" => tmp' = tmp,
           "change" \notin raced' /\ pc[d] \in Changing => path' = path
    PROVE  Reason(d)'
  <1>1. pc'[d] \in Saving \/ pc'[d] = "refresh" => pc[d] \in Changing
    BY DEF Changing
  <1> QED
    BY <1>1 DEF Reason

\* A command that is nowhere near the file needs none.
LEMMA ReasonUnneeded == \A d \in Commands : pc[d] \notin Changing => Reason(d)
  BY DEF Reason, Changing, Saving

\* Initially no command saves.
LEMMA InitReason == Init => ReasonInv
  BY DEF Init, ReasonInv, Reason, Saving

\* The steps that touch neither file and no command that uses them.
LEMMA ReasonKept ==
    ASSUME ReasonInv, NEW c \in Commands, UNCHANGED <<path, tmp>>, raced \subseteq raced',
           \A d \in Commands \ {c} : pc'[d] = pc[d] /\ store'[d] = store[d] /\ call'[d] = call[d],
           Reason(c)'
    PROVE  ReasonInv'
  <1>1. ASSUME NEW d \in Commands \ {c} PROVE Reason(d)'
    BY ReasonStands DEF ReasonInv
  <1> QED
    BY <1>1 DEF ReasonInv

\* The steps of a save, with what follows for the account in the file.
LEMMA SaveReason ==
    ASSUME TypeInv, FilesInv, ReasonInv, NEW c \in Commands, Save(c)
    PROVE  ReasonInv'
  <1>1. /\ \A d \in Commands \ {c} : call'[d] = call[d]
        /\ pc'[c] # "idle" => call'[c] = call[c]
    BY DEF Save, TypeInv
  <1>2. CASE OpenTmp(c)
    <2>1. /\ path' = path /\ store' = store /\ pc[c] = "open"
          /\ pc'[c] = "write" /\ \A d \in Commands \ {c} : pc'[d] = pc[d]
          /\ raced \subseteq raced'
          /\ "save" \notin raced' => \A d \in Commands \ {c} : pc[d] \notin Saving
      BY <1>2, GotoType DEF OpenTmp, Places, Others
    <2>2. ASSUME NEW d \in Commands \ {c} PROVE Reason(d)'
      <3>1. Reason(d)
        BY DEF ReasonInv
      <3>2. "save" \notin raced' => pc[d] # "rename"
        BY <2>1 DEF Saving
      <3> QED
        BY <1>1, <2>1, <3>1, <3>2, ReasonStands
    <2>3. Reason(c)
      BY DEF ReasonInv
    <2>4. Reason(c)'
      BY <1>1, <2>1, <2>3 DEF Reason, Saving
    <2> QED
      BY <2>2, <2>4 DEF ReasonInv
  <1>3. CASE WriteTmp(c)
    <2>1. /\ pc[c] = "write" /\ raced' = raced
          /\ pc'[c] = "rename" /\ \A d \in Commands \ {c} : pc'[d] = pc[d]
          /\ \A d \in Commands \ {c} : store'[d] = store[d]
      BY <1>3, GotoType DEF WriteTmp, Places, TypeInv
    <2>2. "save" \notin raced => path' = path /\ tmp' = Whole(store[c])
      BY <1>3, <2>1, FilesWritten
    <2>3. "save" \in raced => "change" \in raced
      BY DEF FilesInv
    <2>4. ASSUME NEW d \in Commands \ {c} PROVE Reason(d)'
      <3>1. Reason(d)
        BY DEF ReasonInv
      <3>2. "save" \notin raced => pc[d] # "rename"
        BY <2>1 DEF FilesInv, Writing
      <3> QED
        BY <1>1, <2>1, <2>2, <2>3, <3>1, <3>2, ReasonStands
    <2>5. Reason(c)
      BY DEF ReasonInv
    <2>6. "save" \notin raced => tmp'.account = store[c]
      BY <2>2, FileTypes DEF TypeInv
    <2>7. Reason(c)'
      BY <1>1, <2>1, <2>2, <2>3, <2>5, <2>6 DEF Reason, Saving
    <2> QED
      BY <2>4, <2>7 DEF ReasonInv
  <1>4. CASE Rename(c, call[c].doing = "call")
    <2>1. /\ pc[c] = "rename" /\ raced' = raced /\ store' = store
          /\ pc'[c] \in {"send", "idle"} /\ \A d \in Commands \ {c} : pc'[d] = pc[d]
      BY <1>4, GotoType DEF Rename, Places
    <2>2. ASSUME NEW d \in Commands \ {c} PROVE Reason(d)'
      <3>1. Reason(d)
        BY DEF ReasonInv
      <3>2. /\ "change" \notin raced => pc[d] \notin Changing
            /\ "save" \notin raced => pc[d] # "rename"
        BY <2>1 DEF FilesInv, Writing, Changing, Saving
      <3> QED
        BY <1>1, <2>1, <3>1, <3>2, ReasonStands
    <2>3. Reason(c)'
      BY <2>1 DEF Reason, Saving
    <2> QED
      BY <2>2, <2>3 DEF ReasonInv
  <1>5. CASE SaveFails(c)
    <2>1. /\ pc[c] \in Writing /\ raced' = raced /\ path' = path
          /\ \A d \in Commands \ {c} : store'[d] = store[d]
          /\ pc'[c] = "idle" /\ \A d \in Commands \ {c} : pc'[d] = pc[d]
      BY <1>5, EndsType DEF SaveFails, Writing
    <2>2. ASSUME NEW d \in Commands \ {c} PROVE Reason(d)'
      <3>1. Reason(d)
        BY DEF ReasonInv
      <3>2. "save" \notin raced => pc[d] # "rename"
        BY <2>1 DEF FilesInv, Writing
      <3> QED
        BY <1>1, <2>1, <3>1, <3>2, ReasonStands
    <2>3. Reason(c)'
      BY <2>1 DEF Reason, Saving
    <2> QED
      BY <2>2, <2>3 DEF ReasonInv
  <1> QED
    BY <1>2, <1>3, <1>4, <1>5 DEF Save

\* A command that is killed leaves the others' reasons.
LEMMA EndReason ==
    ASSUME TypeInv, FilesInv, ReasonInv, NEW c \in Commands, End(c)
    PROVE  ReasonInv'
  <1>1. /\ \A d \in Commands \ {c} : call'[d] = call[d] /\ pc'[d] = pc[d] /\ store'[d] = store[d]
        /\ raced' = raced /\ pc'[c] = "idle"
    BY EndsType DEF End, Kill, TypeInv
  <1>2. "save" \notin raced => path' = path
    BY <1>1, FilesEnded DEF End
  <1>3. "save" \in raced => "change" \in raced
    BY DEF FilesInv
  <1>4. ASSUME NEW d \in Commands \ {c} PROVE Reason(d)'
    <2>1. Reason(d)
      BY DEF ReasonInv
    <2>2. "save" \notin raced /\ pc[d] = "rename" => tmp' = tmp
      BY DEF End, Kill, FilesInv, Writing
    <2> QED
      BY <1>1, <1>2, <1>3, <2>1, <2>2, ReasonStands
  <1>5. Reason(c)'
    BY <1>1 DEF Reason, Saving
  <1> QED
    BY <1>4, <1>5 DEF ReasonInv

\* A step gives a command that saves its reason, and takes none away.
LEMMA NextReason == TypeInv /\ FilesInv /\ ReasonInv /\ [Next]_vars => ReasonInv'
  <1> SUFFICES ASSUME TypeInv, FilesInv, ReasonInv, [Next]_vars PROVE ReasonInv'
    OBVIOUS
  <1>1. CASE Tick \/ UNCHANGED vars
    <2>1. UNCHANGED <<path, tmp, raced, store, pc, call>>
      BY <1>1 DEF Tick, vars, files
    <2> QED
      BY <2>1 DEF ReasonInv, Reason
  <1>2. ASSUME NEW c \in Commands,
               Login(c) \/ CallAgain(c) \/ Cached(c) \/ Fetch(c) \/ Answer(c) \/ Install(c)
                  \/ FetchFails(c)
        PROVE  ReasonInv'
    <2>1. UNCHANGED <<path, tmp, store, raced>>
      BY <1>2 DEF Login, CallAgain, Cached, Fetch, Answer, Install, FetchFails, files
    <2>2. /\ pc[c] \in {"idle", "served", "send", "fetch"}
          /\ pc' = pc
             \/ \E where \in {"send", "served", "refused", "fetch", "unchecked"} : Goto(c, where)
      BY <1>2, VerdictType
         DEF Login, CallAgain, Cached, Fetch, Answer, Install, FetchFails
    <2>3. ASSUME NEW where \in {"send", "served", "refused", "fetch", "unchecked"},
                 Goto(c, where)
          PROVE  pc'[c] = where /\ \A d \in Commands \ {c} : pc'[d] = pc[d]
      BY <2>3, GotoType DEF Places
    <2>4. pc'[c] \notin Changing /\ \A d \in Commands \ {c} : pc'[d] = pc[d]
      BY <2>2, <2>3 DEF Changing, Saving
    <2>5. \A d \in Commands \ {c} : call'[d] = call[d]
      BY <1>2 DEF Login, CallAgain, Cached, Fetch, Answer, Install, FetchFails, Begin, Answered,
                  TypeInv
    <2>6. Reason(c)'
      BY <2>4 DEF Reason, Changing, Saving
    <2> QED
      BY <2>1, <2>4, <2>5, <2>6, ReasonKept
  <1>3. ASSUME NEW c \in Commands, KeepLogin(c) PROVE ReasonInv'
    <2>1. Account(call[c].issued, clock) \in Accounts /\ Account(call[c].issued, clock) # NULL
      BY AccountType DEF TypeInv, Calling
    <2>2. /\ UNCHANGED <<path, tmp>> /\ raced \subseteq raced'
          /\ \A d \in Commands \ {c} : pc'[d] = pc[d] /\ store'[d] = store[d]
          /\ pc'[c] = "open" /\ store'[c] # NULL
      BY <1>3, <2>1, LoadType DEF KeepLogin, Places
    <2>3. call' = call /\ call[c].doing = "login"
      BY <1>3 DEF KeepLogin
    <2>4. Reason(c)'
      BY <2>2, <2>3 DEF Reason, Purposes, Leaves
    <2> QED
      BY <2>2, <2>3, <2>4, ReasonKept
  <1>4. ASSUME NEW c \in Commands, ResolveFresh(c) PROVE ReasonInv'
    <2>1. /\ UNCHANGED <<path, tmp>> /\ raced \subseteq raced'
          /\ \A d \in Commands \ {c} : pc'[d] = pc[d] /\ store'[d] = store[d]
          /\ pc'[c] = "send"
      BY <1>4, LoadType DEF ResolveFresh, Places
    <2>2. \A d \in Commands \ {c} : call'[d] = call[d]
      BY <1>4 DEF ResolveFresh, Begin, TypeInv
    <2>3. Reason(c)'
      BY <2>1 DEF Reason, Saving
    <2> QED
      BY <2>1, <2>2, <2>3, ReasonKept
  <1>5. ASSUME NEW c \in Commands, ResolveStale(c) PROVE ReasonInv'
    <2>1. path.account \in Accounts /\ path.account # NULL
      BY <1>5 DEF ResolveStale, TypeInv, File
    <2>2. /\ UNCHANGED <<path, tmp>> /\ raced \subseteq raced'
          /\ \A d \in Commands \ {c} : pc'[d] = pc[d] /\ store'[d] = store[d]
          /\ pc'[c] = "refresh"
      BY <1>5, <2>1, LoadType DEF ResolveStale, Places
    <2>3. call' = call
      BY <1>5 DEF ResolveStale
    <2>4. Reason(c)'
      BY <2>1, <2>2 DEF Reason
    <2> QED
      BY <2>2, <2>3, <2>4, ReasonKept
  <1>6. ASSUME NEW c \in Commands, Refreshed(c) \/ RefreshFails(c) PROVE ReasonInv'
    <2>1. /\ UNCHANGED <<path, tmp, raced>> /\ pc[c] = "refresh"
          /\ pc'[c] = "open" /\ \A d \in Commands \ {c} : pc'[d] = pc[d]
      BY <1>6, GotoType DEF Refreshed, RefreshFails, Places
    <2>2. \A d \in Commands \ {c} : store'[d] = store[d] /\ call'[d] = call[d]
      BY <1>6 DEF Refreshed, RefreshFails, Begin, TypeInv
    <2>3. /\ call'[c].doing \in {"call", "drop"}
          /\ store'[c] = NULL <=> call'[c].doing = "drop"
      <3>1. CASE Refreshed(c)
        <4>1. PICK issued \in {t \in Clocks : t <= clock /\ clock <= t + Lag} :
                 store' = [store EXCEPT ![c] = Account(issued, clock)]
                 /\ Begin(c, "call", issued, TRUE)
          BY <3>1 DEF Refreshed
        <4>2. issued \in Nat
          BY DEF Clocks
        <4>3. Account(issued, clock) # NULL
          BY <4>2, AccountType DEF TypeInv
        <4>4. call'[c].doing = "call"
          BY <4>1, <4>2, BeginType DEF Doings
        <4> QED
          BY <4>1, <4>3, <4>4 DEF TypeInv
      <3>2. CASE RefreshFails(c)
        <4>1. call'[c].doing = "drop"
          BY <3>2, BeginType DEF RefreshFails, Doings
        <4> QED
          BY <3>2, <4>1 DEF RefreshFails, TypeInv
      <3> QED
        BY <1>6, <3>1, <3>2
    <2>4. Reason(c)
      BY DEF ReasonInv
    <2>5. Reason(c)'
      BY <2>1, <2>3, <2>4 DEF Reason, Purposes, Leaves
    <2> QED
      BY <2>1, <2>2, <2>5, ReasonKept
  <1>7. ASSUME NEW c \in Commands, Logout(c) PROVE ReasonInv'
    <2>1. /\ UNCHANGED <<path, tmp>> /\ raced \subseteq raced'
          /\ \A d \in Commands \ {c} : pc'[d] = pc[d] /\ store'[d] = store[d]
          /\ pc'[c] = "open" /\ store'[c] = NULL
      BY <1>7, LoadType DEF Logout, Places
    <2>2. call'[c].doing = "logout" /\ \A d \in Commands \ {c} : call'[d] = call[d]
      BY <1>7, BeginType DEF Logout, Doings
    <2>3. Reason(c)'
      BY <2>1, <2>2 DEF Reason, Purposes, Leaves
    <2> QED
      BY <2>1, <2>2, <2>3, ReasonKept
  <1>8. ASSUME NEW c \in Commands, Save(c) \/ End(c) PROVE ReasonInv'
    BY <1>8, SaveReason, EndReason
  <1> QED
    BY <1>1, <1>2, <1>3, <1>4, <1>5, <1>6, <1>7, <1>8 DEF Next

\* Every command that saves has its reason, in every reachable state.
THEOREM ReasonsInvariant == Spec => [](TypeInv /\ FilesInv /\ ReasonInv)
  <1>1. Init => TypeInv /\ FilesInv /\ ReasonInv
    BY InitType, InitFiles, InitReason
  <1>2. TypeInv /\ FilesInv /\ ReasonInv /\ [Next]_vars => (TypeInv /\ FilesInv /\ ReasonInv)'
    BY NextType, NextFiles, NextReason
  <1> QED
    BY <1>1, <1>2, PTL DEF Spec

\* While no two commands save at the same time, the file that commands look for
\* changes by a rename of what one has written, and by nothing else.
LEMMA PathChanges ==
    ASSUME TypeInv, FilesInv, [Next]_vars, "save" \notin raced'
    PROVE  \/ path' = path
           \/ \E c \in Commands : pc[c] = "rename" /\ path' = tmp /\ raced' = raced
  <1>1. ASSUME NEW c \in Commands, Save(c) \/ End(c)
        PROVE  \/ path' = path
               \/ pc[c] = "rename" /\ path' = tmp /\ raced' = raced
    BY <1>1, FilesWritten, FilesEnded DEF Save, End, OpenTmp, WriteTmp, Rename, SaveFails, Kill
  <1>2. ASSUME NEW c \in Commands,
               Login(c) \/ KeepLogin(c) \/ ResolveFresh(c) \/ ResolveStale(c)
               \/ Refreshed(c) \/ RefreshFails(c) \/ Logout(c) \/ CallAgain(c)
               \/ Cached(c) \/ Fetch(c) \/ Answer(c) \/ Install(c) \/ FetchFails(c)
        PROVE  path' = path
    BY <1>2 DEF Login, KeepLogin, ResolveFresh, ResolveStale, Refreshed, RefreshFails, Logout,
                CallAgain, Cached, Fetch, Answer, Install, FetchFails, Load, files
  <1>3. CASE Tick \/ UNCHANGED vars
    BY <1>3 DEF Tick, vars, files
  <1> QED
    BY <1>1, <1>2, <1>3 DEF Next

\* Only a logout or a refresh that failed signs the user out, and only a login
\* signs them in, while commands do not change the file at once: what
\* resolve_from and login_cli.rs save is what they came for.
THEOREM SignsAreExplained == Spec => AccountsExplained
  <1> DEFINE Body == /\ Signed /\ ~Signed' => EndedBy({"logout", "drop"}) \/ "save" \in raced'
                     /\ ~Signed /\ Signed' => EndedBy({"login"}) \/ "change" \in raced'
  <1>1. ASSUME TypeInv, FilesInv, ReasonInv, [Next]_vars PROVE Body
    <2> SUFFICES ASSUME "save" \notin raced', Signed # Signed' PROVE Body
      <3>1. TypeInv' /\ FilesInv'
        BY <1>1, NextType, NextFiles
      <3> QED
        BY <3>1 DEF FilesInv
    <2>1. path' # path
      BY DEF Signed
    <2>2. PICK c \in Commands : pc[c] = "rename" /\ path' = tmp /\ raced' = raced
      BY <1>1, <2>1, PathChanges
    <2>3. Reason(c)
      BY <1>1 DEF ReasonInv
    <2>4. /\ call[c].doing \in Purposes
          /\ ~Signed' <=> call[c].doing \in Leaves
          /\ "change" \notin raced /\ call[c].doing = "call" => Signed
      BY <2>2, <2>3 DEF Reason, Signed, Saving
    <2> QED
      BY <2>2, <2>4 DEF EndedBy, Purposes, Leaves
  <1> QED
    BY <1>1, ReasonsInvariant, PTL DEF Spec, AccountsExplained

-----------------------------------------------------------------------------
(* The slacks of time.                                                      *)

\* What the client notes of a token's end is late by no more than a login or a
\* refresh takes.
Noted(account, time) ==
    account # NULL =>
        /\ account.issued <= time
        /\ account.expires <= account.issued + Lag + Lifetime

AccountsInv ==
    /\ Noted(path.account, clock) /\ Noted(tmp.account, clock)
    /\ \A c \in Commands : Noted(store[c], clock)

\* A call that is sent, or will be after a save.
Outgoing(c) == pc[c] \in {"send", "fetch"} \/ (pc[c] \in Saving /\ call[c].doing = "call")

\* The server's keys do for every token signed while it uses them: it has the
\* one that signs, or stops using them before the other begins to.
KeysInv ==
    cache.keys # {} => "old" \in cache.keys /\ ("new" \notin cache.keys => cache.expires < Rotates)

\* No command is late, a call that goes out with a token just resolved has its
\* answer while the token is good, and keys that it fetched will do.
Timely(c) ==
    /\ call[c].issued <= clock
    /\ Prompt(c) => clock <= call[c].due
    /\ call[c].doing = "login" => call[c].due = call[c].issued + Lag
    /\ Outgoing(c) =>
          /\ call[c].due + TTL <= clock + Ahead
          /\ call[c].first => call[c].due <= call[c].issued + Lifetime + Leeway
    /\ call[c].keys # {} =>
          /\ pc[c] = "fetch"
          /\ "old" \in call[c].keys /\ SigningKey(call[c].issued) \in call[c].keys
          /\ "new" \notin call[c].keys => call[c].due + TTL < Rotates
    /\ pc[c] = "refused" => ~call[c].first /\ clock > call[c].issued + Lifetime + Leeway

TimelyInv == \A c \in Commands : Timely(c)

\* What was noted stays good.
LEMMA NotedLater ==
    ASSUME NEW account \in Accounts \cup {NULL}, NEW time \in Nat, NEW later \in Nat,
           time <= later, Noted(account, time)
    PROVE  Noted(account, later)
  <1>1. account # NULL => account.issued \in Nat
    BY DEF Accounts
  <1> QED
    BY <1>1 DEF Noted

\* A file or a store that is given up has no account to be wrong about.
LEMMA NullNoted == \A time : Noted(NULL, time)
  BY DEF Noted

\* A token that was issued no more than Lag ago is noted.
LEMMA NewNoted ==
    ASSUME NEW issued \in Nat, NEW now \in Nat, issued <= now, now <= issued + Lag
    PROVE  Noted(Account(issued, now), now)
  <1>1. Account(issued, now).issued = issued /\ Account(issued, now).expires = now + Lifetime
    BY AccountType
  <1> QED
    BY <1>1, NaturalAssumption DEF Noted

\* Time begins.
LEMMA InitTime == Init => AccountsInv /\ KeysInv /\ TimelyInv
  <1> SUFFICES ASSUME Init PROVE AccountsInv /\ KeysInv /\ TimelyInv
    OBVIOUS
  <1>1. AccountsInv
    BY FileTypes, NullNoted DEF Init, FilesInit, AccountsInv
  <1>2. KeysInv
    BY DEF Init, KeysInv
  <1>3. ASSUME NEW c \in Commands PROVE Timely(c)
    <2>1. pc[c] = "idle" /\ call[c] = Idle /\ clock = 0
      BY DEF Init
    <2>2. ~Prompt(c) /\ ~Outgoing(c)
      BY <2>1 DEF Prompt, Outgoing, Saving
    <2> QED
      BY <2>1, <2>2 DEF Timely, Idle
  <1> QED
    BY <1>1, <1>2, <1>3 DEF TimelyInv

\* The files and stores after a step other than of time: nobody makes up an
\* account but a login that was taken and a refresh.
LEMMA NextAccounts ==
    ASSUME TypeInv, AccountsInv, TimelyInv, NEW c \in Commands, clock' = clock,
           \/ Login(c) \/ KeepLogin(c) \/ ResolveFresh(c) \/ ResolveStale(c)
           \/ Refreshed(c) \/ RefreshFails(c) \/ Logout(c) \/ Save(c)
           \/ CallAgain(c) \/ End(c)
           \/ Cached(c) \/ Fetch(c) \/ Answer(c) \/ Install(c) \/ FetchFails(c)
    PROVE  AccountsInv'
  <1>1. CASE Save(c)
    <2>1. CASE WriteTmp(c)
      <3>1. \A old : \A file \in Overwritten(old, store[c]) :
               file.account \in {store[c], NULL}
        <4>1. store[c] \in Accounts \cup {NULL}
          BY DEF TypeInv
        <4> QED
          BY <4>1, FileTypes DEF Overwritten
      <3>2. {path'.account, tmp'.account} \subseteq {path.account, tmp.account, store[c], NULL}
        BY <2>1, <3>1 DEF WriteTmp
      <3>3. \A d \in Commands : store'[d] \in {store[d], NULL}
        BY <2>1 DEF WriteTmp, TypeInv
      <3> QED
        BY <3>2, <3>3, NullNoted DEF AccountsInv
    <2>2. CASE OpenTmp(c) \/ Rename(c, call[c].doing = "call") \/ SaveFails(c)
      <3>1. {path'.account, tmp'.account} \subseteq {path.account, tmp.account, NULL}
        BY <2>2, FileTypes DEF OpenTmp, Rename, SaveFails
      <3>2. \A d \in Commands : store'[d] \in {store[d], NULL}
        BY <2>2 DEF OpenTmp, Rename, SaveFails, Ends, TypeInv
      <3> QED
        BY <3>1, <3>2, NullNoted DEF AccountsInv
    <2> QED
      BY <1>1, <2>1, <2>2 DEF Save
  <1>2. CASE End(c)
    <2>1. {path'.account, tmp'.account} \subseteq {path.account, tmp.account, NULL}
      BY <1>2, FileTypes DEF End, Kill
    <2>2. \A d \in Commands : store'[d] \in {store[d], NULL}
      BY <1>2 DEF End, Kill, Ends, TypeInv
    <2> QED
      BY <2>1, <2>2, NullNoted DEF AccountsInv
  <1>3. CASE KeepLogin(c)
    <2>1. /\ call[c].issued <= clock /\ clock <= call[c].issued + Lag
          /\ call[c].issued \in Nat /\ clock \in Nat
      BY <1>3 DEF KeepLogin, TimelyInv, Timely, Prompt, TypeInv, Calling
    <2>2. Noted(Account(call[c].issued, clock), clock)
      BY <2>1, NewNoted
    <2>3. UNCHANGED <<path, tmp>> /\ store' = [store EXCEPT ![c] = Account(call[c].issued, clock)]
      BY <1>3 DEF KeepLogin, Load
    <2> QED
      BY <2>2, <2>3 DEF AccountsInv, TypeInv
  <1>4. CASE Refreshed(c)
    <2>1. PICK issued \in {t \in Clocks : t <= clock /\ clock <= t + Lag} :
             store' = [store EXCEPT ![c] = Account(issued, clock)]
      BY <1>4 DEF Refreshed
    <2>2. issued \in Nat /\ issued <= clock /\ clock <= issued + Lag /\ clock \in Nat
      BY DEF Clocks, TypeInv
    <2>3. Noted(Account(issued, clock), clock)
      BY <2>2, NewNoted
    <2> QED
      BY <1>4, <2>1, <2>3 DEF Refreshed, AccountsInv, TypeInv
  <1>5. CASE ResolveFresh(c) \/ ResolveStale(c) \/ RefreshFails(c) \/ Logout(c)
    <2>1. UNCHANGED <<path, tmp>>
      BY <1>5 DEF ResolveFresh, ResolveStale, RefreshFails, Logout, Load
    <2>2. \A d \in Commands : store'[d] \in {store[d], path.account, NULL}
      BY <1>5 DEF ResolveFresh, ResolveStale, RefreshFails, Logout, Load, TypeInv
    <2> QED
      BY <2>1, <2>2, NullNoted DEF AccountsInv
  <1>6. CASE Login(c) \/ CallAgain(c) \/ Cached(c) \/ Fetch(c) \/ Answer(c) \/ Install(c)
             \/ FetchFails(c)
    <2>1. UNCHANGED <<path, tmp, store>>
      BY <1>6 DEF Login, CallAgain, Cached, Fetch, Answer, Install, FetchFails, files
    <2> QED
      BY <2>1 DEF AccountsInv
  <1> QED
    BY <1>1, <1>2, <1>3, <1>4, <1>5, <1>6

\* The slacks together: a token just noted outlives a call, and a set of keys
\* outlives neither what fetched it nor the notice that is given of a key.
LEMMA Slacks ==
    /\ Lag \in Nat /\ MaxCall \in Nat /\ TTL \in Nat /\ Ahead \in Nat /\ Rotates \in Nat
    /\ Lifetime \in Nat /\ Leeway \in Nat /\ Skew \in Nat
    /\ Lag + MaxCall <= Lifetime + Leeway
    /\ Lag + MaxCall <= Skew + Leeway + 1
    /\ Lag + TTL <= Ahead /\ MaxCall + TTL <= Ahead
  <1>1. /\ Lag \in Nat /\ MaxCall \in Nat /\ TTL \in Nat /\ Ahead \in Nat /\ Rotates \in Nat
        /\ Lifetime \in Nat /\ Leeway \in Nat /\ Skew \in Nat
    BY NaturalAssumption
  <1> QED
    BY <1>1, SlackAssumption, LifetimeAssumption, PublicationAssumption

\* What a command turns to begins in time.
LEMMA BeginTimely ==
    ASSUME TypeInv, NEW c \in Commands, NEW doing \in Doings, NEW issued \in Nat,
           NEW first \in BOOLEAN, Begin(c, doing, issued, first), clock' = clock,
           issued <= clock, doing = "login" => issued = clock, pc'[c] # "refused",
           first /\ Outgoing(c)' /\ doing # "login" =>
               clock + MaxCall <= issued + Lifetime + Leeway
    PROVE  Timely(c)'
  <1>1. /\ call'[c].doing = doing /\ call'[c].issued = issued /\ call'[c].first = first
        /\ call'[c].keys = {}
        /\ call'[c].due = clock + (IF doing = "login" THEN Lag ELSE MaxCall)
    BY BeginType
  <1>2. clock \in Nat
    BY DEF TypeInv
  <1>3. /\ clock <= call'[c].due
        /\ call'[c].due + TTL <= clock + Ahead
        /\ doing = "login" => call'[c].due = issued + Lag
        /\ doing = "login" => call'[c].due <= issued + Lifetime + Leeway
        /\ doing # "login" => call'[c].due = clock + MaxCall
    <2>1. CASE doing = "login"
      BY <1>1, <1>2, <2>1, Slacks
    <2>2. CASE doing # "login"
      BY <1>1, <1>2, <2>2, Slacks
    <2> QED
      BY <2>1, <2>2
  <1> QED
    BY <1>1, <1>3 DEF Timely

\* What the server says of a token that its keys do for: no, only when the
\* token is past its time.
LEMMA VerdictForCause ==
    ASSUME TypeInv, NEW c \in Commands, NEW keys, SigningKey(call[c].issued) \in keys,
           call[c].issued <= clock, Verdict(c, keys) = "refused"
    PROVE  clock > call[c].issued + Lifetime + Leeway
  <1>1. /\ call[c].issued \in Nat /\ clock \in Nat
    BY DEF TypeInv, Calling
  <1>2. ~Valid(call[c].issued, keys)
    BY DEF Verdict
  <1> QED
    BY <1>1, <1>2, Slacks DEF Valid

\* The server's cached keys do for every token there is.
LEMMA CachedKeysDo ==
    ASSUME TypeInv, KeysInv, NEW issued \in Nat, issued <= clock, CacheLive
    PROVE  SigningKey(issued) \in cache.keys
  <1>1. "old" \in cache.keys /\ ("new" \notin cache.keys => clock < cache.expires /\
        cache.expires < Rotates)
    BY DEF KeysInv, CacheLive, TypeInv
  <1>2. clock \in Nat /\ cache.expires \in Nat
    BY DEF TypeInv
  <1> QED
    BY <1>1, <1>2, Slacks DEF SigningKey

\* A command has its verdict in time.
LEMMA VerdictTimely ==
    ASSUME TypeInv, NEW c \in Commands, Timely(c), NEW keys, pc[c] \in {"send", "fetch"},
           SigningKey(call[c].issued) \in keys,
           Goto(c, Verdict(c, keys)), Answered(c), clock' = clock
    PROVE  Timely(c)'
  <1>1. pc'[c] = Verdict(c, keys) /\ pc'[c] \in {"served", "refused"}
    BY VerdictType, GotoType DEF Places
  <1>2. /\ call'[c].doing = call[c].doing /\ call'[c].issued = call[c].issued
        /\ call'[c].first = call[c].first /\ call'[c].keys = {}
        /\ call[c].doing = "login" => call'[c].due = call[c].due
        /\ call'[c].doing = "login" => call'[c].due = call[c].due
    BY AnsweredType
  <1>3. /\ call[c].issued <= clock /\ clock <= call[c].due
        /\ call[c].doing = "login" => call[c].due = call[c].issued + Lag
        /\ call[c].first => call[c].due <= call[c].issued + Lifetime + Leeway
    BY DEF Timely, Prompt, Outgoing
  <1>4. /\ call[c].issued \in Nat /\ call[c].due \in Nat /\ clock \in Nat
        /\ call[c].first \in BOOLEAN
    BY DEF TypeInv, Calling
  <1>5. pc'[c] = "refused" => clock > call[c].issued + Lifetime + Leeway
    BY <1>1, <1>3, VerdictForCause
  <1>6. pc'[c] = "refused" => ~call[c].first
    BY <1>3, <1>4, <1>5, Slacks
  <1>7. ~Outgoing(c)'
    BY <1>1 DEF Outgoing, Saving
  <1>8. Prompt(c)' => call[c].doing = "login"
    BY <1>1, <1>2 DEF Prompt, Saving
  <1>9. call'[c].issued <= clock' /\ (Prompt(c)' => clock' <= call'[c].due)
        /\ (call'[c].doing = "login" => call'[c].due = call'[c].issued + Lag)
    BY <1>2, <1>3, <1>8
  <1>10. pc'[c] = "refused" => ~call'[c].first /\ clock' > call'[c].issued + Lifetime + Leeway
    BY <1>2, <1>5, <1>6
  <1> QED
    BY <1>2, <1>7, <1>9, <1>10 DEF Timely

\* A command that saves, or ends, is as timely as before.
LEMMA SaveTimely ==
    ASSUME TypeInv, NEW c \in Commands, Timely(c), Save(c) \/ End(c), clock' = clock
    PROVE  Timely(c)'
  <1>1. CASE pc'[c] = "idle" /\ call'[c] = Idle
    <2>1. ~Prompt(c)' /\ ~Outgoing(c)'
      BY <1>1 DEF Prompt, Outgoing, Saving
    <2> QED
      BY <1>1, <2>1 DEF Timely, Idle, TypeInv
  <1>2. ASSUME ~(pc'[c] = "idle" /\ call'[c] = Idle)
        PROVE  /\ call'[c] = call[c] /\ pc[c] \in Saving
               /\ pc'[c] \in {"write", "rename"} \/ (pc'[c] = "send" /\ call[c].doing = "call")
    <2>1. CASE Save(c)
      <3>1. call' = [call EXCEPT ![c] = IF pc'[c] = "idle" THEN Idle ELSE call[c]]
        BY <2>1 DEF Save, TypeInv
      <3>2. call'[c] = IF pc'[c] = "idle" THEN Idle ELSE call[c]
        BY <3>1 DEF TypeInv
      <3>3. /\ pc[c] \in Saving
            /\ pc'[c] \in {"write", "rename", "idle"}
               \/ (pc'[c] = "send" /\ call[c].doing = "call")
        BY <2>1, GotoType, EndsType
           DEF Save, OpenTmp, WriteTmp, Rename, SaveFails, Saving, Places
      <3> QED
        BY <1>2, <3>2, <3>3
    <2>2. CASE End(c)
      <3>1. pc'[c] = "idle" /\ call'[c] = Idle
        BY <2>2, EndsType DEF End, Kill, TypeInv
      <3> QED
        BY <1>2, <3>1
    <2> QED
      BY <2>1, <2>2
  <1>3. CASE ~(pc'[c] = "idle" /\ call'[c] = Idle)
    <2>1. /\ call'[c] = call[c] /\ Prompt(c) /\ pc'[c] # "refused"
          /\ Outgoing(c)' => Outgoing(c)
          /\ call[c].keys = {}
      BY <1>2, <1>3 DEF Timely, Prompt, Outgoing, Saving
    <2> QED
      BY <2>1 DEF Timely
  <1> QED
    BY <1>1, <1>3

\* A step of a command other than of time leaves it timely.
LEMMA StepTimely ==
    ASSUME TypeInv, AccountsInv, KeysInv, NEW c \in Commands, Timely(c), clock' = clock,
           \/ Login(c) \/ KeepLogin(c) \/ ResolveFresh(c) \/ ResolveStale(c)
           \/ Refreshed(c) \/ RefreshFails(c) \/ Logout(c) \/ Save(c)
           \/ CallAgain(c) \/ End(c)
           \/ Cached(c) \/ Fetch(c) \/ Answer(c) \/ Install(c) \/ FetchFails(c)
    PROVE  Timely(c)'
  <1>0. /\ clock \in Nat /\ call[c] \in Calling
        /\ call[c].issued \in Nat /\ call[c].due \in Nat /\ call[c].issued <= clock
    BY DEF TypeInv, Calling, Timely
  <1>1. CASE Login(c)
    <2>1. Begin(c, "login", clock, TRUE) /\ pc'[c] = "send"
      BY <1>1, GotoType DEF Login, Places
    <2>2. PICK issued \in Nat : issued = clock
      BY <1>0
    <2>3. Begin(c, "login", issued, TRUE) /\ issued <= clock
      BY <1>0, <2>1, <2>2 DEF Begin
    <2> QED
      BY <2>1, <2>2, <2>3, BeginTimely DEF Doings
  <1>2. CASE KeepLogin(c)
    <2>1. pc'[c] = "open" /\ pc[c] = "served" /\ call' = call /\ call[c].doing = "login"
      <3>1. Account(call[c].issued, clock) \in Accounts
        BY <1>0, AccountType
      <3> QED
        BY <1>2, <3>1, LoadType DEF KeepLogin, Places
    <2> QED
      BY <1>0, <2>1 DEF Timely, Prompt, Outgoing
  <1>3. CASE ResolveFresh(c)
    <2>1. path.account \in Accounts
      BY <1>3 DEF ResolveFresh, TypeInv, File
    <2>2. /\ path.account.issued \in Nat /\ path.account.expires \in Nat
          /\ path.account.issued <= clock
          /\ path.account.expires <= path.account.issued + Lag + Lifetime
          /\ path.account.expires > clock + Skew
      BY <1>3, <2>1 DEF ResolveFresh, Fresh, AccountsInv, Noted, Accounts
    <2>3. clock + MaxCall <= path.account.issued + Lifetime + Leeway
      BY <1>0, <2>2, Slacks
    <2>4. Begin(c, "call", path.account.issued, TRUE) /\ pc'[c] = "send"
      BY <1>3, LoadType DEF ResolveFresh, Places
    <2> QED
      BY <2>2, <2>3, <2>4, BeginTimely DEF Doings
  <1>4. CASE ResolveStale(c)
    <2>1. path.account \in Accounts
      BY <1>4 DEF ResolveStale, TypeInv, File
    <2>2. pc'[c] = "refresh" /\ call' = call /\ pc[c] = "idle"
      BY <1>4, <2>1, LoadType DEF ResolveStale, Places
    <2> QED
      BY <1>0, <2>2 DEF Timely, Prompt, Outgoing, Saving
  <1>5. CASE Refreshed(c)
    <2>1. PICK issued \in {t \in Clocks : t <= clock /\ clock <= t + Lag} :
             Begin(c, "call", issued, TRUE)
      BY <1>5 DEF Refreshed
    <2>2. issued \in Nat /\ issued <= clock /\ clock <= issued + Lag
      BY DEF Clocks
    <2>3. clock + MaxCall <= issued + Lifetime + Leeway
      BY <1>0, <2>2, Slacks
    <2>4. pc'[c] = "open"
      BY <1>5, GotoType DEF Refreshed, Places
    <2> QED
      BY <2>1, <2>2, <2>3, <2>4, BeginTimely DEF Doings
  <1>6. CASE RefreshFails(c)
    <2>1. Begin(c, "drop", 0, TRUE) /\ pc'[c] = "open"
      BY <1>6, GotoType DEF RefreshFails, Places
    <2>2. call'[c].doing = "drop"
      BY <2>1, BeginType DEF Doings
    <2>3. PICK issued \in Nat : issued = 0
      OBVIOUS
    <2>4. Begin(c, "drop", issued, TRUE) /\ issued <= clock
      BY <1>0, <2>1, <2>3 DEF Begin
    <2>5. ~Outgoing(c)'
      BY <2>1, <2>2 DEF Outgoing
    <2> QED
      BY <2>1, <2>4, <2>5, BeginTimely DEF Doings
  <1>7. CASE Logout(c)
    <2>1. Begin(c, "logout", 0, TRUE) /\ pc'[c] = "open"
      BY <1>7, LoadType DEF Logout, Places
    <2>2. call'[c].doing = "logout"
      BY <2>1, BeginType DEF Doings
    <2>3. PICK issued \in Nat : issued = 0
      OBVIOUS
    <2>4. Begin(c, "logout", issued, TRUE) /\ issued <= clock
      BY <1>0, <2>1, <2>3 DEF Begin
    <2>5. ~Outgoing(c)'
      BY <2>1, <2>2 DEF Outgoing
    <2> QED
      BY <2>1, <2>4, <2>5, BeginTimely DEF Doings
  <1>8. CASE Save(c) \/ End(c)
    BY <1>8, SaveTimely
  <1>9. CASE CallAgain(c)
    <2>1. Begin(c, "call", call[c].issued, FALSE) /\ pc'[c] = "send"
      BY <1>9, GotoType DEF CallAgain, Places
    <2> QED
      BY <1>0, <2>1, BeginTimely DEF Doings
  <1>10. CASE Cached(c)
    <2>1. SigningKey(call[c].issued) \in cache.keys
      BY <1>0, <1>10, CachedKeysDo DEF Cached
    <2> QED
      BY <1>10, <2>1, VerdictTimely DEF Cached
  <1>11. CASE Fetch(c)
    <2>1. pc'[c] = "fetch" /\ pc[c] = "send" /\ call' = call
      BY <1>11, GotoType DEF Fetch, Places
    <2> QED
      BY <1>0, <2>1 DEF Timely, Prompt, Outgoing
  <1>12. CASE Answer(c)
    <2>1. /\ pc[c] = "fetch" /\ pc' = pc
          /\ call' = [call EXCEPT ![c] = [call[c] EXCEPT !.keys = Published(clock)]]
      BY <1>12 DEF Answer, TypeInv
    <2>2. call'[c] = [call[c] EXCEPT !.keys = Published(clock)]
      BY <2>1 DEF TypeInv
    <2>3. /\ call'[c].doing = call[c].doing /\ call'[c].issued = call[c].issued
          /\ call'[c].due = call[c].due /\ call'[c].first = call[c].first
          /\ call'[c].keys = Published(clock)
      BY <1>0, <2>2 DEF Calling
    <2>4. /\ "old" \in Published(clock)
          /\ "new" \in Published(clock) <=> clock + Ahead >= Rotates
      BY DEF Published
    <2>5. SigningKey(call[c].issued) \in Published(clock)
      BY <1>0, <2>4, Slacks DEF SigningKey
    <2>6. "new" \notin Published(clock) => call[c].due + TTL < Rotates
      BY <1>0, <2>1, <2>4, Slacks DEF Timely, Outgoing
    <2>7. (Outgoing(c)' <=> Outgoing(c)) /\ (Prompt(c)' <=> Prompt(c))
      BY <2>1, <2>3 DEF Outgoing, Prompt
    <2> QED
      BY <2>1, <2>3, <2>4, <2>5, <2>6, <2>7 DEF Timely
  <1>13. CASE Install(c)
    <2>1. SigningKey(call[c].issued) \in call[c].keys
      BY <1>13 DEF Install, Timely
    <2> QED
      BY <1>13, <2>1, VerdictTimely DEF Install
  <1>14. CASE FetchFails(c)
    <2>1. pc'[c] = "unchecked" /\ pc[c] = "fetch"
      BY <1>14, GotoType DEF FetchFails, Places
    <2>2. /\ call'[c].issued = call[c].issued /\ call'[c].keys = {}
          /\ call'[c].doing = call[c].doing
          /\ call[c].doing = "login" => call'[c].due = call[c].due
      BY <1>14, AnsweredType DEF FetchFails
    <2>3. ~Prompt(c)' /\ ~Outgoing(c)'
      BY <2>1 DEF Prompt, Outgoing, Saving
    <2> QED
      BY <2>1, <2>2, <2>3 DEF Timely
  <1> QED
    BY <1>1, <1>2, <1>3, <1>4, <1>5, <1>6, <1>7, <1>8, <1>9, <1>10, <1>11, <1>12, <1>13, <1>14

\* Time in the world: what holds between the steps of commands.
TimeInv == AccountsInv /\ KeysInv /\ TimelyInv

\* A minute that passes makes nobody late, for it waits for who would be.
LEMMA TickTime ==
    ASSUME TypeInv, TimeInv, Tick
    PROVE  TimeInv'
  <1>1. clock' = clock + 1 /\ clock \in Nat /\ clock' \in Nat
    BY DEF Tick, TypeInv
  <1>2. AccountsInv'
    <2>1. UNCHANGED <<path, tmp, store>>
      BY DEF Tick, files
    <2>2. /\ path.account \in Accounts \cup {NULL} /\ tmp.account \in Accounts \cup {NULL}
          /\ \A c \in Commands : store[c] \in Accounts \cup {NULL}
      BY DEF TypeInv, File
    <2>3. \A a \in Accounts \cup {NULL} : Noted(a, clock) => Noted(a, clock')
      BY <1>1, NotedLater
    <2> QED
      BY <2>1, <2>2, <2>3 DEF TimeInv, AccountsInv
  <1>3. KeysInv'
    BY DEF Tick, TimeInv, KeysInv
  <1>4. ASSUME NEW c \in Commands PROVE Timely(c)'
    <2>1. Timely(c) /\ pc' = pc /\ call' = call /\ (Prompt(c) => clock < call[c].due)
      BY DEF TimeInv, TimelyInv, Tick
    <2>2. /\ call[c].issued \in Nat /\ call[c].due \in Nat
      BY DEF TypeInv, Calling
    <2>3. (Prompt(c)' <=> Prompt(c)) /\ (Outgoing(c)' <=> Outgoing(c))
      BY <2>1 DEF Prompt, Outgoing
    <2>4. /\ call[c].issued <= clock'
          /\ Prompt(c) => clock' <= call[c].due
          /\ Outgoing(c) => call[c].due + TTL <= clock' + Ahead
          /\ pc[c] = "refused" => clock' > call[c].issued + Lifetime + Leeway
      BY <1>1, <2>1, <2>2, Slacks DEF Timely
    <2> QED
      BY <2>1, <2>3, <2>4 DEF Timely
  <1> QED
    BY <1>2, <1>3, <1>4 DEF TimeInv, TimelyInv

\* The server's keys after a step: a set is good for as long as it is kept,
\* whenever it was fetched.
LEMMA NextKeys ==
    ASSUME TypeInv, KeysInv, NEW c \in Commands, Timely(c),
           UNCHANGED cache \/ Install(c)
    PROVE  KeysInv'
  <1>1. CASE UNCHANGED cache
    BY <1>1 DEF KeysInv
  <1>2. CASE Install(c)
    <2>1. /\ pc[c] = "fetch" /\ call[c].keys # {}
          /\ cache' = [keys |-> call[c].keys, expires |-> clock + TTL]
      BY <1>2 DEF Install
    <2>2. /\ "old" \in call[c].keys
          /\ "new" \notin call[c].keys => call[c].due + TTL < Rotates
          /\ clock <= call[c].due
      BY <2>1 DEF Timely, Prompt
    <2>3. call[c].due \in Nat /\ clock \in Nat
      BY DEF TypeInv, Calling
    <2>4. "new" \notin call[c].keys => clock + TTL < Rotates
      BY <2>2, <2>3, Slacks
    <2> QED
      BY <2>1, <2>2, <2>4 DEF KeysInv
  <1> QED
    BY <1>1, <1>2

\* A step keeps everybody in time.
LEMMA NextTime == TypeInv /\ TimeInv /\ [Next]_vars => TimeInv'
  <1> SUFFICES ASSUME TypeInv, TimeInv, [Next]_vars PROVE TimeInv'
    OBVIOUS
  <1>1. CASE Tick
    BY <1>1, TickTime
  <1>2. ASSUME NEW c \in Commands,
               \/ Login(c) \/ KeepLogin(c) \/ ResolveFresh(c) \/ ResolveStale(c)
               \/ Refreshed(c) \/ RefreshFails(c) \/ Logout(c) \/ Save(c)
               \/ CallAgain(c) \/ End(c)
               \/ Cached(c) \/ Fetch(c) \/ Answer(c) \/ Install(c) \/ FetchFails(c)
        PROVE  TimeInv'
    <2>1. clock' = clock /\ (UNCHANGED cache \/ Install(c))
      BY <1>2 DEF Login, KeepLogin, ResolveFresh, ResolveStale, Refreshed, RefreshFails, Logout,
                  Save, CallAgain, End, Cached, Fetch, Answer, FetchFails, Install
    <2>2. Timely(c)
      BY DEF TimeInv, TimelyInv
    <2>3. AccountsInv' /\ KeysInv' /\ Timely(c)'
      BY <1>2, <2>1, <2>2, NextAccounts, NextKeys, StepTimely DEF TimeInv
    <2>4. \A d \in Commands \ {c} : pc'[d] = pc[d] /\ call'[d] = call[d]
      BY <1>2 DEF Login, KeepLogin, ResolveFresh, ResolveStale, Refreshed, RefreshFails, Logout,
                  Save, CallAgain, End, Cached, Fetch, Answer, FetchFails, Install, TypeInv,
                  Begin, Answered, Goto, Load, Kill, Ends, OpenTmp, WriteTmp, Rename, SaveFails
    <2>5. ASSUME NEW d \in Commands \ {c} PROVE Timely(d)'
      <3>1. Timely(d)
        BY DEF TimeInv, TimelyInv
      <3> QED
        BY <2>1, <2>4, <3>1 DEF Timely, Prompt, Outgoing
    <2> QED
      BY <2>3, <2>5 DEF TimeInv, TimelyInv
  <1>3. CASE UNCHANGED vars
    BY <1>3 DEF vars, files, TimeInv, AccountsInv, KeysInv, TimelyInv, Timely, Prompt, Outgoing
  <1> QED
    BY <1>1, <1>2, <1>3 DEF Next

\* Everybody is in time in every reachable state.
THEOREM TimeInvariant == Spec => [](TypeInv /\ TimeInv)
  <1>1. Init => TypeInv /\ TimeInv
    BY InitType, InitTime DEF TimeInv
  <1>2. TypeInv /\ TimeInv /\ [Next]_vars => (TypeInv /\ TimeInv)'
    BY NextType, NextTime
  <1> QED
    BY <1>1, <1>2, PTL DEF Spec

\* Between the client's early refresh, the leeway of validate_google_id_token,
\* the cache of google_public_keys and Google's rotation, no call with a token
\* just resolved is refused, and a later one only when the token's time is up.
THEOREM RefusalsHaveCause == Spec => []RefusedForCause
  <1>1. TypeInv /\ TimeInv => RefusedForCause
    BY DEF TimeInv, TimelyInv, Timely, RefusedForCause
  <1> QED
    BY <1>1, TimeInvariant, PTL
=============================================================================
