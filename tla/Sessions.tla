------------------------------ MODULE Sessions ------------------------------
(***************************************************************************)
(* Logins of the CLI and the calls made with them: login, logout, the      *)
(* token a call resolves and refreshes (src/login_cli.rs, resolve_from in  *)
(* src/credentials.rs, src/oauth.rs), and the server that checks it with   *)
(* Google's keys, which it caches (authenticate_oidc in src/auth.rs).      *)
(* Time is in steps of about a minute.                                     *)
(***************************************************************************)
EXTENDS Credentials, Integers

CONSTANTS
    MaxClock,  \* bound on time
    Rotates,   \* when Google begins to sign with its other key
    Ahead,     \* how long before that it publishes the key
    Lifetime,  \* of an ID token
    Lag,       \* the longest from the issue of a token until the client notes when
               \* it ends; a login has it checked in between
    MaxCall,   \* the longest a call takes to be answered
    Skew,      \* EXPIRY_SKEW_SECONDS
    Leeway,    \* CLOCK_SKEW_SECONDS of the server
    TTL        \* how long the server keeps a set of keys

ASSUME NaturalAssumption ==
    {MaxClock, Rotates, Ahead, Lifetime, Lag, MaxCall, Skew, Leeway, TTL} \subseteq Nat

\* What Google is relied on for: a key is published so early that no set without
\* it is in use when it begins to sign, though a call or a login fetched it and
\* was slow to install it; and as long as what it signed is good.
ASSUME PublicationAssumption == Ahead >= TTL + MaxCall /\ Ahead >= TTL + Lag

\* What the slacks are for.
ASSUME SlackAssumption == Skew + Leeway + 1 >= Lag + MaxCall

\* A token is not due for a refresh when it is new.
ASSUME LifetimeAssumption == Skew < Lifetime

Accounts == [issued : Nat, expires : Nat]

ASSUME AccountsAssumption == NULL \notin Accounts

VARIABLES
    clock,
    cache,  \* GoogleKeyCache
    call    \* per command: what it is doing, with which token

vars == <<files, pc, clock, cache, call>>

Clocks == 0 .. MaxClock

\* A token is what it says of its time; what signed it follows.
SigningKey(time) == IF time < Rotates THEN "old" ELSE "new"
Published(time) ==
    {k \in {"old", "new"} : k = "new" => time + Ahead >= Rotates}

Account(issued, received) == [issued |-> issued, expires |-> received + Lifetime]
Idle == [doing |-> "nothing", issued |-> 0, due |-> 0, first |-> TRUE, keys |-> {}]

Init ==
    /\ FilesInit
    /\ pc = [c \in Commands |-> "idle"]
    /\ clock = 0
    /\ cache = [keys |-> {}, expires |-> 0]
    /\ call = [c \in Commands |-> Idle]

\* Command c turns to doing, with a token if that takes one.
Begin(c, doing, issued, first) ==
    call' = [call EXCEPT ![c] =
                [doing |-> doing, issued |-> issued, first |-> first, keys |-> {},
                 due |-> clock + IF doing = "login" THEN Lag ELSE MaxCall]]

\* What has its answer is not hurried any more, unless it goes on at once.
Answered(c) ==
    call' = [call EXCEPT ![c] =
                [call[c] EXCEPT !.keys = {}, !.due = IF call[c].doing = "login" THEN @ ELSE 0]]

-----------------------------------------------------------------------------
(* Commands.                                                                *)

\* handle_login up to the server's word about the token.
Login(c) ==
    /\ pc[c] = "idle"
    /\ Begin(c, "login", clock, TRUE)
    /\ Goto(c, "send")
    /\ UNCHANGED <<files, clock, cache>>

\* The server took it: load, insert, save.
KeepLogin(c) ==
    /\ pc[c] = "served" /\ call[c].doing = "login"
    /\ Load(c, Account(call[c].issued, clock), "open")
    /\ UNCHANGED <<clock, cache, call>>

\* resolve_from, of a token that is good for some time.
Fresh(account) == account.expires > clock + Skew

ResolveFresh(c) ==
    /\ pc[c] = "idle" /\ path.account # NULL /\ Fresh(path.account)
    /\ Load(c, NULL, "send")
    /\ Begin(c, "call", path.account.issued, TRUE)
    /\ UNCHANGED <<clock, cache>>

ResolveStale(c) ==
    /\ pc[c] = "idle" /\ path.account # NULL /\ ~Fresh(path.account)
    /\ Load(c, path.account, "refresh")
    /\ UNCHANGED <<clock, cache, call>>

Refreshed(c) ==
    /\ pc[c] = "refresh"
    /\ \E issued \in {t \in Clocks : t <= clock /\ clock <= t + Lag} :
          /\ store' = [store EXCEPT ![c] = Account(issued, clock)]
          /\ Begin(c, "call", issued, TRUE)
    /\ Goto(c, "open")
    /\ UNCHANGED <<path, tmp, fd, raced, clock, cache>>

\* Whatever the reason: the account is dropped and the command fails.
RefreshFails(c) ==
    /\ pc[c] = "refresh"
    /\ store' = [store EXCEPT ![c] = NULL]
    /\ Begin(c, "drop", 0, TRUE)
    /\ Goto(c, "open")
    /\ UNCHANGED <<path, tmp, fd, raced, clock, cache>>

\* handle_logout, when there is something to discard.
Logout(c) ==
    /\ pc[c] = "idle" /\ path.account # NULL
    /\ Load(c, NULL, "open")
    /\ Begin(c, "logout", 0, TRUE)
    /\ UNCHANGED <<clock, cache>>

\* A command that has saved what it came for ends; a call goes out.
Save(c) ==
    /\ OpenTmp(c) \/ WriteTmp(c) \/ Rename(c, call[c].doing = "call") \/ SaveFails(c)
    /\ call' = [call EXCEPT ![c] = IF pc'[c] = "idle" THEN Idle ELSE @]
    /\ UNCHANGED <<clock, cache>>

\* A server of tools resolves its token once and calls with it ever after
\* (McpServe in src/main.rs).
CallAgain(c) ==
    /\ pc[c] = "served" /\ call[c].doing = "call"
    /\ Begin(c, "call", call[c].issued, FALSE)
    /\ Goto(c, "send")
    /\ UNCHANGED <<files, clock, cache>>

\* It ends: with its answer, with an error from elsewhere (no network, no
\* /features, a file that cannot be read), or killed.
End(c) ==
    /\ Kill(c)
    /\ call' = [call EXCEPT ![c] = Idle]
    /\ UNCHANGED <<clock, cache>>

-----------------------------------------------------------------------------
(* The server.                                                              *)

\* validate_google_id_token: signature, exp with leeway, iat.
Valid(issued, keys) ==
    /\ SigningKey(issued) \in keys
    /\ clock <= issued + Lifetime + Leeway
    /\ issued <= clock + Leeway

Verdict(c, keys) == IF Valid(call[c].issued, keys) THEN "served" ELSE "refused"

\* Mutant of CacheLive: a set of keys is kept once it is there.
CacheLiveForever == cache.keys # {}

CacheLive == cache.expires > clock /\ cache.keys # {}

\* google_public_keys.
Cached(c) ==
    /\ pc[c] = "send" /\ CacheLive
    /\ Goto(c, Verdict(c, cache.keys))
    /\ Answered(c)
    /\ UNCHANGED <<files, clock, cache>>

Fetch(c) ==
    /\ pc[c] = "send" /\ ~CacheLive
    /\ Goto(c, "fetch")
    /\ UNCHANGED <<files, clock, cache, call>>

Answer(c) ==
    /\ pc[c] = "fetch" /\ call[c].keys = {}
    /\ call' = [call EXCEPT ![c].keys = Published(clock)]
    /\ UNCHANGED <<files, pc, clock, cache>>

\* Fetches that overlap install what they got, the last to come in last.
Install(c) ==
    /\ pc[c] = "fetch" /\ call[c].keys # {}
    /\ cache' = [keys |-> call[c].keys, expires |-> clock + TTL]
    /\ Goto(c, Verdict(c, call[c].keys))
    /\ Answered(c)
    /\ UNCHANGED <<files, clock>>

FetchFails(c) ==
    /\ pc[c] = "fetch"
    /\ Goto(c, "unchecked")
    /\ Answered(c)
    /\ UNCHANGED <<files, clock, cache>>

\* Time passes, as far as commands that are about something let it.
Prompt(c) ==
    pc[c] \in {"send", "fetch"} \cup Saving \/ (pc[c] = "served" /\ call[c].doing = "login")

Tick ==
    /\ clock < MaxClock
    /\ \A c \in Commands : Prompt(c) => clock < call[c].due
    /\ clock' = clock + 1
    /\ UNCHANGED <<files, pc, cache, call>>

Next ==
    \/ Tick
    \/ \E c \in Commands :
          \/ Login(c) \/ KeepLogin(c) \/ ResolveFresh(c) \/ ResolveStale(c)
          \/ Refreshed(c) \/ RefreshFails(c) \/ Logout(c) \/ Save(c)
          \/ CallAgain(c) \/ End(c)
          \/ Cached(c) \/ Fetch(c) \/ Answer(c) \/ Install(c) \/ FetchFails(c)

Spec == Init /\ [][Next]_vars

-----------------------------------------------------------------------------
(* Properties.                                                              *)

\* Commands that do not save at the same time leave no half of a file where
\* the next one looks for it, wherever they are killed and whatever a killed
\* one left in the temporary file.
FileIsWhole == "save" \in raced \/ path.kind \in {"absent", "whole"}

\* Nobody is signed out but by a logout or a refresh that failed, however
\* commands end and saves fail, and signed in again but by a login; commands
\* that change the file at once are excepted, for they share a temporary file
\* and write back what they read.
Signed == path.account # NULL
EndedBy(doings) == \E c \in Commands : pc[c] = "rename" /\ call[c].doing \in doings
AccountsExplained ==
    [][/\ Signed /\ ~Signed' => EndedBy({"logout", "drop"}) \/ "save" \in raced'
       /\ ~Signed /\ Signed' => EndedBy({"login"}) \/ "change" \in raced']_vars

\* Between the client's early refresh, the server's leeway, its cache of keys
\* and Google's rotation, a call with a token just resolved is refused only
\* when the server could not fetch the keys; a later call with the same token
\* also when that token is past its time.
RefusedForCause ==
    \A c \in Commands :
        pc[c] = "refused" =>
            ~call[c].first /\ clock > call[c].issued + Lifetime + Leeway
=============================================================================
