---------------------------- MODULE ZerodhaLogin ----------------------------
(***************************************************************************)
(* Logging in to the broker.  A login link carries a signed nonce: a user  *)
(* and the time it was issued.  The broker redirects the browser either to *)
(* the API server, or to the temporary server of "finagent zerodha auth",  *)
(* whose callbacks report to the command through two channels of capacity  *)
(* one.  Callbacks are goroutines of their own.                            *)
(***************************************************************************)
EXTENDS Naturals, Sequences, FiniteSets

CONSTANTS
    Callbacks,     \* requests to one of the two callback endpoints
    Users, Owner,  \* users; the one the command logs in
    Configured,    \* users with broker credentials in the configuration
    None,
    Issued,        \* when login links were made
    NonceTTL, Day, \* in ticks
    MaxTime,       \* bound: ticks of the clock
    MaxFaults      \* bound: failing calls, statements and accepts

ASSUME UsersAssumption ==
    Owner \in Configured /\ Configured \subseteq Users
ASSUME NoneAssumption == None \notin Callbacks \union Users
ASSUME TimesAssumption ==
    Issued \subseteq Nat /\ NonceTTL \in Nat /\ Day \in Nat \ {0}
ASSUME BoundsAssumption == MaxTime \in Nat /\ MaxFaults \in Nat

VARIABLES
    cmd,            \* where the command is
    interrupted,    \* its context has ended (SIGINT, SIGTERM)
    tokenCh, errCh,
    received,       \* the callback whose token the command took from tokenCh
    server, link,   \* per callback: the endpoint it is for, and its nonce
    pc,
    page,           \* per callback: what the browser was told
    tokens,         \* zerodha_tokens: per user, who logged in, and the expiry
    stored,         \* history: callbacks whose token was stored
    now, faults

channels == <<tokenCh, errCh>>
request == <<server, link, page>>
vars == <<cmd, interrupted, channels, received, request, pc, tokens, stored, now, faults>>

Links == [user : Users, issued : Issued]
Tokens == [by : Callbacks, expires : Nat] \union {None}
Stopping == {"stop_error", "stop_interrupt", "stop_token"}
Over == {"failed", "interrupted", "done", "killed"}
Handling == {"verify", "lookup", "exchange", "save", "send_token", "send_error"}

Init ==
    /\ cmd = "select" /\ interrupted = FALSE
    /\ tokenCh = <<>> /\ errCh = <<>> /\ received = None
    /\ server \in [Callbacks -> {"command", "api"}]
    /\ link = [c \in Callbacks |-> None]
    /\ pc = [c \in Callbacks |-> "idle"]
    /\ page = [c \in Callbacks |-> "none"]
    /\ tokens = [u \in Users |-> None] /\ stored = {}
    /\ now = 0 /\ faults = 0

Goto(c, l) == pc' = [pc EXCEPT ![c] = l]
Fault == faults < MaxFaults /\ faults' = faults + 1

-----------------------------------------------------------------------------
\* The listener of the command is closed when Shutdown begins; its goroutines
\* end with the process.
Accepts(c) == server[c] = "api" \/ cmd = "select"
Lives(c) == server[c] = "api" \/ cmd \notin Over

\* A redirect arrives, with the nonce of a link issued before, or without a nonce
\* that the server has signed.
Arrive(c) ==
    /\ pc[c] = "idle" /\ Accepts(c) /\ Goto(c, "verify")
    /\ \E l \in {l \in Links : l.issued <= now} \union {None} :
          link' = [link EXCEPT ![c] = l]
    /\ UNCHANGED <<cmd, interrupted, channels, received, server, page, tokens, stored, now, faults>>

\* VerifyNonce: a signature, and not time.Since(issued) > nonceTTL.
Expired(l) == now - l.issued > NonceTTL
Verified(l) == l # None /\ ~Expired(l)

\* The command accepts the nonces of its own user only.
IsExpected_Any(c) == TRUE
IsExpected(c) == server[c] = "api" \/ link[c].user = Owner

\* An error is the answer of the API, and goes to the command as well.
Reject(c) ==
    /\ page' = [page EXCEPT ![c] = "error"]
    /\ Goto(c, IF server[c] = "api" THEN "ended" ELSE "send_error")

Verify(c) ==
    /\ pc[c] = "verify" /\ Lives(c)
    /\ \/ /\ Verified(link[c]) /\ IsExpected(c)
          /\ Goto(c, IF server[c] = "api" THEN "lookup" ELSE "exchange")
          /\ UNCHANGED page
       \/ ~(Verified(link[c]) /\ IsExpected(c)) /\ Reject(c)
    /\ UNCHANGED <<cmd, interrupted, channels, received, server, link, tokens, stored, now, faults>>

\* The API finds the user of the nonce and the credentials configured for it.
Lookup(c) ==
    /\ pc[c] = "lookup"
    /\ \/ /\ link[c].user \in Configured /\ Goto(c, "exchange")
          /\ UNCHANGED <<page, faults>>
       \/ link[c].user \notin Configured /\ Reject(c) /\ UNCHANGED faults
       \/ Fault /\ Reject(c)
    /\ UNCHANGED <<cmd, interrupted, channels, received, server, link, tokens, stored, now>>

\* ExchangeToken; a callback of the command writes its page before it sends the
\* token, one of the API after the token is stored.
PageOfToken(c) == IF server[c] = "command" THEN "success" ELSE page[c]

Exchange(c) ==
    /\ pc[c] = "exchange" /\ Lives(c)
    /\ \/ /\ page' = [page EXCEPT ![c] = PageOfToken(c)]
          /\ Goto(c, IF server[c] = "command" THEN "send_token" ELSE "save")
          /\ UNCHANGED faults
       \/ Fault /\ Reject(c)
    /\ UNCHANGED <<cmd, interrupted, channels, received, server, link, tokens, stored, now>>

\* Midnight after today.
Midnight == ((now \div Day) + 1) * Day

\* ON CONFLICT (user_id) DO UPDATE.
UpsertToken_DoNothing(u, c) ==
    IF tokens[u] # None THEN UNCHANGED <<tokens, stored>>
    ELSE /\ tokens' = [tokens EXCEPT ![u] = [by |-> c, expires |-> Midnight]]
         /\ stored' = stored \union {c}
UpsertToken(u, c) ==
    /\ tokens' = [tokens EXCEPT ![u] = [by |-> c, expires |-> Midnight]]
    /\ stored' = stored \union {c}

\* The API stores the token for the user of the nonce.
SaveToken(c) ==
    /\ pc[c] = "save"
    /\ \/ /\ UpsertToken(link[c].user, c) /\ UNCHANGED faults
          /\ page' = [page EXCEPT ![c] = "success"] /\ Goto(c, "ended")
       \/ /\ Fault /\ Reject(c)
          /\ \/ UNCHANGED <<tokens, stored>>
             \/ UpsertToken(link[c].user, c)     \* only the reply is lost
    /\ UNCHANGED <<cmd, interrupted, channels, received, server, link, now>>

\* A send on a full channel blocks.
HasRoom_Unbounded(ch) == TRUE
HasRoom(ch) == ch = <<>>

SendToken(c) ==
    /\ pc[c] = "send_token" /\ Lives(c) /\ HasRoom(tokenCh)
    /\ tokenCh' = Append(tokenCh, c) /\ Goto(c, "ended")
    /\ UNCHANGED <<cmd, interrupted, errCh, received, request, tokens, stored, now, faults>>

SendError(c) ==
    /\ pc[c] = "send_error" /\ Lives(c) /\ HasRoom(errCh)
    /\ errCh' = Append(errCh, c) /\ Goto(c, "ended")
    /\ UNCHANGED <<cmd, interrupted, tokenCh, received, request, tokens, stored, now, faults>>

\* The goroutine that runs the server reports that it cannot go on.
ServeFails ==
    /\ cmd = "select" /\ HasRoom(errCh) /\ Fault
    /\ errCh' = Append(errCh, None)
    /\ UNCHANGED <<cmd, interrupted, tokenCh, received, request, pc, tokens, stored, now>>

-----------------------------------------------------------------------------
\* The select of the command: any branch that is ready.
Select ==
    /\ cmd = "select"
    /\ \/ /\ tokenCh # <<>> /\ tokenCh' = Tail(tokenCh)
          /\ received' = Head(tokenCh) /\ cmd' = "stop_token"
          /\ UNCHANGED errCh
       \/ /\ errCh # <<>> /\ errCh' = Tail(errCh) /\ cmd' = "stop_error"
          /\ UNCHANGED <<tokenCh, received>>
       \/ /\ interrupted /\ cmd' = "stop_interrupt"
          /\ UNCHANGED <<channels, received>>
    /\ UNCHANGED <<interrupted, request, pc, tokens, stored, now, faults>>

\* Shutdown waits for the callbacks that are being handled; for three seconds only
\* once a token is there, without a limit otherwise.
Drained == \A c \in Callbacks : server[c] = "command" => pc[c] \notin Handling
Patient_Always == TRUE
Patient == cmd # "stop_token"

Shutdown ==
    /\ cmd \in Stopping /\ (Drained \/ ~Patient)
    /\ cmd' = CASE cmd = "stop_token" -> "save"
                [] cmd = "stop_error" -> "failed"
                [] cmd = "stop_interrupt" -> "interrupted"
    /\ UNCHANGED <<interrupted, channels, received, request, pc, tokens, stored, now, faults>>

\* The token is stored with the context that signals end.  The sync that follows
\* is that of HoldingsCache, and its error is only a warning.
Save ==
    /\ cmd = "save"
    /\ \/ ~interrupted /\ UpsertToken(Owner, received) /\ cmd' = "done" /\ UNCHANGED faults
       \/ /\ \/ Fault
             \/ interrupted /\ UNCHANGED faults
          /\ cmd' = "failed"
          /\ \/ UNCHANGED <<tokens, stored>>
             \/ UpsertToken(Owner, received)     \* only the reply is lost
    /\ UNCHANGED <<interrupted, channels, received, request, pc, now>>

-----------------------------------------------------------------------------
Interrupt ==
    /\ cmd \notin Over /\ ~interrupted /\ interrupted' = TRUE
    /\ UNCHANGED <<cmd, channels, received, request, pc, tokens, stored, now, faults>>

\* SIGKILL: the only way out when Shutdown waits for a callback that is blocked,
\* since a second SIGINT is caught as well.
Kill ==
    /\ cmd \notin Over /\ interrupted /\ cmd' = "killed"
    /\ UNCHANGED <<interrupted, channels, received, request, pc, tokens, stored, now, faults>>

Tick ==
    /\ now < MaxTime /\ now' = now + 1
    /\ UNCHANGED <<cmd, interrupted, channels, received, request, pc, tokens, stored, faults>>

Settled ==
    /\ cmd \in Over /\ \A c \in Callbacks : pc[c] \in Handling => ~Lives(c)
    /\ UNCHANGED vars

CommandStep == Select \/ Shutdown \/ Save
Handle(c) ==
    \/ Verify(c) \/ Lookup(c) \/ Exchange(c) \/ SaveToken(c)
    \/ SendToken(c) \/ SendError(c)

Next ==
    \/ CommandStep \/ ServeFails \/ Interrupt \/ Kill \/ Tick \/ Settled
    \/ \E c \in Callbacks : Arrive(c) \/ Handle(c)

\* Goroutines run, and database and broker answer.
Fairness == WF_vars(CommandStep) /\ \A c \in Callbacks : WF_vars(Handle(c))

Spec == Init /\ [][Next]_vars
FairSpec == Spec /\ Fairness

-----------------------------------------------------------------------------
TypeOK ==
    /\ cmd \in {"select", "save"} \union Stopping \union Over
    /\ interrupted \in BOOLEAN
    /\ tokenCh \in Seq(Callbacks) /\ Len(tokenCh) <= 1
    /\ errCh \in Seq(Callbacks \union {None}) /\ Len(errCh) <= 1
    /\ received \in Callbacks \union {None}
    /\ server \in [Callbacks -> {"command", "api"}]
    /\ link \in [Callbacks -> Links \union {None}]
    /\ pc \in [Callbacks -> {"idle", "ended"} \union Handling]
    /\ page \in [Callbacks -> {"none", "success", "error"}]
    /\ tokens \in [Users -> Tokens] /\ stored \subseteq Callbacks
    /\ now \in 0..MaxTime /\ faults \in 0..MaxFaults

\* A stored token was fetched with a link issued for that very user, whichever of
\* the two servers stored it and however their callbacks overlap: nobody's holdings
\* appear under the account of somebody else.
TokenOfItsUser ==
    \A u \in Users : tokens[u] # None => link[tokens[u].by].user = u

\* The browser is told that authentication succeeded, and the command has ended
\* without storing that token: only because it was told something else first (the
\* select takes any channel that is ready), was interrupted, or had a failure.
LoginLostOnlyInRaces ==
    \A c \in Callbacks :
        cmd \in Over /\ server[c] = "command" /\ pc[c] = "ended" /\ page[c] = "success" =>
            \/ c \in stored
            \/ interrupted \/ faults > 0
            \/ \E o \in Callbacks \ {c} : server[o] = "command" /\ pc[o] # "idle"

\* A token taken from the channel is stored or refused: the command does not wait for
\* callbacks that wait for each other.
TokenTakenEnds == cmd = "stop_token" ~> cmd \in Over

=============================================================================
