------------------------- MODULE ZerodhaLoginProofs -------------------------
(***************************************************************************)
(* Theorems about ZerodhaLogin, for any number of callbacks, users and      *)
(* failures, and any lifetimes of links and tokens.                        *)
(***************************************************************************)
EXTENDS ZerodhaLogin, TLAPS, SequenceTheorems

\* What is being handled was asked with a link that was accepted; by the command
\* with one of its own user.
LinkAccepted == \A c \in Callbacks :
    /\ pc[c] \in {"lookup", "exchange", "save", "send_token"} => link[c] \in Links
    /\ pc[c] \in {"lookup", "save"} => server[c] = "api"
    /\ pc[c] \in {"send_token", "send_error"} => server[c] = "command"
    /\ pc[c] \in {"exchange", "send_token"} /\ server[c] = "command" => link[c].user = Owner

\* A token on its way through the command is of the user it logs in.
TokenOnItsWay ==
    /\ tokenCh # <<>> => pc[tokenCh[1]] = "ended" /\ link[tokenCh[1]].user = Owner
    /\ cmd \in {"stop_token", "save"} =>
           received \in Callbacks /\ pc[received] = "ended" /\ link[received].user = Owner

\* The link of a stored token is not used again.
TokenKept ==
    \A u \in Users : tokens[u] # None =>
        pc[tokens[u].by] = "ended" /\ link[tokens[u].by].user = u

\* Nothing has disturbed a callback of the command.
Quiet(c) ==
    /\ ~interrupted /\ faults = 0
    /\ \A o \in Callbacks \ {c} : server[o] = "command" => pc[o] = "idle"

\* An undisturbed callback finds the channels empty, and its token arrives.
Undisturbed ==
    \A c \in Callbacks : server[c] = "command" /\ Quiet(c) =>
        /\ pc[c] \in {"idle", "verify", "exchange", "send_token", "send_error"} =>
               cmd = "select" /\ tokenCh = <<>> /\ errCh = <<>>
        /\ pc[c] \in {"idle", "verify", "exchange"} => page[c] = "none"
        /\ pc[c] = "send_error" => page[c] = "error"
        /\ pc[c] = "ended" /\ page[c] = "success" =>
               /\ errCh = <<>>
               /\ \/ cmd = "select" /\ tokenCh = <<c>>
                  \/ cmd \in {"stop_token", "save"} /\ received = c
                  \/ c \in stored

IInv == TypeOK /\ LinkAccepted /\ TokenOnItsWay /\ TokenKept /\ Undisturbed

-----------------------------------------------------------------------------
LEMMA InitInvariant == Init => IInv
<1> SUFFICES ASSUME Init PROVE IInv
  OBVIOUS
<1>1. TypeOK
  <2>1. /\ now \in 0..MaxTime /\ faults \in 0..MaxFaults
    BY BoundsAssumption DEF Init
  <2>2. /\ tokenCh \in Seq(Callbacks) /\ Len(tokenCh) <= 1
        /\ errCh \in Seq(Callbacks \union {None}) /\ Len(errCh) <= 1
    BY DEF Init
  <2>3. tokens \in [Users -> Tokens] /\ stored \subseteq Callbacks
    BY DEF Init, Tokens
  <2> QED
    BY <2>1, <2>2, <2>3 DEF Init, TypeOK
<1>2. LinkAccepted /\ TokenOnItsWay /\ TokenKept
  BY DEF Init, LinkAccepted, TokenOnItsWay, TokenKept
<1>3. Undisturbed
  BY DEF Init, Undisturbed
<1> QED
  BY <1>1, <1>2, <1>3 DEF IInv

CallbackStep(c) == Arrive(c) \/ Handle(c)
CommandOrWorld == CommandStep \/ ServeFails \/ Interrupt \/ Kill \/ Tick

LEMMA MidnightNat == ASSUME TypeOK PROVE Midnight \in Nat
<1>1. now \in Nat /\ Day \in Nat \ {0}
  BY BoundsAssumption, TimesAssumption DEF TypeOK
<1>2. (now \div Day) \in Nat
  BY <1>1
<1>3. (now \div Day) + 1 \in Nat
  BY <1>2
<1> QED
  BY <1>1, <1>3 DEF Midnight

LEMMA FaultType == ASSUME faults \in 0..MaxFaults, Fault PROVE faults' \in 0..MaxFaults
BY BoundsAssumption DEF Fault

LEMMA UpsertType ==
    ASSUME TypeOK, NEW u \in Users, NEW c \in Callbacks, UpsertToken(u, c)
    PROVE  tokens' \in [Users -> Tokens] /\ stored' \subseteq Callbacks
<1>1. [by |-> c, expires |-> Midnight] \in Tokens
  BY MidnightNat DEF Tokens
<1> QED
  BY <1>1 DEF UpsertToken, TypeOK

LEMMA RejectType ==
    ASSUME TypeOK, NEW c \in Callbacks, Reject(c)
    PROVE  /\ pc' \in [Callbacks -> {"idle", "ended"} \union Handling]
           /\ page' \in [Callbacks -> {"none", "success", "error"}]
BY DEF TypeOK, Reject, Goto, Handling

LEMMA CallbackTypes ==
    ASSUME TypeOK, LinkAccepted, NEW c \in Callbacks, CallbackStep(c)
    PROVE  TypeOK'
<1> USE DEF TypeOK, channels, request
<1>1. CASE Arrive(c)
  BY <1>1 DEF Arrive, Goto, Handling
<1>2. CASE Verify(c)
  <2>1. CASE Reject(c)
    BY <1>2, <2>1, RejectType DEF Verify
  <2>2. CASE ~Reject(c)
    BY <1>2, <2>2 DEF Verify, Goto, Handling
  <2> QED BY <2>1, <2>2
<1>3. CASE Lookup(c)
  <2>1. CASE Reject(c)
    BY <1>3, <2>1, RejectType, FaultType DEF Lookup
  <2>2. CASE ~Reject(c)
    BY <1>3, <2>2 DEF Lookup, Goto, Handling
  <2> QED BY <2>1, <2>2
<1>4. CASE Exchange(c)
  <2>1. CASE Reject(c)
    <3>1. faults' \in 0..MaxFaults
      BY <1>4, FaultType DEF Exchange
    <3> QED BY <1>4, <2>1, <3>1, RejectType DEF Exchange
  <2>2. CASE ~Reject(c)
    BY <1>4, <2>2 DEF Exchange, PageOfToken, Goto, Handling
  <2> QED BY <2>1, <2>2
<1>5. CASE SaveToken(c)
  <2>1. link[c].user \in Users
    BY <1>5 DEF SaveToken, LinkAccepted, Links
  <2>2. faults' \in 0..MaxFaults
    BY <1>5, FaultType DEF SaveToken
  <2>3. tokens' \in [Users -> Tokens] /\ stored' \subseteq Callbacks
    BY <1>5, <2>1, UpsertType DEF SaveToken
  <2>4. /\ pc' \in [Callbacks -> {"idle", "ended"} \union Handling]
        /\ page' \in [Callbacks -> {"none", "success", "error"}]
    BY <1>5, RejectType DEF SaveToken, Goto
  <2> QED BY <1>5, <2>2, <2>3, <2>4 DEF SaveToken
<1>6. CASE SendToken(c)
  BY <1>6 DEF SendToken, HasRoom, Goto, Handling
<1>7. CASE SendError(c)
  BY <1>7 DEF SendError, HasRoom, Goto, Handling
<1> QED
  BY <1>1, <1>2, <1>3, <1>4, <1>5, <1>6, <1>7 DEF CallbackStep, Handle

LEMMA CommandTypes ==
    ASSUME TypeOK, TokenOnItsWay, CommandOrWorld
    PROVE  TypeOK'
<1> USE DEF TypeOK, channels, request
<1>1. CASE Select
  BY <1>1 DEF Select, Stopping
<1>2. CASE Shutdown
  BY <1>2 DEF Shutdown, Stopping, Over
<1>3. CASE Save
  <2>1. Owner \in Users /\ received \in Callbacks
    BY <1>3, UsersAssumption DEF Save, TokenOnItsWay
  <2>2. tokens' \in [Users -> Tokens] /\ stored' \subseteq Callbacks
    BY <1>3, <2>1, UpsertType DEF Save
  <2>3. faults' \in 0..MaxFaults
    BY <1>3, FaultType DEF Save
  <2> QED BY <1>3, <2>2, <2>3 DEF Save, Over
<1>4. CASE ServeFails
  BY <1>4, FaultType DEF ServeFails, HasRoom
<1>5. CASE Interrupt \/ Kill
  BY <1>5 DEF Interrupt, Kill, Over
<1>6. CASE Tick
  BY <1>6, BoundsAssumption DEF Tick
<1> QED
  BY <1>1, <1>2, <1>3, <1>4, <1>5, <1>6 DEF CommandOrWorld, CommandStep

-----------------------------------------------------------------------------
(* Tokens *)

LEMMA LinkStep ==
    ASSUME TypeOK, LinkAccepted, NEW c \in Callbacks, CallbackStep(c)
    PROVE  LinkAccepted'
<1> SUFFICES ASSUME NEW d \in Callbacks
             PROVE  /\ pc'[d] \in {"lookup", "exchange", "save", "send_token"} => link'[d] \in Links
                    /\ pc'[d] \in {"lookup", "save"} => server'[d] = "api"
                    /\ pc'[d] \in {"send_token", "send_error"} => server'[d] = "command"
                    /\ pc'[d] \in {"exchange", "send_token"} /\ server'[d] = "command" =>
                           link'[d].user = Owner
  BY DEF LinkAccepted
<1>0. /\ pc[d] \in {"lookup", "exchange", "save", "send_token"} => link[d] \in Links
      /\ pc[d] \in {"lookup", "save"} => server[d] = "api"
      /\ pc[d] \in {"send_token", "send_error"} => server[d] = "command"
      /\ pc[d] \in {"exchange", "send_token"} /\ server[d] = "command" => link[d].user = Owner
      /\ server[d] \in {"command", "api"} /\ link[d] \in Links \union {None}
  BY DEF LinkAccepted, TypeOK
<1>1. UNCHANGED server
  BY DEF CallbackStep, Handle, Arrive, Verify, Lookup, Exchange, SaveToken, SendToken, SendError,
         request
<1> USE DEF TypeOK, Goto, request
<1>2. CASE Arrive(c)
  BY <1>0, <1>1, <1>2 DEF Arrive
<1>3. CASE Verify(c)
  BY <1>0, <1>1, <1>3 DEF Verify, Verified, IsExpected, Reject
<1>4. CASE Lookup(c)
  BY <1>0, <1>1, <1>4 DEF Lookup, Reject
<1>5. CASE Exchange(c)
  BY <1>0, <1>1, <1>5 DEF Exchange, Reject
<1>6. CASE SaveToken(c)
  BY <1>0, <1>1, <1>6 DEF SaveToken, Reject
<1>7. CASE SendToken(c)
  BY <1>0, <1>1, <1>7 DEF SendToken
<1>8. CASE SendError(c)
  BY <1>0, <1>1, <1>8 DEF SendError
<1> QED
  BY <1>2, <1>3, <1>4, <1>5, <1>6, <1>7, <1>8 DEF CallbackStep, Handle

\* A callback that has ended stays so, with its link.
LEMMA EndedStays ==
    ASSUME TypeOK, NEW c \in Callbacks, CallbackStep(c), NEW d \in Callbacks, pc[d] = "ended"
    PROVE  pc'[d] = "ended" /\ link'[d] = link[d]
BY DEF CallbackStep, Handle, Arrive, Verify, Lookup, Exchange, SaveToken, SendToken, SendError,
       Reject, Goto, request, TypeOK

LEMMA WayStep ==
    ASSUME TypeOK, LinkAccepted, TokenOnItsWay, NEW c \in Callbacks, CallbackStep(c)
    PROVE  TokenOnItsWay'
<1>1. UNCHANGED <<cmd, received>>
  BY DEF CallbackStep, Handle, Arrive, Verify, Lookup, Exchange, SaveToken, SendToken, SendError
<1>2. cmd \in {"stop_token", "save"} =>
          received \in Callbacks /\ pc'[received] = "ended" /\ link'[received].user = Owner
  BY EndedStays DEF TokenOnItsWay
<1>3. tokenCh' # <<>> => pc'[tokenCh'[1]] = "ended" /\ link'[tokenCh'[1]].user = Owner
  <2>1. CASE SendToken(c)
    <3>1. tokenCh' = <<c>>
      BY <2>1 DEF SendToken, HasRoom
    <3>2. pc'[c] = "ended" /\ link'[c] = link[c] /\ link[c].user = Owner
      BY <2>1 DEF SendToken, Goto, request, LinkAccepted, TypeOK
    <3> QED BY <3>1, <3>2
  <2>2. CASE ~SendToken(c)
    <3>1. UNCHANGED tokenCh
      BY <2>2 DEF CallbackStep, Handle, Arrive, Verify, Lookup, Exchange, SaveToken, SendError,
                  channels
    <3>2. tokenCh # <<>> => tokenCh[1] \in Callbacks
      BY DEF TypeOK
    <3> QED BY <3>1, <3>2, EndedStays DEF TokenOnItsWay
  <2> QED BY <2>1, <2>2
<1> QED
  BY <1>1, <1>2, <1>3 DEF TokenOnItsWay

LEMMA KeptStep ==
    ASSUME TypeOK, LinkAccepted, TokenKept, NEW c \in Callbacks, CallbackStep(c)
    PROVE  TokenKept'
<1> SUFFICES ASSUME NEW u \in Users, tokens'[u] # None
             PROVE  pc'[tokens'[u].by] = "ended" /\ link'[tokens'[u].by].user = u
  BY DEF TokenKept
<1>1. CASE tokens'[u] = tokens[u]
  <2>1. tokens[u].by \in Callbacks
    BY <1>1 DEF TypeOK, Tokens
  <2> QED BY <1>1, <2>1, EndedStays DEF TokenKept
<1>2. CASE tokens'[u] # tokens[u]
  <2>1. SaveToken(c) /\ UpsertToken(link[c].user, c)
    BY <1>2 DEF CallbackStep, Handle, Arrive, Verify, Lookup, Exchange, SaveToken, SendToken, SendError
  <2>2. u = link[c].user /\ tokens'[u] = [by |-> c, expires |-> Midnight]
    BY <1>2, <2>1 DEF UpsertToken, TypeOK
  <2>3. server[c] = "api"
    BY <2>1 DEF LinkAccepted, SaveToken
  <2>4. pc'[c] = "ended" /\ link'[c] = link[c]
    BY <2>1, <2>3 DEF SaveToken, Reject, Goto, TypeOK
  <2> QED BY <2>2, <2>4
<1> QED BY <1>1, <1>2

LEMMA CommandTokens ==
    ASSUME TypeOK, LinkAccepted, TokenOnItsWay, TokenKept, CommandOrWorld
    PROVE  LinkAccepted' /\ TokenOnItsWay' /\ TokenKept'
<1>1. UNCHANGED <<request, pc>>
  BY DEF CommandOrWorld, CommandStep, Select, Shutdown, Save, ServeFails, Interrupt, Kill, Tick
<1>2. LinkAccepted'
  BY <1>1 DEF LinkAccepted, request
<1>3. TokenOnItsWay'
  <2> USE <1>1 DEF TokenOnItsWay, request, channels
  <2>1. CASE Select
    <3>1. CASE tokenCh # <<>> /\ tokenCh' = Tail(tokenCh) /\ received' = Head(tokenCh)
      <4>1. tokenCh' = <<>> /\ received' = tokenCh[1] /\ tokenCh[1] \in Callbacks
        BY <3>1 DEF TypeOK
      <4> QED BY <3>1, <4>1
    <3>2. CASE UNCHANGED <<tokenCh, received>> /\ cmd' \in {"stop_error", "stop_interrupt"}
      BY <3>2
    <3> QED BY <2>1, <3>1, <3>2 DEF Select
  <2>2. CASE Shutdown
    BY <2>2 DEF Shutdown, Stopping
  <2>3. CASE Save
    BY <2>3 DEF Save
  <2>4. CASE ServeFails \/ Interrupt \/ Kill \/ Tick
    BY <2>4 DEF ServeFails, Interrupt, Kill, Tick
  <2> QED BY <2>1, <2>2, <2>3, <2>4 DEF CommandOrWorld, CommandStep
<1>4. TokenKept'
  <2>1. CASE UNCHANGED tokens
    BY <1>1, <2>1 DEF TokenKept, request
  <2>2. CASE Save /\ UpsertToken(Owner, received)
    <3>1. pc[received] = "ended" /\ link[received].user = Owner
      BY <2>2 DEF Save, TokenOnItsWay
    <3>2. tokens' = [tokens EXCEPT ![Owner] = [by |-> received, expires |-> Midnight]]
      BY <2>2 DEF UpsertToken
    <3> SUFFICES ASSUME NEW u \in Users, tokens'[u] # None
                 PROVE  pc[tokens'[u].by] = "ended" /\ link[tokens'[u].by].user = u
      BY <1>1 DEF TokenKept, request
    <3>3. CASE u = Owner
      <4>1. tokens'[u].by = received
        BY <3>2, <3>3 DEF TypeOK
      <4> QED BY <3>1, <3>3, <4>1
    <3>4. CASE u # Owner
      BY <3>2, <3>4 DEF TypeOK, TokenKept
    <3> QED BY <3>3, <3>4
  <2> QED
    BY <2>1, <2>2
    DEF CommandOrWorld, CommandStep, Select, Shutdown, Save, ServeFails, Interrupt, Kill, Tick
<1> QED BY <1>2, <1>3, <1>4

-----------------------------------------------------------------------------
(* Lost logins *)

\* What is not quiet any more never will be.
LEMMA QuietBefore ==
    ASSUME TypeOK, NEW d \in Callbacks, Quiet(d)', UNCHANGED server,
           interrupted => interrupted', faults' = faults \/ Fault,
           \A o \in Callbacks \ {d} : pc'[o] = "idle" => pc[o] = "idle"
    PROVE  Quiet(d) /\ UNCHANGED <<interrupted, faults>>
<1>1. /\ ~interrupted' /\ faults' = 0
      /\ \A o \in Callbacks \ {d} : server'[o] = "command" => pc'[o] = "idle"
  BY DEF Quiet
<1>2. faults \in Nat
  BY BoundsAssumption DEF TypeOK
<1>3. faults = 0
  BY <1>1, <1>2 DEF Fault
<1>4. interrupted = FALSE /\ interrupted' = FALSE
  BY <1>1 DEF TypeOK
<1>5. \A o \in Callbacks \ {d} : server[o] = "command" => pc[o] = "idle"
  BY <1>1
<1> QED
  BY <1>1, <1>3, <1>4, <1>5 DEF Quiet

LEMMA CallbackQuiet ==
    ASSUME TypeOK, NEW c \in Callbacks, CallbackStep(c), NEW d \in Callbacks, Quiet(d)'
    PROVE  /\ Quiet(d) /\ UNCHANGED <<interrupted, faults, server, cmd, received>>
           /\ server[c] = "command" => c = d
<1>1. UNCHANGED <<interrupted, server, cmd, received>>
  BY DEF CallbackStep, Handle, Arrive, Verify, Lookup, Exchange, SaveToken, SendToken, SendError,
         request
<1>2. faults' = faults \/ Fault
  BY DEF CallbackStep, Handle, Arrive, Verify, Lookup, Exchange, SaveToken, SendToken, SendError
<1>3. pc'[c] # "idle" /\ \A o \in Callbacks \ {c} : pc'[o] = pc[o]
  BY DEF CallbackStep, Handle, Arrive, Verify, Lookup, Exchange, SaveToken, SendToken, SendError,
         Reject, Goto, TypeOK
<1>4. Quiet(d) /\ UNCHANGED <<interrupted, faults>>
  BY <1>1, <1>2, <1>3, QuietBefore
<1>5. server[c] = "command" => c = d
  BY <1>1, <1>3 DEF Quiet
<1> QED BY <1>1, <1>4, <1>5

\* Callbacks of the API leave the channels alone, and what is not stored too.
LEMMA OthersAside ==
    ASSUME TypeOK, LinkAccepted, NEW c \in Callbacks, CallbackStep(c), server[c] # "command"
    PROVE  /\ UNCHANGED channels /\ stored \subseteq stored'
           /\ \A d \in Callbacks \ {c} : pc'[d] = pc[d] /\ page'[d] = page[d]
BY DEF CallbackStep, Handle, Arrive, Verify, Lookup, Exchange, SaveToken, SendToken, SendError,
       Reject, Goto, TypeOK, LinkAccepted, channels, request, UpsertToken

LEMMA UndisturbedByCallbacks ==
    ASSUME TypeOK, LinkAccepted, Undisturbed, NEW c \in Callbacks, CallbackStep(c)
    PROVE  Undisturbed'
<1> SUFFICES ASSUME NEW d \in Callbacks, server'[d] = "command", Quiet(d)'
             PROVE  /\ pc'[d] \in {"idle", "verify", "exchange", "send_token", "send_error"} =>
                           cmd' = "select" /\ tokenCh' = <<>> /\ errCh' = <<>>
                    /\ pc'[d] \in {"idle", "verify", "exchange"} => page'[d] = "none"
                    /\ pc'[d] = "send_error" => page'[d] = "error"
                    /\ pc'[d] = "ended" /\ page'[d] = "success" =>
                         /\ errCh' = <<>>
                         /\ \/ cmd' = "select" /\ tokenCh' = <<d>>
                            \/ cmd' \in {"stop_token", "save"} /\ received' = d
                            \/ d \in stored'
  BY DEF Undisturbed
<1>1. /\ Quiet(d) /\ UNCHANGED <<interrupted, faults, server, cmd, received>>
      /\ server[c] = "command" => c = d
  BY CallbackQuiet
<1>2. /\ pc[d] \in {"idle", "verify", "exchange", "send_token", "send_error"} =>
             cmd = "select" /\ tokenCh = <<>> /\ errCh = <<>>
      /\ pc[d] \in {"idle", "verify", "exchange"} => page[d] = "none"
      /\ pc[d] = "send_error" => page[d] = "error"
      /\ pc[d] = "ended" /\ page[d] = "success" =>
             /\ errCh = <<>>
             /\ \/ cmd = "select" /\ tokenCh = <<d>>
                \/ cmd \in {"stop_token", "save"} /\ received = d
                \/ d \in stored
  BY <1>1 DEF Undisturbed
<1>3. CASE server[c] # "command"
  <2>1. d # c
    BY <1>1, <1>3
  <2> QED BY <1>1, <1>2, <1>3, <2>1, OthersAside DEF channels
<1>4. CASE server[c] = "command"
  <2>0. c = d
    BY <1>1, <1>4
  <2> USE <1>1, <1>2, <1>4, <2>0 DEF TypeOK, Goto, channels, request
  <2>1. CASE Arrive(c)
    BY <2>1 DEF Arrive
  <2>2. CASE Verify(c)
    BY <2>2 DEF Verify, Reject
  <2>3. CASE Lookup(c) \/ SaveToken(c)
    BY <2>3 DEF Lookup, SaveToken, LinkAccepted
  <2>4. CASE Exchange(c)
    BY <2>4 DEF Exchange, PageOfToken, Reject
  <2>5. CASE SendToken(c)
    BY <2>5 DEF SendToken, HasRoom
  <2>6. CASE SendError(c)
    BY <2>6 DEF SendError
  <2> QED
    BY <2>1, <2>2, <2>3, <2>4, <2>5, <2>6 DEF CallbackStep, Handle
<1> QED BY <1>3, <1>4

LEMMA UndisturbedByCommand ==
    ASSUME TypeOK, TokenOnItsWay, Undisturbed, CommandOrWorld
    PROVE  Undisturbed'
<1>0. UNCHANGED <<request, pc>>
  BY DEF CommandOrWorld, CommandStep, Select, Shutdown, Save, ServeFails, Interrupt, Kill, Tick
<1> SUFFICES ASSUME NEW d \in Callbacks, server[d] = "command", Quiet(d)'
             PROVE  /\ pc[d] \in {"idle", "verify", "exchange", "send_token", "send_error"} =>
                           cmd' = "select" /\ tokenCh' = <<>> /\ errCh' = <<>>
                    /\ pc[d] \in {"idle", "verify", "exchange"} => page[d] = "none"
                    /\ pc[d] = "send_error" => page[d] = "error"
                    /\ pc[d] = "ended" /\ page[d] = "success" =>
                         /\ errCh' = <<>>
                         /\ \/ cmd' = "select" /\ tokenCh' = <<d>>
                            \/ cmd' \in {"stop_token", "save"} /\ received' = d
                            \/ d \in stored'
  BY <1>0 DEF Undisturbed, request
<1>1. Quiet(d) /\ UNCHANGED <<interrupted, faults>>
  <2>1. (interrupted => interrupted') /\ (faults' = faults \/ Fault)
    BY DEF CommandOrWorld, CommandStep, Select, Shutdown, Save, ServeFails, Interrupt, Kill, Tick
  <2> QED BY <1>0, <2>1, QuietBefore DEF request
<1>2. /\ pc[d] \in {"idle", "verify", "exchange", "send_token", "send_error"} =>
             cmd = "select" /\ tokenCh = <<>> /\ errCh = <<>>
      /\ pc[d] \in {"idle", "verify", "exchange"} => page[d] = "none"
      /\ pc[d] = "send_error" => page[d] = "error"
      /\ pc[d] = "ended" /\ page[d] = "success" =>
             /\ errCh = <<>>
             /\ \/ cmd = "select" /\ tokenCh = <<d>>
                \/ cmd \in {"stop_token", "save"} /\ received = d
                \/ d \in stored
  BY <1>1 DEF Undisturbed
<1>3. ~interrupted /\ ~Fault
  <2>1. faults \in Nat /\ faults' = faults
    BY <1>1, BoundsAssumption DEF TypeOK
  <2> QED BY <1>1, <2>1 DEF Quiet, Fault
<1> USE <1>1, <1>2, <1>3 DEF channels
<1>4. CASE Select
  <2>1. CASE tokenCh # <<>> /\ tokenCh' = Tail(tokenCh) /\ received' = Head(tokenCh)
              /\ cmd' = "stop_token" /\ UNCHANGED errCh
    <3>1. tokenCh = <<d>> => received' = d
      BY <2>1
    <3> QED BY <1>4, <2>1, <3>1 DEF Select
  <2>2. CASE errCh # <<>>
    BY <1>4, <2>2 DEF Select, TypeOK, Handling
  <2> QED BY <1>4, <2>1, <2>2 DEF Select
<1>5. CASE Shutdown
  BY <1>5 DEF Shutdown, Stopping
<1>6. CASE Save
  BY <1>6 DEF Save, UpsertToken
<1>7. CASE ServeFails \/ Interrupt \/ Kill
  BY <1>7 DEF ServeFails, Interrupt, Kill
<1>8. CASE Tick
  BY <1>8 DEF Tick
<1> QED
  BY <1>4, <1>5, <1>6, <1>7, <1>8 DEF CommandOrWorld, CommandStep

-----------------------------------------------------------------------------
LEMMA NextInvariant == IInv /\ [Next]_vars => IInv'
<1> SUFFICES ASSUME IInv, [Next]_vars PROVE IInv'
  OBVIOUS
<1>1. ASSUME NEW c \in Callbacks, CallbackStep(c) PROVE IInv'
  BY <1>1, CallbackTypes, LinkStep, WayStep, KeptStep, UndisturbedByCallbacks DEF IInv
<1>2. CASE CommandOrWorld
  BY <1>2, CommandTypes, CommandTokens, UndisturbedByCommand DEF IInv
<1>3. CASE UNCHANGED vars
  <2>1. TypeOK' /\ LinkAccepted' /\ TokenOnItsWay' /\ TokenKept'
    BY <1>3 DEF IInv, vars, channels, request, TypeOK, LinkAccepted, TokenOnItsWay, TokenKept
  <2>2. Undisturbed'
    BY <1>3 DEF IInv, vars, channels, request, Undisturbed, Quiet
  <2> QED BY <2>1, <2>2 DEF IInv
<1> QED
  BY <1>1, <1>2, <1>3 DEF Next, CommandOrWorld, CallbackStep, Settled

-----------------------------------------------------------------------------
\* In every behaviour.
LEMMA Invariant == Spec => []IInv
BY InitInvariant, NextInvariant, PTL DEF Spec

\* Every variable keeps its type, however the two servers and their callbacks overlap.
THEOREM TypeCorrect == Spec => []TypeOK
<1>1. IInv => TypeOK
  BY DEF IInv
<1> QED BY <1>1, Invariant, PTL

\* A stored token belongs to the user whose link was opened (the state of a login).
THEOREM TokenOfItsUserAlways == Spec => []TokenOfItsUser
<1>1. IInv => TokenOfItsUser
  BY DEF IInv, TokenKept, TokenOfItsUser
<1> QED BY <1>1, Invariant, PTL

\* A login that the browser was told to have succeeded is lost only to a race, a signal
\* or a failure (the command after its callback).
THEOREM LoginLostOnlyInRacesAlways == Spec => []LoginLostOnlyInRaces
<1>1. ASSUME IInv PROVE LoginLostOnlyInRaces
  <2> SUFFICES ASSUME NEW c \in Callbacks,
                      cmd \in Over, server[c] = "command", pc[c] = "ended", page[c] = "success",
                      c \notin stored, ~interrupted, ~(faults > 0),
                      ~\E o \in Callbacks \ {c} : server[o] = "command" /\ pc[o] # "idle"
               PROVE  FALSE
    BY DEF LoginLostOnlyInRaces
  <2>1. faults = 0
    BY <1>1, BoundsAssumption DEF IInv, TypeOK
  <2>2. Quiet(c)
    BY <2>1 DEF Quiet
  <2> QED
    BY <1>1, <2>2 DEF IInv, Undisturbed, Over
<1> QED BY <1>1, Invariant, PTL

=============================================================================
