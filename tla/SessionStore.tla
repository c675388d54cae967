---------------------------- MODULE SessionStore ----------------------------
(***************************************************************************)
(* Conversations kept in Agent Runtime sessions (sessionstore.go): several *)
(* requests load, append to, save and fork sessions at the same time, each *)
(* call being several requests to the API that nothing makes atomic.       *)
(*                                                                         *)
(* A request serves one turn: it loads its session, the SDK adds the       *)
(* turn's messages, and the store is called to keep them, possibly more    *)
(* than once.  Or it forks a session into its own.                         *)
(***************************************************************************)
EXTENDS Integers, FiniteSets, SequencesExt, Filter

CONSTANTS
    Requests,   \* the requests being served
    Sessions,   \* the session ids callers present
    Turn,       \* the messages of a request's turn, by role
    Present,    \* the sessions that may exist from the start
    Foreign,    \* an event no author of which PromptKit knows
    Kinds,      \* the calls made: "append", "save" and "fork"
    MaxCalls,   \* bound on the calls all the requests make together
    MaxFaults,  \* bound on the API's failures
    None

\* Roles of PromptKit; authorForRole has an author for the first two.
Roles == {"user", "assistant", "tool"}

\* The n-th message of the turn of request c.
Message == Requests \X (Nat \ {0})

ASSUME SessionAssumption ==
    /\ Turn \in [Requests -> Seq(Roles)]
    /\ \A c \in Requests : Turn[c] # <<>>
    /\ Present \subseteq Sessions
    /\ Foreign \notin Message
    /\ None \notin Sessions
    /\ MaxCalls \in Nat /\ MaxFaults \in Nat

VARIABLES
    exists,   \* the sessions there are
    events,   \* the events of each session, oldest first
    pc,       \* where each request is
    session,  \* the session its current call works on
    state,    \* the ConversationState the SDK holds for it
    call,     \* its last or current call to the store
    batch,    \* what AppendMessages still has to write
    outcome,  \* how its last call ended
    calls,    \* how many calls it has made
    faults    \* failures injected so far

vars == <<exists, events, pc, session, state, call, batch, outcome, calls, faults>>

TypeOK ==
    /\ exists \subseteq Sessions
    /\ events \in [Sessions -> Seq(Message \cup {Foreign})]
    /\ pc \in [Requests -> {"new", "open", "get", "create", "wait", "write", "ended"}]
    /\ session \in [Requests -> Sessions \cup {None}]
    /\ state \in [Requests -> Seq(Message)]
    /\ call \in [Requests -> {"none", "load", "append", "save", "fork"}]
    /\ batch \in [Requests -> Seq(Message)]
    /\ outcome \in [Requests -> {"none", "ok", "error", "notfound"}]
    /\ calls \in [Requests -> Nat]
    /\ faults \in 0..MaxFaults

Init ==
    /\ exists \in SUBSET Present
    /\ events = [s \in Sessions |-> IF s \in exists THEN <<Foreign>> ELSE <<>>]
    /\ pc = [c \in Requests |-> "new"]
    /\ session = [c \in Requests |-> None]
    /\ state = [c \in Requests |-> <<>>]
    /\ call = [c \in Requests |-> "none"]
    /\ batch = [c \in Requests |-> <<>>]
    /\ outcome = [c \in Requests |-> "none"]
    /\ calls = [c \in Requests |-> 0]
    /\ faults = 0
-----------------------------------------------------------------------------
RoleOf(m) == Turn[m[1]][m[2]]
Own(c) == [n \in 1..Len(Turn[c]) |-> <<c, n>>]

\* A bug: the text is read where only the model's replies have it.
eventFromMessageIfModel(m) == RoleOf(m) = "assistant"

\* Whether a message becomes an event: a role the API has no author for does not.
\* A message without text does not either, and counts as such a role here.
eventFromMessage(m) == RoleOf(m) \in {"user", "assistant"}

\* A bug: an event of an unknown author is replayed like any other.
messageFromEventAlways == Message \cup {Foreign}

\* The events messageFromEvent makes a message of: those whose author has a role.
messageFromEvent == Message

\* loadMessages replays the events PromptKit has a role for.  The events only
\* grow, so what a paged listing returns is the list at the time of its last page.
\* A session that is not there is an empty conversation.
loadMessages(s) == IF s \in exists THEN Only(events[s], messageFromEvent) ELSE <<>>

CallsLeft == FoldFunction(+, 0, calls) < MaxCalls

Fault == faults < MaxFaults /\ faults' = faults + 1

\* A call of request c returns.
Return(c, how) ==
    /\ outcome' = [outcome EXCEPT ![c] = how]
    /\ pc' = [pc EXCEPT ![c] = IF call[c] = "fork" THEN "ended" ELSE "open"]
    /\ batch' = [batch EXCEPT ![c] = <<>>]

\* Request c goes on to the next request of its call.
Goto(c, point) ==
    /\ pc' = [pc EXCEPT ![c] = point]
    /\ UNCHANGED batch

\* Request c calls the store, which has messages to write.
Write(c, kind, messages) ==
    /\ CallsLeft
    /\ kind \in Kinds
    /\ call' = [call EXCEPT ![c] = kind]
    /\ calls' = [calls EXCEPT ![c] = @ + 1]
    /\ IF messages = <<>>
       THEN /\ outcome' = [outcome EXCEPT ![c] = "ok"]
            /\ UNCHANGED <<pc, batch>>
       ELSE /\ outcome' = [outcome EXCEPT ![c] = "none"]
            /\ batch' = [batch EXCEPT ![c] = messages]
            /\ pc' = [pc EXCEPT ![c] = "get"]
-----------------------------------------------------------------------------
(***************************************************************************)
(* Load, and the turn after it.                                            *)
(***************************************************************************)

\* A bug: the session is created when the conversation is opened.
LoadCreating(c, s) ==
    /\ pc[c] = "new"
    /\ exists' = exists \cup {s}
    /\ session' = [session EXCEPT ![c] = s]
    /\ state' = [state EXCEPT ![c] = loadMessages(s) \o Own(c)]
    /\ call' = [call EXCEPT ![c] = "load"]
    /\ outcome' = [outcome EXCEPT ![c] = "ok"]
    /\ Goto(c, "open")
    /\ UNCHANGED <<events, calls, faults>>

Load(c, s) ==
    /\ pc[c] = "new"
    /\ session' = [session EXCEPT ![c] = s]
    /\ state' = [state EXCEPT ![c] = loadMessages(s) \o Own(c)]
    /\ call' = [call EXCEPT ![c] = "load"]
    /\ outcome' = [outcome EXCEPT ![c] = "ok"]
    /\ Goto(c, "open")
    /\ UNCHANGED <<exists, events, calls, faults>>

\* The listing fails at some page; the turn fails with it.
LoadFails(c) ==
    /\ pc[c] = "new"
    /\ Fault
    /\ call' = [call EXCEPT ![c] = "load"]
    /\ outcome' = [outcome EXCEPT ![c] = "error"]
    /\ Goto(c, "ended")
    /\ UNCHANGED <<exists, events, session, state, calls>>
-----------------------------------------------------------------------------
(***************************************************************************)
(* AppendMessages, Save and Fork up to the first write.                    *)
(***************************************************************************)

\* The hot path: the turn's own messages, once.
AppendMessages(c) ==
    /\ pc[c] = "open"
    /\ call[c] = "load"
    /\ Write(c, "append", Own(c))
    /\ UNCHANGED <<exists, events, session, state, faults>>

\* A bug: the state is written as a whole.
SaveAll(c) ==
    /\ pc[c] = "open"
    /\ Write(c, "save", state[c])
    /\ UNCHANGED <<exists, events, session, state, faults>>

\* The whole state, of which as many messages are dropped as the session holds.
Save(c) ==
    /\ pc[c] = "open"
    /\ Write(c, "save", SubSeq(state[c], Len(loadMessages(session[c])) + 1, Len(state[c])))
    /\ UNCHANGED <<exists, events, session, state, faults>>

SaveFails(c) ==
    /\ pc[c] = "open"
    /\ "save" \in Kinds
    /\ CallsLeft
    /\ Fault
    /\ call' = [call EXCEPT ![c] = "save"]
    /\ calls' = [calls EXCEPT ![c] = @ + 1]
    /\ outcome' = [outcome EXCEPT ![c] = "error"]
    /\ UNCHANGED <<exists, events, pc, session, state, batch>>

\* A bug: the listing's first message is taken for its header.
ForkTail(c, s, t) ==
    /\ pc[c] = "new"
    /\ loadMessages(s) # <<>>
    /\ session' = [session EXCEPT ![c] = t]
    /\ Write(c, "fork", Tail(loadMessages(s)))
    /\ UNCHANGED <<exists, events, state, faults>>

\* The messages of session s are copied into session t.
Fork(c, s, t) ==
    /\ pc[c] = "new"
    /\ loadMessages(s) # <<>>
    /\ session' = [session EXCEPT ![c] = t]
    /\ Write(c, "fork", loadMessages(s))
    /\ UNCHANGED <<exists, events, state, faults>>

\* A fork of nothing is ErrNotFound, a listing that fails an error.
ForkRefused(c, s) ==
    /\ pc[c] = "new"
    /\ "fork" \in Kinds
    /\ call' = [call EXCEPT ![c] = "fork"]
    /\ \/ /\ loadMessages(s) = <<>>
          /\ outcome' = [outcome EXCEPT ![c] = "notfound"]
          /\ UNCHANGED faults
       \/ Fault /\ outcome' = [outcome EXCEPT ![c] = "error"]
    /\ Goto(c, "ended")
    /\ UNCHANGED <<exists, events, session, state, calls>>
-----------------------------------------------------------------------------
(***************************************************************************)
(* ensureSession and the writes.                                           *)
(***************************************************************************)
GetSession(c) ==
    /\ pc[c] = "get"
    /\ Goto(c, IF session[c] \in exists THEN "write" ELSE "create")
    /\ UNCHANGED <<exists, events, session, state, call, outcome, calls, faults>>

\* A bug: losing the race to create a session is an error.
CreateSessionExclusively(c) ==
    /\ pc[c] = "create"
    /\ IF session[c] \in exists
       THEN Return(c, "error")
       ELSE Goto(c, "wait") /\ UNCHANGED outcome
    /\ UNCHANGED <<exists, events, session, state, call, calls, faults>>

\* AlreadyExists means somebody else created it meanwhile.
CreateSession(c) ==
    /\ pc[c] = "create"
    /\ Goto(c, IF session[c] \in exists THEN "write" ELSE "wait")
    /\ UNCHANGED <<exists, events, session, state, call, outcome, calls, faults>>

\* The operation ends: it created the session, or found it there by now.
WaitForSession(c) ==
    /\ pc[c] = "wait"
    /\ exists' = exists \cup {session[c]}
    /\ Goto(c, "write")
    /\ UNCHANGED <<events, session, state, call, outcome, calls, faults>>

\* GetSession or CreateSession fails.
EnsureFails(c) ==
    /\ pc[c] \in {"get", "create"}
    /\ Fault
    /\ Return(c, "error")
    /\ UNCHANGED <<exists, events, session, state, call, calls>>

\* Waiting fails; the operation may succeed all the same.
WaitFails(c) ==
    /\ pc[c] = "wait"
    /\ Fault
    /\ exists' \in {exists, exists \cup {session[c]}}
    /\ Return(c, "error")
    /\ UNCHANGED <<events, session, state, call, calls>>

\* The event of the next message, if it has one.
Appended(c) ==
    IF eventFromMessage(Head(batch[c]))
    THEN [events EXCEPT ![session[c]] = Append(@, Head(batch[c]))]
    ELSE events

\* A bug: the batch is walked from its end.
AppendEventBackwards(c) ==
    /\ pc[c] = "write"
    /\ batch[c] # <<>>
    /\ LET m == batch[c][Len(batch[c])] IN
       events' = IF eventFromMessage(m) THEN [events EXCEPT ![session[c]] = Append(@, m)]
                 ELSE events
    /\ batch' = [batch EXCEPT ![c] = SubSeq(@, 1, Len(@) - 1)]
    /\ UNCHANGED <<exists, pc, session, state, call, outcome, calls, faults>>

AppendEvent(c) ==
    /\ pc[c] = "write"
    /\ batch[c] # <<>>
    /\ events' = Appended(c)
    /\ batch' = [batch EXCEPT ![c] = Tail(@)]
    /\ UNCHANGED <<exists, pc, session, state, call, outcome, calls, faults>>

\* An append that fails ends the call; the event may have been stored.
AppendEventFails(c) ==
    /\ pc[c] = "write"
    /\ batch[c] # <<>>
    /\ eventFromMessage(Head(batch[c]))
    /\ Fault
    /\ events' \in {events, Appended(c)}
    /\ Return(c, "error")
    /\ UNCHANGED <<exists, session, state, call, calls>>

Written(c) ==
    /\ pc[c] = "write"
    /\ batch[c] = <<>>
    /\ Return(c, "ok")
    /\ UNCHANGED <<exists, events, session, state, call, calls, faults>>

Next ==
    \E c \in Requests :
        \/ AppendMessages(c)
        \/ Save(c)
        \/ SaveFails(c)
        \/ LoadFails(c)
        \/ GetSession(c)
        \/ CreateSession(c)
        \/ WaitForSession(c)
        \/ EnsureFails(c)
        \/ WaitFails(c)
        \/ AppendEvent(c)
        \/ AppendEventFails(c)
        \/ Written(c)
        \/ \E s \in Sessions :
            \/ Load(c, s)
            \/ ForkRefused(c, s)
            \/ \E t \in Sessions : Fork(c, s, t)

Spec == Init /\ [][Next]_vars
-----------------------------------------------------------------------------
(***************************************************************************)
(* Safety.                                                                 *)
(***************************************************************************)

\* The messages of a sequence that a conversation must not lose.
Conversation(messages) == Only(messages, {m \in Message : RoleOf(m) # "tool"})

\* The events of session s that are messages of request c's turn.
EventsOf(c, s) == Only(events[s], {c} \X (Nat \ {0}))

Writers(s) == {c \in Requests : session[c] = s /\ calls[c] > 0}

\* A call fails only when a call to the API did: two requests that both find a new
\* conversation's session missing both succeed in writing to it.
FailuresHaveCauses == faults = 0 => \A c \in Requests : outcome[c] # "error"

\* AppendMessages, once it returns without an error, has put what the turn's user
\* and model said into the session, once and in order, whatever the other
\* requests wrote in between; when it fails, or is still at it, a prefix of that.
AppendKeepsTheTurn ==
    \A c \in Requests :
        call[c] = "append" /\ calls[c] = 1 /\ (\A d \in Writers(session[c]) : call[d] # "fork") =>
            /\ IsPrefix(EventsOf(c, session[c]), Conversation(Own(c)))
            /\ outcome[c] = "ok" => EventsOf(c, session[c]) = Conversation(Own(c))

\* Save never stores again what an earlier turn stored: while no call has failed
\* and no turn has messages the session cannot carry, a session other than a
\* fork's holds every message at most once.
SaveRepeatsNothing ==
    \A s \in Sessions :
        /\ faults = 0
        /\ \A c \in Writers(s) : call[c] # "fork" /\ Conversation(Own(c)) = Own(c)
        => \A i, j \in DOMAIN events[s] : events[s][i] = events[s][j] => i = j

\* A fork that succeeds in a session nobody else writes is a copy: it starts with
\* what the source started with and has nothing else.
ForkCopies ==
    [][\A c \in Requests :
        call[c] = "fork" /\ pc[c] = "write" /\ pc'[c] = "ended" /\ outcome'[c] = "ok"
        /\ Writers(session[c]) = {c} =>
            \E s \in Sessions :
                LET copy == Only(events[session[c]], messageFromEvent) IN
                s # session[c] /\ copy # <<>> /\ IsPrefix(copy, loadMessages(s))]_vars

\* A session comes into being only for a write: a caller who names one and never
\* sends anything leaves nothing behind.
SessionsAreWritten == \A s \in exists : events[s] # <<>> \/ Writers(s) # {}

\* What an acknowledged append stored is part of the conversation every later turn
\* of that session starts from.
LaterTurnsSeeEarlierOnes ==
    [][\A c, d \in Requests :
        /\ pc[d] = "new" /\ pc'[d] = "open" /\ session'[d] = session[c]
        /\ call[c] = "append" /\ outcome[c] = "ok"
        => \A m \in {<<c, n>> : n \in 1..Len(Turn[c])} :
             RoleOf(m) # "tool" => m \in ToSet(state'[d])]_vars
-----------------------------------------------------------------------------
\* sessionstore.go: Save appends what is not already there.  With messages the
\* session cannot carry it appends some again, and with two requests in the same
\* session it takes the other's messages for its own and drops some.
SaveAppendsWhatIsMissing ==
    \A c \in Requests :
        call[c] = "save" /\ outcome[c] = "ok" =>
            \A m \in ToSet(state[c]) :
                RoleOf(m) # "tool" =>
                    Cardinality({i \in DOMAIN events[session[c]] : events[session[c]][i] = m}) = 1
=============================================================================
