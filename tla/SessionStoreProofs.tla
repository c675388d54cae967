------------------------- MODULE SessionStoreProofs -------------------------
(***************************************************************************)
(* Theorems about SessionStore, for any requests, sessions, turns and      *)
(* bounds.                                                                 *)
(***************************************************************************)
EXTENDS SessionStore, FilterProofs

Writing == {"get", "create", "wait", "write"}

\* Every request's bookkeeping is there, and every session has some events.
Books ==
    /\ pc \in [Requests -> {"new", "open", "ended"} \cup Writing]
    /\ session \in [Requests -> Sessions \cup {None}]
    /\ outcome \in [Requests -> {"none", "ok", "error", "notfound"}]
    /\ calls \in [Requests -> Nat]
    /\ events = [s \in Sessions |-> events[s]]
    /\ exists \subseteq Sessions
    /\ faults \in Nat

\* A request has made no call before it has a session, and counts a call from its
\* first request to the API on.
Counted ==
    \A c \in Requests :
        /\ pc[c] = "new" => calls[c] = 0
        /\ pc[c] \in Writing => calls[c] > 0
        /\ pc[c] \in {"open"} \cup Writing => session[c] \in Sessions

\* What one step of request c does to the books.
StepOf(c) ==
    /\ \E p \in {"new", "open", "ended"} \cup Writing : pc' = [pc EXCEPT ![c] = p]
    /\ session' = session \/ (pc[c] = "new" /\ \E s \in Sessions : session' = [session EXCEPT ![c] = s])
    /\ calls' = calls \/ calls' = [calls EXCEPT ![c] = @ + 1]
    /\ outcome' = outcome \/ \E how \in {"none", "ok", "error", "notfound"} :
                                /\ outcome' = [outcome EXCEPT ![c] = how]
                                /\ how = "error" => faults' = faults + 1
    /\ faults' = faults \/ faults' = faults + 1
    /\ events' = events \/ (pc[c] = "write" /\ \E es : events' = [events EXCEPT ![session[c]] = es])
    /\ exists' = exists \/ (pc[c] = "wait" /\ exists' = exists \cup {session[c]})
    /\ pc'[c] = "new" => calls' = calls /\ pc[c] = "new"
    /\ pc'[c] \in Writing /\ pc[c] \notin Writing => calls' = [calls EXCEPT ![c] = @ + 1]
    /\ pc'[c] \in {"open"} \cup Writing =>
         pc[c] \in {"open"} \cup Writing \/ \E s \in Sessions : session' = [session EXCEPT ![c] = s]

\* A call that starts to write moves its request on and counts.
LEMMA WriteBooks ==
  ASSUME Books, NEW c \in Requests, NEW kind, NEW messages, Write(c, kind, messages),
         pc[c] = "open" \/ (pc[c] = "new" /\ messages # <<>>)
  PROVE  /\ calls' = [calls EXCEPT ![c] = @ + 1]
         /\ \/ pc' = [pc EXCEPT ![c] = "get"]
            \/ pc[c] = "open" /\ pc' = [pc EXCEPT ![c] = "open"]
         /\ \E how \in {"none", "ok"} : outcome' = [outcome EXCEPT ![c] = how]
<1>1. CASE messages = <<>>
  <2>1. pc[c] = "open" /\ pc' = pc /\ outcome' = [outcome EXCEPT ![c] = "ok"]
    BY <1>1 DEF Write
  <2>2. pc' = [pc EXCEPT ![c] = "open"]
    BY <2>1 DEF Books
  <2> QED BY <2>1, <2>2 DEF Write
<1>2. CASE messages # <<>>
  BY <1>2 DEF Write
<1> QED BY <1>1, <1>2

\* Every action of a request is such a step.
LEMMA ActionsAreSteps ==
  ASSUME Books, Next
  PROVE  \E c \in Requests : StepOf(c)
<1> USE DEF Writing
<1>1. ASSUME NEW c \in Requests, AppendMessages(c) \/ Save(c) PROVE StepOf(c)
  <2>1. PICK kind, messages : Write(c, kind, messages)
    BY <1>1 DEF AppendMessages, Save
  <2>2. /\ pc[c] = "open" /\ session' = session /\ exists' = exists /\ events' = events
        /\ faults' = faults
    BY <1>1 DEF AppendMessages, Save
  <2>3. /\ calls' = [calls EXCEPT ![c] = @ + 1]
        /\ \/ pc' = [pc EXCEPT ![c] = "get"]
           \/ pc[c] = "open" /\ pc' = [pc EXCEPT ![c] = "open"]
        /\ \E how \in {"none", "ok"} : outcome' = [outcome EXCEPT ![c] = how]
    BY <2>1, <2>2, WriteBooks
  <2> QED BY <2>2, <2>3 DEF StepOf, Books
<1>2. ASSUME NEW c \in Requests, NEW s \in Sessions, NEW t \in Sessions, Fork(c, s, t)
      PROVE  StepOf(c)
  <2>1. /\ pc[c] = "new" /\ session' = [session EXCEPT ![c] = t] /\ exists' = exists
        /\ events' = events /\ faults' = faults
        /\ loadMessages(s) # <<>> /\ Write(c, "fork", loadMessages(s))
    BY <1>2 DEF Fork
  <2>2. /\ calls' = [calls EXCEPT ![c] = @ + 1]
        /\ pc' = [pc EXCEPT ![c] = "get"]
        /\ \E how \in {"none", "ok"} : outcome' = [outcome EXCEPT ![c] = how]
    BY <2>1, WriteBooks
  <2> QED BY <2>1, <2>2 DEF StepOf, Books
<1>3. ASSUME NEW c \in Requests, SaveFails(c) PROVE StepOf(c)
  <2>1. pc' = [pc EXCEPT ![c] = "open"]
    BY <1>3 DEF SaveFails, Books
  <2> QED BY <1>3, <2>1 DEF SaveFails, Fault, StepOf, Books
<1>4. ASSUME NEW c \in Requests, NEW s \in Sessions, Load(c, s) PROVE StepOf(c)
  BY <1>4 DEF Load, Goto, StepOf, Books
<1>5. ASSUME NEW c \in Requests, LoadFails(c) \/ \E s \in Sessions : ForkRefused(c, s)
      PROVE  StepOf(c)
  BY <1>5 DEF LoadFails, ForkRefused, Fault, Goto, StepOf, Books
<1>6. ASSUME NEW c \in Requests, GetSession(c) \/ CreateSession(c) \/ WaitForSession(c)
      PROVE  StepOf(c)
  BY <1>6 DEF GetSession, CreateSession, WaitForSession, Goto, StepOf, Books
<1>7. ASSUME NEW c \in Requests, NEW how \in {"ok", "error"}, Return(c, how)
      PROVE  /\ outcome' = [outcome EXCEPT ![c] = how]
             /\ \E p \in {"open", "ended"} : pc' = [pc EXCEPT ![c] = p]
  BY <1>7 DEF Return
<1>8. ASSUME NEW c \in Requests, EnsureFails(c) \/ WaitFails(c) PROVE StepOf(c)
  BY <1>7, <1>8 DEF EnsureFails, WaitFails, Fault, StepOf, Books
<1>9. ASSUME NEW c \in Requests, AppendEvent(c) PROVE StepOf(c)
  <2>1. pc' = [pc EXCEPT ![c] = "write"]
    BY <1>9 DEF AppendEvent, Books
  <2> QED BY <1>9, <2>1 DEF AppendEvent, Appended, StepOf, Books
<1>10. ASSUME NEW c \in Requests, AppendEventFails(c) \/ Written(c) PROVE StepOf(c)
  BY <1>7, <1>10 DEF AppendEventFails, Written, Appended, Fault, StepOf, Books
<1> QED
  BY <1>1, <1>2, <1>3, <1>4, <1>5, <1>6, <1>8, <1>9, <1>10 DEF Next

\* The books stay in order.
LEMMA BooksHold == Spec => [](Books /\ Counted)
<1> USE SessionAssumption DEF Writing
<1>1. Init => Books /\ Counted
  BY DEF Init, Books, Counted
<1>2. Books /\ Counted /\ [Next]_vars => Books' /\ Counted'
  <2> SUFFICES ASSUME Books, Counted, [Next]_vars PROVE Books' /\ Counted'
    OBVIOUS
  <2>0. CASE UNCHANGED vars
    BY <2>0 DEF vars, Books, Counted
  <2> SUFFICES ASSUME NEW c \in Requests, StepOf(c) PROVE Books' /\ Counted'
    BY <2>0, ActionsAreSteps
  <2>1. /\ pc' \in [Requests -> {"new", "open", "ended"} \cup Writing]
        /\ session' \in [Requests -> Sessions \cup {None}]
        /\ outcome' \in [Requests -> {"none", "ok", "error", "notfound"}]
        /\ calls' \in [Requests -> Nat] /\ faults' \in Nat
    <3>1. pc' \in [Requests -> {"new", "open", "ended"} \cup Writing]
      BY DEF StepOf, Books
    <3>2. session' \in [Requests -> Sessions \cup {None}]
      BY DEF StepOf, Books
    <3>3. outcome' \in [Requests -> {"none", "ok", "error", "notfound"}]
      BY DEF StepOf, Books
    <3>4. calls' \in [Requests -> Nat] /\ faults' \in Nat
      BY DEF StepOf, Books
    <3> QED BY <3>1, <3>2, <3>3, <3>4
  <2>2. events' = [s \in Sessions |-> events'[s]]
    <3>1. CASE events' = events
      BY <3>1 DEF Books
    <3>2. CASE events' # events
      <4>1. PICK es : events' = [events EXCEPT ![session[c]] = es]
        BY <3>2 DEF StepOf
      <4> QED BY <4>1 DEF Books
    <3> QED BY <3>1, <3>2
  <2>3. exists' \subseteq Sessions
    BY DEF StepOf, Books, Counted
  <2>4. ASSUME NEW d \in Requests
        PROVE  /\ pc'[d] = "new" => calls'[d] = 0
               /\ pc'[d] \in Writing => calls'[d] > 0
               /\ pc'[d] \in {"open"} \cup Writing => session'[d] \in Sessions
    <3>1. CASE d = c
      <4>1. pc'[c] = "new" => calls'[c] = 0
        BY DEF StepOf, Counted
      <4>2. pc'[c] \in Writing => calls'[c] > 0
        BY DEF StepOf, Counted, Books
      <4>3. pc'[c] \in {"open"} \cup Writing => session'[c] \in Sessions
        BY DEF StepOf, Counted, Books
      <4> QED BY <3>1, <4>1, <4>2, <4>3
    <3>2. CASE d # c
      <4>1. pc'[d] = pc[d] /\ calls'[d] = calls[d] /\ session'[d] = session[d]
        BY <3>2 DEF StepOf, Books
      <4> QED BY <4>1 DEF Counted
    <3> QED BY <3>1, <3>2
  <2> QED BY <2>1, <2>2, <2>3, <2>4 DEF Books, Counted
<1> QED BY <1>1, <1>2, PTL DEF Spec

\* A call to the store fails only when the API failed a request: two requests that
\* find a new conversation's session missing both get to write.
THEOREM FailuresAreTheAPIs == Spec => []FailuresHaveCauses
<1>1. Init => FailuresHaveCauses
  BY DEF Init, FailuresHaveCauses
<1>2. Books /\ FailuresHaveCauses /\ [Next]_vars => FailuresHaveCauses'
  <2> SUFFICES ASSUME Books, FailuresHaveCauses, NEW c \in Requests, StepOf(c)
               PROVE  FailuresHaveCauses'
    BY ActionsAreSteps DEF vars, FailuresHaveCauses
  <2> QED BY DEF StepOf, Books, FailuresHaveCauses
<1> QED BY <1>1, <1>2, BooksHold, PTL DEF Spec

\* A session that nobody has written to was there before: opening a conversation,
\* or being refused, creates none.
THEOREM SessionsComeFromWrites == Spec => []SessionsAreWritten
<1> USE SessionAssumption DEF Writing
<1>1. Init => SessionsAreWritten
  BY DEF Init, SessionsAreWritten
<1>2. Books /\ Counted /\ SessionsAreWritten /\ [Next]_vars => SessionsAreWritten'
  <2> SUFFICES ASSUME Books, Counted, SessionsAreWritten, NEW c \in Requests, StepOf(c),
                      NEW s \in exists'
               PROVE  (events[s] # <<>>)' \/ Writers(s)' # {}
    BY ActionsAreSteps DEF vars, SessionsAreWritten, Writers
  <2>1. ASSUME NEW d \in Writers(s) PROVE d \in Writers(s)'
    <3>1. d \in Requests /\ session[d] = s /\ calls[d] > 0
      BY DEF Writers
    <3>2. pc[d] # "new"
      BY <3>1 DEF Counted
    <3>3. session'[d] = session[d]
      BY <3>1, <3>2 DEF StepOf, Books
    <3>4. calls[d] \in Nat /\ (calls'[d] = calls[d] \/ calls'[d] = calls[d] + 1)
      <4>1. CASE calls' = calls
        BY <3>1, <4>1 DEF Books
      <4>2. CASE calls' = [calls EXCEPT ![c] = @ + 1]
        BY <3>1, <4>2 DEF Books
      <4> QED BY <4>1, <4>2 DEF StepOf
    <3>5. calls'[d] > 0
      BY <3>1, <3>4
    <3> QED BY <3>1, <3>3, <3>5 DEF Writers
  <2>2. CASE pc[c] \in {"wait", "write"} /\ session[c] = s
    BY <2>1, <2>2 DEF Writers, Counted
  <2>3. CASE ~(pc[c] \in {"wait", "write"} /\ session[c] = s)
    <3>1. s \in exists
      BY <2>3 DEF StepOf
    <3>2. events'[s] = events[s]
      <4>1. CASE events' = events
        BY <4>1
      <4>2. CASE events' # events
        <5>1. PICK es : pc[c] = "write" /\ events' = [events EXCEPT ![session[c]] = es]
          BY <4>2 DEF StepOf
        <5> QED BY <2>3, <3>1, <5>1 DEF Books
      <4> QED BY <4>1, <4>2
    <3> QED BY <2>1, <3>1, <3>2 DEF SessionsAreWritten, Writers
  <2> QED BY <2>2, <2>3
<1> QED BY <1>1, <1>2, BooksHold, PTL DEF Spec
-----------------------------------------------------------------------------
(***************************************************************************)
(* Types.                                                                  *)
(***************************************************************************)

\* What a request's turn consists of.
LEMMA OwnIs ==
  ASSUME NEW c \in Requests
  PROVE  /\ Own(c) \in Seq(Message) /\ Len(Own(c)) = Len(Turn[c])
         /\ Len(Turn[c]) \in Nat \ {0}
         /\ \A n \in 1..Len(Turn[c]) : Own(c)[n] = <<c, n>> /\ RoleOf(<<c, n>>) \in Roles
<1>1. Turn[c] \in Seq(Roles) /\ Turn[c] # <<>>
  BY SessionAssumption
<1>2. Len(Turn[c]) \in Nat \ {0}
  BY <1>1
<1>3. \A n \in 1..Len(Turn[c]) : <<c, n>> \in Message
  BY <1>2 DEF Message
<1> DEFINE N == Len(Turn[c])
<1>4. Own(c) = [n \in 1..N |-> <<c, n>>] /\ N \in Nat
  BY <1>2 DEF Own
<1>5. Own(c) \in Seq(Message) /\ Len(Own(c)) = N
  <2> HIDE DEF N
  <2> QED BY <1>3, <1>4 DEF N
<1>6. \A n \in 1..N : RoleOf(<<c, n>>) \in Roles
  BY <1>1 DEF RoleOf
<1> QED BY <1>2, <1>4, <1>5, <1>6

\* Replaying a session yields messages.
LEMMA loadMessagesType ==
  ASSUME TypeOK, NEW s \in Sessions
  PROVE  loadMessages(s) \in Seq(Message)
<1>1. Only(events[s], Message) \in Seq((Message \cup {Foreign}) \cap Message)
  BY OnlyType DEF TypeOK
<1>2. (Message \cup {Foreign}) \cap Message = Message
  OBVIOUS
<1> QED BY <1>1, <1>2 DEF loadMessages, messageFromEvent

\* A call that starts to write keeps the types.
LEMMA WriteType ==
  ASSUME TypeOK, NEW c \in Requests, NEW kind \in {"append", "save", "fork"},
         NEW messages \in Seq(Message), Write(c, kind, messages)
  PROVE  /\ pc' \in [Requests -> {"new", "open", "get", "create", "wait", "write", "ended"}]
         /\ call' \in [Requests -> {"none", "load", "append", "save", "fork"}]
         /\ batch' \in [Requests -> Seq(Message)]
         /\ outcome' \in [Requests -> {"none", "ok", "error", "notfound"}]
         /\ calls' \in [Requests -> Nat]
<1>1. call' \in [Requests -> {"none", "load", "append", "save", "fork"}]
  BY DEF Write, TypeOK
<1>2. calls' \in [Requests -> Nat]
  BY DEF Write, TypeOK
<1>3. outcome' \in [Requests -> {"none", "ok", "error", "notfound"}]
  BY DEF Write, TypeOK
<1>4. batch' \in [Requests -> Seq(Message)]
  <2>1. batch' = batch \/ batch' = [batch EXCEPT ![c] = messages]
    BY DEF Write
  <2> QED BY <2>1 DEF TypeOK
<1>5. pc' \in [Requests -> {"new", "open", "get", "create", "wait", "write", "ended"}]
  BY DEF Write, TypeOK
<1> QED BY <1>1, <1>2, <1>3, <1>4, <1>5

\* Every step keeps the types.
LEMMA TypeStep ==
  ASSUME TypeOK, Counted, [Next]_vars
  PROVE  TypeOK'
<1> USE SessionAssumption
<1>1. ASSUME NEW c \in Requests, AppendMessages(c) PROVE TypeOK'
  <2>1. Write(c, "append", Own(c)) /\ Own(c) \in Seq(Message)
    BY <1>1, OwnIs DEF AppendMessages
  <2> QED BY <1>1, <2>1, WriteType DEF AppendMessages, TypeOK
<1>2. ASSUME NEW c \in Requests, Save(c) PROVE TypeOK'
  <2> DEFINE rest == SubSeq(state[c], Len(loadMessages(session[c])) + 1, Len(state[c]))
  <2>1. session[c] \in Sessions /\ pc[c] = "open"
    BY <1>2 DEF Save, Counted
  <2>2. rest \in Seq(Message)
    <3>1. state[c] \in Seq(Message) /\ Len(loadMessages(session[c])) \in Nat
      BY <2>1, loadMessagesType DEF TypeOK
    <3> QED BY <3>1
  <2>3. Write(c, "save", rest)
    BY <1>2 DEF Save
  <2> HIDE DEF rest
  <2> QED BY <1>2, <2>2, <2>3, WriteType DEF Save, TypeOK
<1>3. ASSUME NEW c \in Requests, NEW s \in Sessions, NEW t \in Sessions, Fork(c, s, t)
      PROVE  TypeOK'
  <2>1. Write(c, "fork", loadMessages(s)) /\ loadMessages(s) \in Seq(Message)
    BY <1>3, loadMessagesType DEF Fork
  <2> QED BY <1>3, <2>1, WriteType DEF Fork, TypeOK
<1>4. ASSUME NEW c \in Requests, NEW s \in Sessions, Load(c, s) PROVE TypeOK'
  <2>1. loadMessages(s) \o Own(c) \in Seq(Message)
    BY OwnIs, loadMessagesType
  <2> QED BY <1>4, <2>1 DEF Load, Goto, TypeOK
<1>5. ASSUME NEW c \in Requests, LoadFails(c) \/ SaveFails(c) \/ \E s \in Sessions : ForkRefused(c, s)
      PROVE  TypeOK'
  <2>1. Fault => faults' \in 0..MaxFaults
    BY DEF Fault, TypeOK
  <2>2. CASE LoadFails(c)
    BY <2>1, <2>2 DEF LoadFails, Goto, TypeOK
  <2>3. CASE SaveFails(c)
    BY <2>1, <2>3 DEF SaveFails, TypeOK
  <2>4. CASE \E s \in Sessions : ForkRefused(c, s)
    BY <2>1, <2>4 DEF ForkRefused, Goto, TypeOK
  <2> QED BY <1>5, <2>2, <2>3, <2>4
<1>6. ASSUME NEW c \in Requests, GetSession(c) \/ CreateSession(c) \/ WaitForSession(c)
      PROVE  TypeOK'
  BY <1>6 DEF GetSession, CreateSession, WaitForSession, Goto, TypeOK, Counted, Writing
<1>7. ASSUME NEW c \in Requests, NEW how \in {"ok", "error"}, Return(c, how)
      PROVE  /\ pc' \in [Requests -> {"new", "open", "get", "create", "wait", "write", "ended"}]
             /\ batch' \in [Requests -> Seq(Message)]
             /\ outcome' \in [Requests -> {"none", "ok", "error", "notfound"}]
  BY <1>7 DEF Return, TypeOK
<1>8. ASSUME NEW c \in Requests, EnsureFails(c) \/ WaitFails(c) \/ Written(c) PROVE TypeOK'
  BY <1>7, <1>8 DEF EnsureFails, WaitFails, Written, Fault, TypeOK, Counted, Writing
<1>9. ASSUME NEW c \in Requests, pc[c] = "write", batch[c] # <<>>
      PROVE  /\ Appended(c) \in [Sessions -> Seq(Message \cup {Foreign})]
             /\ Tail(batch[c]) \in Seq(Message)
  <2>1. batch[c] \in Seq(Message) /\ Head(batch[c]) \in Message /\ Tail(batch[c]) \in Seq(Message)
    BY <1>9 DEF TypeOK
  <2>2. session[c] \in Sessions /\ events[session[c]] \in Seq(Message \cup {Foreign})
    BY <1>9 DEF TypeOK, Counted, Writing
  <2> QED BY <2>1, <2>2 DEF Appended, TypeOK
<1>10. ASSUME NEW c \in Requests, AppendEvent(c) PROVE TypeOK'
  BY <1>9, <1>10 DEF AppendEvent, TypeOK
<1>11. ASSUME NEW c \in Requests, AppendEventFails(c) PROVE TypeOK'
  BY <1>7, <1>9, <1>11 DEF AppendEventFails, Fault, TypeOK
<1>12. CASE UNCHANGED vars
  BY <1>12 DEF vars, TypeOK
<1> QED
  BY <1>1, <1>2, <1>3, <1>4, <1>5, <1>6, <1>8, <1>10, <1>11, <1>12 DEF Next

\* The store and the requests' bookkeeping stay well-formed: a session holds messages
\* of turns and foreign events, and a conversation only messages.
THEOREM TypeCorrect == Spec => []TypeOK
<1>1. Init => TypeOK
  <2> DEFINE E == Seq(Message \cup {Foreign})
  <2>1. <<Foreign>> \in E /\ <<>> \in E /\ <<>> \in Seq(Message)
    OBVIOUS
  <2>2. Init => events \in [Sessions -> E]
    <3> HIDE DEF E
    <3> QED BY <2>1 DEF Init
  <2>3. ASSUME Init PROVE /\ state \in [Requests -> Seq(Message)]
                          /\ batch \in [Requests -> Seq(Message)]
    BY <2>1, <2>3 DEF Init
  <2>4. ASSUME Init
        PROVE  /\ exists \subseteq Sessions
               /\ pc \in [Requests -> {"new", "open", "get", "create", "wait", "write", "ended"}]
               /\ session \in [Requests -> Sessions \cup {None}]
               /\ call \in [Requests -> {"none", "load", "append", "save", "fork"}]
               /\ outcome \in [Requests -> {"none", "ok", "error", "notfound"}]
               /\ calls \in [Requests -> Nat] /\ faults \in 0..MaxFaults
    BY <2>4, SessionAssumption DEF Init
  <2> QED BY <2>2, <2>3, <2>4 DEF TypeOK
<1>2. TypeOK /\ Counted /\ [Next]_vars => TypeOK'
  BY TypeStep
<1> QED BY <1>1, <1>2, BooksHold, PTL DEF Spec
-----------------------------------------------------------------------------
(***************************************************************************)
(* Steps, by what they do to their request and its session.                *)
(***************************************************************************)

\* The messages a request of this kind has to write when its call starts.
ToWrite(c) ==
    \/ /\ pc[c] = "open" /\ call[c] = "load" /\ call'[c] = "append" /\ session'[c] = session[c]
       /\ batch'[c] = Own(c)
    \/ /\ pc[c] = "open" /\ call'[c] = "save" /\ session'[c] = session[c]
       /\ batch'[c] = SubSeq(state[c], Len(loadMessages(session[c])) + 1, Len(state[c]))
    \/ /\ pc[c] = "new" /\ call'[c] = "fork" /\ session'[c] \in Sessions
       /\ \E s \in Sessions : batch'[c] = loadMessages(s)

\* It opens its conversation.
Opens(c) ==
    /\ pc[c] = "new" /\ pc'[c] = "open"
    /\ session'[c] \in Sessions /\ state'[c] = loadMessages(session'[c]) \o Own(c)
    /\ call'[c] = "load" /\ calls'[c] = calls[c]

\* It never begins: the listing fails, or there is nothing to fork.
Refuses(c) ==
    /\ pc[c] = "new" /\ pc'[c] = "ended"
    /\ session'[c] = session[c] /\ call'[c] \in {"load", "fork"} /\ calls'[c] = calls[c]
    /\ outcome'[c] # "ok"

\* It calls the store with messages to write.
Calls(c) ==
    /\ ToWrite(c) /\ batch'[c] # <<>> /\ pc'[c] = "get"
    /\ state'[c] = state[c] /\ calls'[c] = calls[c] + 1 /\ outcome'[c] = "none"

\* It saves what needs no writing, or fails to find out.
Idles(c) ==
    /\ pc[c] = "open" /\ pc'[c] = "open" /\ call'[c] = "save" /\ session'[c] = session[c]
    /\ state'[c] = state[c] /\ calls'[c] = calls[c] + 1
    /\ \/ /\ SubSeq(state[c], Len(loadMessages(session[c])) + 1, Len(state[c])) = <<>>
          /\ outcome'[c] = "ok"
       \/ outcome'[c] = "error" /\ faults' > faults

\* It makes sure of its session.
Asks(c) ==
    /\ pc[c] \in Writing \ {"write"} /\ pc'[c] \in Writing
    /\ pc'[c] = "write" => session[c] \in exists'
    /\ session'[c] = session[c] /\ state'[c] = state[c] /\ call'[c] = call[c]
    /\ batch'[c] = batch[c] /\ calls'[c] = calls[c] /\ outcome'[c] = outcome[c]

\* It has dealt with its next message.
Stores(c) ==
    /\ pc[c] = "write" /\ pc'[c] = "write" /\ batch[c] # <<>> /\ batch'[c] = Tail(batch[c])
    /\ session'[c] = session[c] /\ state'[c] = state[c] /\ call'[c] = call[c]
    /\ calls'[c] = calls[c] /\ outcome'[c] = outcome[c]
    /\ eventFromMessage(Head(batch[c])) =>
         events'[session[c]] = Append(events[session[c]], Head(batch[c]))
    /\ ~eventFromMessage(Head(batch[c])) => events'[session[c]] = events[session[c]]

\* Its call returns.
Returns(c) ==
    /\ pc[c] \in Writing /\ pc'[c] = IF call[c] = "fork" THEN "ended" ELSE "open"
    /\ session'[c] = session[c] /\ state'[c] = state[c] /\ call'[c] = call[c]
    /\ calls'[c] = calls[c]
    /\ \/ outcome'[c] = "ok" /\ pc[c] = "write" /\ batch[c] = <<>> /\ events' = events
       \/ outcome'[c] = "error" /\ faults' > faults

\* What a step of request c leaves alone, and how it may change the store.
Moves(c) ==
    /\ \A d \in Requests \ {c} :
         /\ pc'[d] = pc[d] /\ session'[d] = session[d] /\ state'[d] = state[d]
         /\ call'[d] = call[d] /\ batch'[d] = batch[d] /\ outcome'[d] = outcome[d]
         /\ calls'[d] = calls[d]
    /\ exists \subseteq exists' /\ faults' >= faults
    /\ \A s \in Sessions :
         \/ events'[s] = events[s]
         \/ /\ pc[c] = "write" /\ session[c] = s /\ batch[c] # <<>>
            /\ eventFromMessage(Head(batch[c]))
            /\ events'[s] = Append(events[s], Head(batch[c]))
    /\ Opens(c) \/ Refuses(c) \/ Calls(c) \/ Idles(c) => events' = events /\ exists' = exists
    /\ Opens(c) \/ Refuses(c) \/ Calls(c) \/ Idles(c) \/ Asks(c) \/ Stores(c) \/ Returns(c)

\* Every action is such a step.
LEMMA Steps ==
  ASSUME TypeOK, Counted, Next
  PROVE  \E c \in Requests : Moves(c)
<1> USE DEF Writing
<1>1. ASSUME NEW c \in Requests, AppendMessages(c) PROVE Moves(c)
  <2>1. Own(c) # <<>>
    BY OwnIs
  <2>2. /\ pc[c] = "open" /\ call[c] = "load" /\ Write(c, "append", Own(c))
        /\ UNCHANGED <<exists, events, session, state, faults>>
    BY <1>1 DEF AppendMessages
  <2> QED BY <2>1, <2>2 DEF Write, Moves, Calls, ToWrite, TypeOK
<1>2. ASSUME NEW c \in Requests, Save(c) PROVE Moves(c)
  <2> DEFINE rest == SubSeq(state[c], Len(loadMessages(session[c])) + 1, Len(state[c]))
  <2>1. /\ pc[c] = "open" /\ Write(c, "save", rest)
        /\ UNCHANGED <<exists, events, session, state, faults>>
    BY <1>2 DEF Save
  <2>2. Idles(c) <=>
          /\ pc[c] = "open" /\ pc'[c] = "open" /\ call'[c] = "save" /\ session'[c] = session[c]
          /\ state'[c] = state[c] /\ calls'[c] = calls[c] + 1
          /\ (rest = <<>> /\ outcome'[c] = "ok") \/ (outcome'[c] = "error" /\ faults' > faults)
    BY DEF Idles
  <2>3. /\ pc[c] = "open" /\ call'[c] = "save" /\ session'[c] = session[c] /\ batch'[c] = rest
        => ToWrite(c)
    BY DEF ToWrite
  <2> HIDE DEF rest
  <2>4. CASE rest = <<>>
    BY <2>1, <2>2, <2>4 DEF Write, Moves, TypeOK
  <2>5. CASE rest # <<>>
    BY <2>1, <2>3, <2>5 DEF Write, Moves, Calls, TypeOK
  <2> QED BY <2>4, <2>5
<1>3. ASSUME NEW c \in Requests, NEW s \in Sessions, NEW t \in Sessions, Fork(c, s, t)
      PROVE  Moves(c)
  <2>1. /\ pc[c] = "new" /\ session' = [session EXCEPT ![c] = t] /\ loadMessages(s) # <<>>
        /\ Write(c, "fork", loadMessages(s)) /\ UNCHANGED <<exists, events, state, faults>>
    BY <1>3 DEF Fork
  <2> QED BY <2>1 DEF Write, Moves, Calls, ToWrite, TypeOK
<1>4. ASSUME NEW c \in Requests, SaveFails(c) PROVE Moves(c)
  BY <1>4 DEF SaveFails, Fault, Moves, Idles, TypeOK
<1>5. ASSUME NEW c \in Requests, NEW s \in Sessions, Load(c, s) PROVE Moves(c)
  <2>1. /\ pc[c] = "new" /\ pc' = [pc EXCEPT ![c] = "open"]
        /\ session' = [session EXCEPT ![c] = s]
        /\ state' = [state EXCEPT ![c] = loadMessages(s) \o Own(c)]
        /\ call' = [call EXCEPT ![c] = "load"] /\ outcome' = [outcome EXCEPT ![c] = "ok"]
        /\ UNCHANGED <<exists, events, batch, calls, faults>>
    BY <1>5 DEF Load, Goto
  <2> QED BY <2>1 DEF Moves, Opens, TypeOK
<1>6. ASSUME NEW c \in Requests, LoadFails(c) \/ \E s \in Sessions : ForkRefused(c, s)
      PROVE  Moves(c)
  <2>1. /\ pc[c] = "new" /\ pc' = [pc EXCEPT ![c] = "ended"]
        /\ \E kind \in {"load", "fork"} : call' = [call EXCEPT ![c] = kind]
        /\ \E how \in {"error", "notfound"} : outcome' = [outcome EXCEPT ![c] = how]
        /\ faults' = faults \/ faults' = faults + 1
        /\ UNCHANGED <<exists, events, session, state, batch, calls>>
    BY <1>6 DEF LoadFails, ForkRefused, Fault, Goto
  <2> QED BY <2>1 DEF Moves, Refuses, TypeOK
<1>0. ASSUME NEW c \in Requests, pc[c] \in Writing
      PROVE  ~(Opens(c) \/ Refuses(c) \/ Calls(c) \/ Idles(c))
  BY <1>0 DEF Opens, Refuses, Calls, ToWrite, Idles
<1>7. ASSUME NEW c \in Requests, GetSession(c) \/ CreateSession(c) \/ WaitForSession(c)
      PROVE  Moves(c)
  BY <1>0, <1>7 DEF GetSession, CreateSession, WaitForSession, Goto, Moves, Asks, TypeOK
<1>8. ASSUME NEW c \in Requests, NEW how, Return(c, how), pc[c] \in Writing
      PROVE  /\ outcome'[c] = how /\ pc'[c] = IF call[c] = "fork" THEN "ended" ELSE "open"
             /\ \A d \in Requests \ {c} :
                  pc'[d] = pc[d] /\ outcome'[d] = outcome[d] /\ batch'[d] = batch[d]
  BY <1>8 DEF Return, TypeOK
<1>9. ASSUME NEW c \in Requests, EnsureFails(c) \/ WaitFails(c) PROVE Moves(c)
  BY <1>0, <1>8, <1>9 DEF EnsureFails, WaitFails, Fault, Moves, Returns, TypeOK
<1>10. ASSUME NEW c \in Requests, batch[c] # <<>>, pc[c] = "write"
       PROVE  /\ session[c] \in Sessions
              /\ \A s \in Sessions : Appended(c)[s] =
                   IF s = session[c] /\ eventFromMessage(Head(batch[c]))
                   THEN Append(events[s], Head(batch[c])) ELSE events[s]
  BY <1>10 DEF Appended, TypeOK, Counted
<1>11. ASSUME NEW c \in Requests, AppendEvent(c) PROVE Moves(c)
  <2>1. /\ pc[c] = "write" /\ batch[c] # <<>> /\ events' = Appended(c)
        /\ batch' = [batch EXCEPT ![c] = Tail(@)]
        /\ UNCHANGED <<exists, pc, session, state, call, outcome, calls, faults>>
    BY <1>11 DEF AppendEvent
  <2>2. batch'[c] = Tail(batch[c]) /\ \A d \in Requests \ {c} : batch'[d] = batch[d]
    BY <2>1 DEF TypeOK
  <2>3. /\ session[c] \in Sessions
        /\ \A s \in Sessions : events'[s] = IF s = session[c] /\ eventFromMessage(Head(batch[c]))
                                           THEN Append(events[s], Head(batch[c])) ELSE events[s]
    BY <1>10, <2>1
  <2>4. Stores(c)
    BY <2>1, <2>2, <2>3 DEF Stores
  <2>5. \A s \in Sessions :
          \/ events'[s] = events[s]
          \/ /\ session[c] = s /\ eventFromMessage(Head(batch[c]))
             /\ events'[s] = Append(events[s], Head(batch[c]))
    BY <2>3
  <2> QED BY <1>0, <2>1, <2>2, <2>4, <2>5 DEF Moves, TypeOK
<1>12. ASSUME NEW c \in Requests, AppendEventFails(c) PROVE Moves(c)
  <2>1. /\ pc[c] = "write" /\ batch[c] # <<>> /\ eventFromMessage(Head(batch[c]))
        /\ events' = events \/ events' = Appended(c)
        /\ faults' = faults + 1 /\ Return(c, "error")
        /\ UNCHANGED <<exists, session, state, call, calls>>
    BY <1>12 DEF AppendEventFails, Fault
  <2>2. \A s \in Sessions :
          \/ events'[s] = events[s]
          \/ session[c] = s /\ events'[s] = Append(events[s], Head(batch[c]))
    BY <1>10, <2>1
  <2>3. Returns(c)
    BY <1>8, <2>1 DEF Returns, TypeOK
  <2> QED BY <1>0, <1>8, <2>1, <2>2, <2>3 DEF Moves, TypeOK
<1>13. ASSUME NEW c \in Requests, Written(c) PROVE Moves(c)
  BY <1>8, <1>13 DEF Written, Moves, Returns, TypeOK
<1> QED
  BY <1>1, <1>2, <1>3, <1>4, <1>5, <1>6, <1>7, <1>9, <1>11, <1>12, <1>13 DEF Next
-----------------------------------------------------------------------------
(***************************************************************************)
(* What a session holds only grows.                                        *)
(***************************************************************************)

\* The messages session s holds, listed or not.
Stored(s) == Only(events[s], Message)

\* A sequence, and what it becomes by appending to it, start alike.
LEMMA PrefixOfAppend ==
  ASSUME NEW T, NEW s \in Seq(T), NEW x \in T
  PROVE  IsPrefix(s, s) /\ IsPrefix(<<>>, s) /\ IsPrefix(s, Append(s, x))
<1>1. IsPrefix(s, s) /\ IsPrefix(<<>>, s)
  BY DEF IsPrefix
<1> DEFINE t == Append(s, x)
<1>2. t \in Seq(T) /\ Len(s) <= Len(t) /\ \A i \in 1..Len(s) : s[i] = t[i]
  OBVIOUS
<1> HIDE DEF t
<1>3. IsPrefix(s, t)
  BY <1>2, PrefixIs
<1> QED BY <1>1, <1>3 DEF t

\* A message more in the events is a message more in the conversation.
LEMMA StoredAppend ==
  ASSUME TypeOK, NEW s \in Sessions, NEW m \in Message
  PROVE  /\ Stored(s) \in Seq(Message)
         /\ Only(Append(events[s], m), Message) = Append(Stored(s), m)
<1>1. events[s] \in Seq(Message \cup {Foreign}) /\ m \in Message \cup {Foreign}
  BY DEF TypeOK
<1>2. Stored(s) \in Seq((Message \cup {Foreign}) \cap Message)
  BY <1>1, OnlyType DEF Stored
<1>3. (Message \cup {Foreign}) \cap Message = Message
  OBVIOUS
<1>4. Only(Append(events[s], m), Message) = Append(Stored(s), m)
  BY <1>1, OnlyAppend DEF Stored
<1> QED BY <1>2, <1>3, <1>4

\* Sessions lose no events, conversations no messages.
LEMMA StoreGrows ==
  ASSUME TypeOK, NEW c \in Requests, Moves(c), NEW s \in Sessions
  PROVE  /\ ToSet(events[s]) \subseteq ToSet(events'[s])
         /\ IsPrefix(Stored(s), Stored(s)')
         /\ IsPrefix(loadMessages(s), loadMessages(s)')
<1>1. events[s] \in Seq(Message \cup {Foreign}) /\ Stored(s) \in Seq(Message)
  <2>1. Stored(s) \in Seq((Message \cup {Foreign}) \cap Message)
    BY OnlyType DEF TypeOK, Stored
  <2>2. (Message \cup {Foreign}) \cap Message = Message
    OBVIOUS
  <2> QED BY <2>1, <2>2 DEF TypeOK
<1>2. events'[s] = events[s] \/ \E m \in Message : events'[s] = Append(events[s], m)
  <2>1. batch[c] \in Seq(Message)
    BY DEF TypeOK
  <2>2. batch[c] # <<>> => Head(batch[c]) \in Message
    BY <2>1
  <2> QED BY <2>2 DEF Moves
<1>3. ToSet(events[s]) \subseteq ToSet(events'[s])
  <2>1. ASSUME NEW m \in Message, events'[s] = Append(events[s], m)
        PROVE  ToSet(events'[s]) = ToSet(events[s]) \cup {m}
    <3>1. m \in Message \cup {Foreign}
      OBVIOUS
    <3> QED BY <1>1, <2>1, <3>1, AppendMembers
  <2> QED BY <1>2, <2>1
<1>4. IsPrefix(Stored(s), Stored(s)') /\ IsPrefix(<<>>, Stored(s)')
  <2>1. Stored(s)' = Stored(s) \/ \E m \in Message : Stored(s)' = Append(Stored(s), m)
    BY <1>2, StoredAppend DEF Stored
  <2>2. CASE Stored(s)' = Stored(s)
    <3>1. IsPrefix(Stored(s), Stored(s)) /\ IsPrefix(<<>>, Stored(s))
      BY <1>1 DEF IsPrefix
    <3> QED BY <2>2, <3>1
  <2>3. ASSUME NEW m \in Message, Stored(s)' = Append(Stored(s), m)
        PROVE  IsPrefix(Stored(s), Stored(s)') /\ IsPrefix(<<>>, Stored(s)')
    <3>1. IsPrefix(Stored(s), Append(Stored(s), m))
      BY <1>1, PrefixOfAppend
    <3>2. Append(Stored(s), m) \in Seq(Message)
      BY <1>1
    <3>3. IsPrefix(<<>>, Append(Stored(s), m))
      BY <3>2, PrefixOfAppend
    <3> QED BY <2>3, <3>1, <3>3
  <2> QED BY <2>1, <2>2, <2>3
<1>5. loadMessages(s) = IF s \in exists THEN Stored(s) ELSE <<>>
  BY DEF loadMessages, Stored, messageFromEvent
<1>6. loadMessages(s)' = IF s \in exists' THEN Stored(s)' ELSE <<>>
  BY DEF loadMessages, Stored, messageFromEvent
<1>7. s \in exists => s \in exists'
  BY DEF Moves
<1>8. IsPrefix(<<>>, <<>>)
  BY DEF IsPrefix
<1>9. IsPrefix(loadMessages(s), loadMessages(s)')
  BY <1>4, <1>5, <1>6, <1>7, <1>8
<1> QED BY <1>3, <1>4, <1>9
-----------------------------------------------------------------------------
(***************************************************************************)
(* Where a request stands, and whose messages a session holds.             *)
(***************************************************************************)

\* What is left of the turn of request c after its first k messages.
Rest(c, k) == SubSeq(Own(c), k + 1, Len(Own(c)))

\* What the SDK holds for request c is a conversation that the session had when it
\* was loaded, and so at most as many messages as it has now, and the turn.
StateIsLoaded(c) ==
    \E loaded \in Seq(Message) :
        /\ state[c] = loaded \o Own(c)
        /\ Len(loaded) <= Len(loadMessages(session[c]))

\* A request counts its calls, has a fork only for its first, writes the end of its
\* own turn unless it forks, and only to a session that is there.
Turns ==
    \A c \in Requests :
        /\ call[c] \in {"none", "load"} => calls[c] = 0
        /\ pc[c] = "new" => call[c] = "none"
        /\ pc[c] = "open" => call[c] \in {"load", "append", "save"}
        /\ pc[c] = "ended" => call[c] \in {"load", "fork"}
        /\ pc[c] \in Writing => call[c] \in {"append", "save", "fork"} /\ outcome[c] = "none"
        /\ pc[c] = "write" => session[c] \in exists
        /\ pc[c] \in Writing /\ call[c] # "fork" =>
             \E k \in 0..Len(Turn[c]) : batch[c] = Rest(c, k)
        /\ pc[c] \in {"open"} \cup Writing /\ call[c] # "fork" => StateIsLoaded(c)

\* The end of a turn begins with its next message.
LEMMA RestIs ==
  ASSUME NEW c \in Requests, NEW k \in 0..Len(Turn[c])
  PROVE  /\ Rest(c, k) \in Seq(Message) /\ Len(Rest(c, k)) = Len(Turn[c]) - k
         /\ \A i \in 1..(Len(Turn[c]) - k) : Rest(c, k)[i] = <<c, k + i>>
         /\ Rest(c, k) # <<>> => /\ k < Len(Turn[c]) /\ Head(Rest(c, k)) = <<c, k + 1>>
                                 /\ Tail(Rest(c, k)) = Rest(c, k + 1)
         /\ Rest(c, k) = <<>> => k = Len(Turn[c])
<1> DEFINE o == Own(c)
           N == Len(Turn[c])
<1>1. o \in Seq(Message) /\ Len(o) = N /\ N \in Nat /\ \A n \in 1..N : o[n] = <<c, n>>
  BY OwnIs
<1> HIDE DEF o, N
<1>2. /\ SubSeq(o, k + 1, N) \in Seq(Message) /\ Len(SubSeq(o, k + 1, N)) = N - k
      /\ \A i \in 1..(N - k) : SubSeq(o, k + 1, N)[i] = <<c, k + i>>
  BY <1>1 DEF N
<1>3. ASSUME SubSeq(o, k + 1, N) # <<>>
      PROVE  /\ k < N /\ Head(SubSeq(o, k + 1, N)) = <<c, k + 1>>
             /\ Tail(SubSeq(o, k + 1, N)) = SubSeq(o, (k + 1) + 1, N)
  <2>1. k < N
    BY <1>1, <1>2, <1>3 DEF N
  <2>2. Head(SubSeq(o, k + 1, N)) = <<c, k + 1>>
    BY <1>2, <2>1, <1>1
  <2>3. Tail(SubSeq(o, k + 1, N)) = SubSeq(o, (k + 1) + 1, N)
    BY <1>1, <1>2, <2>1
  <2> QED BY <2>1, <2>2, <2>3
<1>4. SubSeq(o, k + 1, N) = <<>> => k = N
  <2>1. SubSeq(o, k + 1, N) = <<>> => N - k = 0
    BY <1>2
  <2> QED BY <1>1, <2>1 DEF N
<1> QED BY <1>1, <1>2, <1>3, <1>4 DEF Rest, o, N

\* Of a loaded conversation and a turn, Save drops at least the conversation.
LEMMA SaveWritesOwn ==
  ASSUME TypeOK, NEW c \in Requests, session[c] \in Sessions, StateIsLoaded(c)
  PROVE  \E k \in 0..Len(Turn[c]) :
           SubSeq(state[c], Len(loadMessages(session[c])) + 1, Len(state[c])) = Rest(c, k)
<1> DEFINE o == Own(c)
           N == Len(Turn[c])
           x == Len(loadMessages(session[c]))
<1>1. o \in Seq(Message) /\ Len(o) = N /\ N \in Nat
  BY OwnIs
<1>2. x \in Nat
  BY loadMessagesType
<1>3. PICK loaded \in Seq(Message) : state[c] = loaded \o o /\ Len(loaded) <= x
  BY DEF StateIsLoaded
<1> HIDE DEF o, N, x
<1> DEFINE L == Len(loaded)
           st == loaded \o o
<1>4. L \in Nat /\ st \in Seq(Message) /\ Len(st) = L + N /\ \A i \in 1..N : st[L + i] = o[i]
  <2>1. L \in Nat /\ st \in Seq(Message) /\ Len(st) = L + N
    BY <1>1
  <2>2. ASSUME NEW i \in 1..N PROVE st[L + i] = o[i]
    <3>1. L + i \in (L + 1)..(L + N) /\ (L + i) - L = i
      BY <1>1, <2>1
    <3> QED BY <1>1, <2>1, <3>1
  <2> QED BY <2>1, <2>2
<1>5. CASE x >= L + N
  <2>1. SubSeq(st, x + 1, Len(st)) = <<>> /\ SubSeq(o, N + 1, N) = <<>>
    BY <1>1, <1>2, <1>4, <1>5
  <2>2. N \in 0..N
    BY <1>1
  <2> QED BY <1>1, <1>3, <2>1, <2>2 DEF Rest, o, N, x
<1>6. CASE x < L + N
  <2> DEFINE k == x - L
             a == SubSeq(st, x + 1, Len(st))
             b == SubSeq(o, k + 1, N)
  <2>1. k \in 0..N
    BY <1>1, <1>2, <1>3, <1>4, <1>6
  <2>2. /\ a \in Seq(Message) /\ Len(a) = L + N - x
        /\ \A i \in 1..(L + N - x) : a[i] = st[x + i]
    BY <1>1, <1>2, <1>4, <1>6
  <2>3. /\ b \in Seq(Message) /\ Len(b) = N - k /\ \A i \in 1..(N - k) : b[i] = o[k + i]
    <3> HIDE DEF k
    <3> QED BY <1>1, <2>1
  <2>4. \A i \in 1..(N - k) : st[x + i] = o[k + i]
    <3> SUFFICES ASSUME NEW i \in 1..(N - k) PROVE st[x + i] = o[k + i]
      OBVIOUS
    <3>1. k + i \in 1..N /\ L + (k + i) = x + i
      BY <1>1, <1>2, <1>4, <2>1
    <3> HIDE DEF k, st
    <3> QED BY <1>4, <3>1
  <2>5. N - k = L + N - x
    BY <1>1, <1>2, <1>4
  <2>6. a = b
    <3> HIDE DEF a, b, k, st, L
    <3> QED BY <2>2, <2>3, <2>4, <2>5
  <2>7. SubSeq(state[c], x + 1, Len(state[c])) = a /\ Rest(c, k) = b
    BY <1>1, <1>3 DEF Rest, o, N
  <2> HIDE DEF a, b, k
  <2>8. SubSeq(state[c], x + 1, Len(state[c])) = Rest(c, k)
    BY <2>6, <2>7
  <2> QED BY <2>1, <2>8 DEF x, N
<1>7. x >= L + N \/ x < L + N
  BY <1>1, <1>2, <1>4
<1> HIDE DEF L, st
<1> QED BY <1>5, <1>6, <1>7

\* Sessions only grow, so what the SDK loaded stays at most as long as they are.
LEMMA LoadedStays ==
  ASSUME TypeOK, TypeOK', NEW c \in Requests, Moves(c), NEW d \in Requests,
         session[d] \in Sessions, session'[d] = session[d], state'[d] = state[d], StateIsLoaded(d)
  PROVE  StateIsLoaded(d)'
<1>1. PICK loaded \in Seq(Message) :
        state[d] = loaded \o Own(d) /\ Len(loaded) <= Len(loadMessages(session[d]))
  BY DEF StateIsLoaded
<1>2. PICK s \in Sessions : s = session[d]
  OBVIOUS
<1>3. Len(loadMessages(s)) <= Len(loadMessages(s)')
  BY StoreGrows DEF IsPrefix
<1>4. Len(loadMessages(s)) \in Nat /\ Len(loadMessages(s)') \in Nat
  <2>1. loadMessages(s) \in Seq(Message)
    BY loadMessagesType
  <2>2. (loadMessages(s) \in Seq(Message))'
    BY loadMessagesType, PTL
  <2> QED BY <2>1, <2>2
<1>5. Len(loaded) <= Len(loadMessages(s)')
  BY <1>1, <1>2, <1>3, <1>4
<1>6. loadMessages(session[d])' = loadMessages(s)'
  BY <1>2
<1> QED BY <1>1, <1>5, <1>6 DEF StateIsLoaded

\* Every step keeps requests in order.
LEMMA TurnsStep ==
  ASSUME TypeOK, TypeOK', Counted, Turns, [Next]_vars
  PROVE  Turns'
<1> USE DEF Writing
<1>1. CASE UNCHANGED vars
  BY <1>1 DEF vars, Turns, StateIsLoaded, loadMessages
<1> SUFFICES ASSUME NEW c \in Requests, Moves(c), NEW d \in Requests
             PROVE  /\ call'[d] \in {"none", "load"} => calls'[d] = 0
                    /\ pc'[d] = "new" => call'[d] = "none"
                    /\ pc'[d] = "open" => call'[d] \in {"load", "append", "save"}
                    /\ pc'[d] = "ended" => call'[d] \in {"load", "fork"}
                    /\ pc'[d] \in Writing =>
                         call'[d] \in {"append", "save", "fork"} /\ outcome'[d] = "none"
                    /\ pc'[d] = "write" => session'[d] \in exists'
                    /\ pc'[d] \in Writing /\ call'[d] # "fork" =>
                         \E k \in 0..Len(Turn[d]) : batch'[d] = Rest(d, k)
                    /\ pc'[d] \in {"open"} \cup Writing /\ call'[d] # "fork" => StateIsLoaded(d)'
  BY <1>1, Steps DEF Turns
<1>2. ASSUME session'[d] = session[d], state'[d] = state[d], pc[d] \in {"open"} \cup Writing,
             call[d] # "fork"
      PROVE  StateIsLoaded(d)'
  BY <1>2, LoadedStays DEF Turns, Counted
<1>3. exists \subseteq exists'
  BY DEF Moves
<1>4. CASE d # c
  BY <1>2, <1>3, <1>4 DEF Moves, Turns
<1>5. CASE d = c /\ Opens(c)
  <2>1. calls[c] = 0
    BY <1>5 DEF Opens, Turns
  <2>2. PICK s \in Sessions : s = session'[c]
    BY <1>5 DEF Opens
  <2>3. loadMessages(s)' = loadMessages(s) /\ loadMessages(s) \in Seq(Message)
    BY <1>5, loadMessagesType DEF loadMessages, Moves
  <2>4. state'[c] = loadMessages(s) \o Own(c)
    BY <1>5, <2>2 DEF Opens
  <2>5. StateIsLoaded(c)'
    <3>1. loadMessages(session[c])' = loadMessages(s)
      BY <2>2, <2>3
    <3>2. Len(loadMessages(s)) <= Len(loadMessages(s))
      BY <2>3
    <3> QED BY <2>3, <2>4, <3>1, <3>2 DEF StateIsLoaded
  <2> QED BY <1>5, <2>1, <2>5 DEF Opens
<1>6. CASE d = c /\ Refuses(c)
  BY <1>6 DEF Refuses, Turns
<1>7. CASE d = c /\ Calls(c)
  <2>1. calls'[c] # 0
    BY <1>7 DEF Calls, TypeOK
  <2>2. /\ pc'[c] = "get" /\ call'[c] \in {"append", "save", "fork"} /\ outcome'[c] = "none"
        /\ state'[c] = state[c]
    BY <1>7 DEF Calls, ToWrite
  <2>3. ASSUME call'[c] # "fork"
        PROVE  /\ \E k \in 0..Len(Turn[c]) : batch'[c] = Rest(c, k)
               /\ pc[c] = "open" /\ session'[c] = session[c]
    <3>1. pc[c] = "open" /\ session'[c] = session[c] /\ session[c] \in Sessions /\ StateIsLoaded(c)
      BY <1>7, <2>3 DEF Calls, ToWrite, Turns, Counted
    <3>2. CASE batch'[c] = Own(c)
      <4>1. Own(c) = Rest(c, 0) /\ 0 \in 0..Len(Turn[c])
        BY OwnIs DEF Rest
      <4> QED BY <3>1, <3>2, <4>1
    <3>3. CASE batch'[c] = SubSeq(state[c], Len(loadMessages(session[c])) + 1, Len(state[c]))
      BY <3>1, <3>3, SaveWritesOwn
    <3> QED BY <1>7, <2>3, <3>2, <3>3 DEF Calls, ToWrite
  <2>4. call'[c] # "fork" => StateIsLoaded(c)'
    <3>1. pc[c] = "open" => call[c] # "fork"
      BY DEF Turns
    <3> QED BY <1>2, <1>7, <2>2, <2>3, <3>1
  <2> QED BY <1>7, <2>1, <2>2, <2>3, <2>4
<1>8. CASE d = c /\ Idles(c)
  <2>1. calls'[c] # 0
    BY <1>8 DEF Idles, TypeOK
  <2>2. StateIsLoaded(c)'
    BY <1>2, <1>8 DEF Idles, Turns
  <2> QED BY <1>8, <2>1, <2>2 DEF Idles
<1>9. CASE d = c /\ Asks(c)
  BY <1>2, <1>9 DEF Asks, Turns
<1>10. CASE d = c /\ Stores(c)
  <2>1. ASSUME call[c] # "fork" PROVE \E k \in 0..Len(Turn[c]) : batch'[c] = Rest(c, k)
    <3>1. PICK k \in 0..Len(Turn[c]) : batch[c] = Rest(c, k)
      BY <1>10, <2>1 DEF Stores, Turns
    <3>2. k < Len(Turn[c]) /\ batch'[c] = Rest(c, k + 1)
      BY <1>10, <3>1, RestIs DEF Stores
    <3>3. k + 1 \in 0..Len(Turn[c])
      BY <3>2, OwnIs
    <3> QED BY <3>2, <3>3
  <2> QED BY <1>2, <1>3, <1>10, <2>1 DEF Stores, Turns
<1>11. CASE d = c /\ Returns(c)
  <2>1. call[c] \in {"append", "save", "fork"}
    BY <1>11 DEF Returns, Turns
  <2> QED BY <1>2, <1>11, <2>1 DEF Returns, Turns
<1> QED BY <1>4, <1>5, <1>6, <1>7, <1>8, <1>9, <1>10, <1>11 DEF Moves

\* Some request forked into session s.
Forked(s) == \E d \in Writers(s) : call[d] = "fork"

\* A session holds messages that become events, of the requests that wrote to it,
\* unless one of these forked another session into it.
Authors ==
    \A s \in Sessions : \A m \in ToSet(events[s]) \cap Message :
        eventFromMessage(m) /\ (m[1] \in Writers(s) \/ Forked(s))

\* A fork writes messages that become events.
ForkSpeaks ==
    \A c \in Requests :
        pc[c] \in Writing /\ call[c] = "fork" => \A m \in ToSet(batch[c]) : eventFromMessage(m)

\* Who wrote to a session has written to it, and a fork stays one.
LEMMA WritersStay ==
  ASSUME TypeOK, Counted, Turns, NEW c \in Requests, Moves(c), NEW s \in Sessions
  PROVE  /\ Writers(s) \subseteq Writers(s)'
         /\ Forked(s) => Forked(s)'
         /\ \A d \in Writers(s) : call[d] = "fork" => call'[d] = "fork"
<1> USE DEF Writing
<1>1. ASSUME NEW d \in Writers(s)
      PROVE  d \in Writers(s)' /\ (call[d] = "fork" => call'[d] = "fork")
  <2>1. d \in Requests /\ session[d] = s /\ calls[d] > 0 /\ calls[d] \in Nat
    BY DEF Writers, TypeOK
  <2>2. session'[d] = s /\ calls'[d] > 0
    <3>1. pc[d] # "new"
      BY <2>1 DEF Counted
    <3>2. CASE d # c
      BY <2>1, <3>2 DEF Moves
    <3>3. CASE d = c
      <4>1. session'[c] = session[c] /\ calls'[c] \in {calls[c], calls[c] + 1}
        BY <3>1, <3>3 DEF Moves, Opens, Refuses, Calls, ToWrite, Idles, Asks, Stores, Returns
      <4> QED BY <2>1, <3>3, <4>1
    <3> QED BY <3>2, <3>3
  <2>3. call[d] = "fork" => call'[d] = "fork"
    <3>1. pc[d] # "new" /\ (pc[d] = "open" => call[d] # "fork")
      BY <2>1 DEF Counted, Turns
    <3> QED
      BY <2>1, <3>1 DEF Moves, Opens, Refuses, Calls, ToWrite, Idles, Asks, Stores, Returns
  <2> QED BY <2>1, <2>2, <2>3 DEF Writers
<1> QED BY <1>1 DEF Forked

\* What a request writes next is a message; that of a request that does not fork is
\* its own.
LEMMA NextMessage ==
  ASSUME TypeOK, Turns, NEW c \in Requests, pc[c] \in Writing, batch[c] # <<>>
  PROVE  /\ Head(batch[c]) \in Message /\ Head(batch[c]) \in ToSet(batch[c])
         /\ ToSet(Tail(batch[c])) \subseteq ToSet(batch[c])
         /\ call[c] # "fork" => Head(batch[c])[1] = c
<1>1. batch[c] \in Seq(Message)
  BY DEF TypeOK
<1>2. Head(batch[c]) \in Message /\ Head(batch[c]) \in ToSet(batch[c])
  BY <1>1 DEF ToSet
<1>3. ToSet(Tail(batch[c])) \subseteq ToSet(batch[c])
  BY <1>1 DEF ToSet
<1>4. ASSUME call[c] # "fork" PROVE Head(batch[c])[1] = c
  <2>1. PICK k \in 0..Len(Turn[c]) : batch[c] = Rest(c, k)
    BY <1>4 DEF Turns
  <2>2. Head(batch[c]) = <<c, k + 1>>
    BY <2>1, RestIs
  <2> QED BY <2>2
<1> QED BY <1>2, <1>3, <1>4

\* Every step keeps authors known.
LEMMA AuthorsStep ==
  ASSUME TypeOK, Counted, Turns, Authors, [Next]_vars
  PROVE  Authors'
<1>1. CASE UNCHANGED vars
  BY <1>1 DEF vars, Authors, Forked, Writers
<1> SUFFICES ASSUME NEW c \in Requests, Moves(c), NEW s \in Sessions,
                    NEW m \in ToSet(events'[s]) \cap Message
             PROVE  eventFromMessage(m) /\ (m[1] \in Writers(s)' \/ Forked(s)')
  BY <1>1, Steps DEF Authors
<1>2. CASE m \in ToSet(events[s])
  BY <1>2, WritersStay DEF Authors
<1>3. CASE m \notin ToSet(events[s])
  <2>1. /\ pc[c] = "write" /\ session[c] = s /\ batch[c] # <<>>
        /\ eventFromMessage(Head(batch[c]))
        /\ events'[s] = Append(events[s], Head(batch[c]))
    BY <1>3 DEF Moves
  <2>2. /\ Head(batch[c]) \in Message
        /\ call[c] # "fork" => Head(batch[c])[1] = c
    BY <2>1, NextMessage DEF Writing
  <2>3. ToSet(events'[s]) = ToSet(events[s]) \cup {Head(batch[c])}
    <3>1. events[s] \in Seq(Message \cup {Foreign}) /\ Head(batch[c]) \in Message \cup {Foreign}
      BY <2>2 DEF TypeOK
    <3> QED BY <2>1, <3>1, AppendMembers
  <2>4. m = Head(batch[c])
    BY <1>3, <2>3
  <2>5. c \in Writers(s)
    BY <2>1 DEF Writers, Counted, Writing
  <2>6. c \in Writers(s)' /\ (call[c] = "fork" => Forked(s)')
    BY <2>5, WritersStay DEF Forked
  <2> QED BY <2>1, <2>2, <2>4, <2>6
<1> QED BY <1>2, <1>3

\* What a listing replays are events of the session.
LEMMA ReplayedAreStored ==
  ASSUME TypeOK, NEW s \in Sessions
  PROVE  /\ ToSet(Stored(s)) = ToSet(events[s]) \cap Message
         /\ s \in exists => ToSet(loadMessages(s)) = ToSet(events[s]) \cap Message
         /\ ToSet(loadMessages(s)) \subseteq ToSet(events[s]) \cap Message
<1>1. ToSet(Stored(s)) = ToSet(events[s]) \cap Message
  BY OnlyMembers DEF TypeOK, Stored
<1>2. ToSet(<<>>) = {}
  BY DEF ToSet
<1> QED BY <1>1, <1>2 DEF loadMessages, Stored, messageFromEvent

\* Every step keeps what forks write sayable.
LEMMA ForkSpeaksStep ==
  ASSUME TypeOK, Counted, Turns, Authors, ForkSpeaks, [Next]_vars
  PROVE  ForkSpeaks'
<1> USE DEF Writing
<1>1. CASE UNCHANGED vars
  BY <1>1 DEF vars, ForkSpeaks
<1> SUFFICES ASSUME NEW c \in Requests, Moves(c), NEW d \in Requests, pc'[d] \in Writing,
                    call'[d] = "fork", NEW m \in ToSet(batch'[d])
             PROVE  eventFromMessage(m)
  BY <1>1, Steps DEF ForkSpeaks
<1>2. CASE d # c \/ Asks(c)
  BY <1>2 DEF Moves, Asks, ForkSpeaks
<1>3. CASE d = c /\ Calls(c)
  <2>1. PICK s \in Sessions : batch'[c] = loadMessages(s)
    BY <1>3 DEF Calls, ToWrite
  <2> QED BY <1>3, <2>1, ReplayedAreStored DEF Authors
<1>4. CASE d = c /\ Stores(c)
  BY <1>4, NextMessage DEF Stores, ForkSpeaks
<1> QED BY <1>2, <1>3, <1>4 DEF Moves, Opens, Refuses, Idles, Returns

\* What the invariants so far say of one state.
Ordered == TypeOK /\ Counted /\ Turns /\ Authors /\ ForkSpeaks

\* The invariants so far hold.
LEMMA OrderedHolds == Spec => []Ordered
<1>1. Init => Turns /\ Authors /\ ForkSpeaks
  <2> SUFFICES ASSUME Init PROVE Turns /\ Authors /\ ForkSpeaks
    OBVIOUS
  <2>1. Turns /\ ForkSpeaks
    BY DEF Init, Turns, ForkSpeaks, Writing
  <2>2. ASSUME NEW s \in Sessions PROVE ToSet(events[s]) \cap Message = {}
    <3>1. ToSet(<<Foreign>>) = {Foreign} /\ ToSet(<<>>) = {}
      BY DEF ToSet
    <3> QED BY <3>1, SessionAssumption DEF Init
  <2> QED BY <2>1, <2>2 DEF Authors
<1>2. TypeOK /\ TypeOK' /\ Counted /\ Turns /\ Authors /\ ForkSpeaks /\ [Next]_vars
      => Turns' /\ Authors' /\ ForkSpeaks'
  BY TurnsStep, AuthorsStep, ForkSpeaksStep
<1>3. TypeOK /\ Counted /\ Turns /\ Authors /\ ForkSpeaks <=> Ordered
  BY DEF Ordered
<1> QED BY <1>1, <1>2, <1>3, BooksHold, TypeCorrect, PTL DEF Spec
-----------------------------------------------------------------------------
(***************************************************************************)
(* What an acknowledged append stored is there for later turns.            *)
(***************************************************************************)

\* The events among the first k messages of request c's turn are in its session.
InSession(c, k) ==
    \A n \in 1..k : eventFromMessage(<<c, n>>) => <<c, n>> \in ToSet(events[session[c]])

\* An append has stored what it has no more to write, and all of the turn when it is
\* acknowledged.
Acked ==
    \A c \in Requests : call[c] = "append" =>
        /\ pc[c] \in Writing => \E k \in 0..Len(Turn[c]) : batch[c] = Rest(c, k) /\ InSession(c, k)
        /\ outcome[c] = "ok" => session[c] \in exists /\ InSession(c, Len(Turn[c]))

\* Every step keeps what appends stored.
LEMMA AckedStep ==
  ASSUME Ordered, Acked, [Next]_vars
  PROVE  Acked'
<1> USE DEF Ordered, Writing
<1>1. CASE UNCHANGED vars
  BY <1>1 DEF vars, Acked, InSession
<1> SUFFICES ASSUME NEW c \in Requests, Moves(c), NEW d \in Requests, call'[d] = "append"
             PROVE  /\ pc'[d] \in Writing =>
                         \E k \in 0..Len(Turn[d]) : batch'[d] = Rest(d, k) /\ InSession(d, k)'
                    /\ outcome'[d] = "ok" => session'[d] \in exists' /\ InSession(d, Len(Turn[d]))'
  BY <1>1, Steps DEF Acked
<1>2. ASSUME NEW k \in 0..Len(Turn[d]), session[d] \in Sessions, session'[d] = session[d],
             InSession(d, k)
      PROVE  InSession(d, k)'
  <2>1. PICK s \in Sessions : s = session[d]
    BY <1>2
  <2>2. ToSet(events[s]) \subseteq ToSet(events'[s])
    BY StoreGrows
  <2> QED BY <1>2, <2>1, <2>2 DEF InSession
<1>3. Len(Turn[d]) \in 0..Len(Turn[d])
  BY OwnIs
<1>4. exists \subseteq exists' /\ exists \subseteq Sessions
  BY DEF Moves, TypeOK
<1>5. CASE d # c
  <2>1. /\ pc'[d] = pc[d] /\ call'[d] = call[d] /\ batch'[d] = batch[d] /\ outcome'[d] = outcome[d]
        /\ session'[d] = session[d]
    BY <1>5 DEF Moves
  <2>2. ASSUME pc[d] \in Writing
        PROVE  \E k \in 0..Len(Turn[d]) : batch'[d] = Rest(d, k) /\ InSession(d, k)'
    <3>1. PICK k \in 0..Len(Turn[d]) : batch[d] = Rest(d, k) /\ InSession(d, k)
      BY <2>1, <2>2 DEF Acked
    <3>2. InSession(d, k)'
      BY <1>2, <2>1, <2>2, <3>1 DEF Counted
    <3> QED BY <2>1, <3>1, <3>2
  <2>3. ASSUME outcome[d] = "ok" PROVE session'[d] \in exists' /\ InSession(d, Len(Turn[d]))'
    <3>1. session[d] \in exists /\ InSession(d, Len(Turn[d]))
      BY <2>1, <2>3 DEF Acked
    <3> QED BY <1>2, <1>3, <1>4, <2>1, <3>1
  <2> QED BY <2>1, <2>2, <2>3
<1>6. CASE d = c /\ Calls(c)
  <2>1. batch'[c] = Own(c) /\ outcome'[c] = "none"
    BY <1>6 DEF Calls, ToWrite
  <2>2. Own(c) = Rest(c, 0) /\ 0 \in 0..Len(Turn[c])
    BY OwnIs DEF Rest
  <2>3. InSession(c, 0)'
    BY DEF InSession
  <2> QED BY <1>6, <2>1, <2>2, <2>3
<1>7. CASE d = c /\ Asks(c)
  <2>1. PICK k \in 0..Len(Turn[c]) : batch[c] = Rest(c, k) /\ InSession(c, k)
    BY <1>7 DEF Asks, Acked
  <2>2. InSession(c, k)'
    BY <1>2, <1>7, <2>1 DEF Asks, Counted
  <2>3. outcome'[c] # "ok"
    BY <1>7 DEF Asks, Turns
  <2> QED BY <1>7, <2>1, <2>2, <2>3 DEF Asks
<1>8. CASE d = c /\ Stores(c)
  <2>1. PICK k \in 0..Len(Turn[c]) : batch[c] = Rest(c, k) /\ InSession(c, k)
    BY <1>8 DEF Stores, Acked
  <2>2. /\ k < Len(Turn[c]) /\ Head(batch[c]) = <<c, k + 1>> /\ batch'[c] = Rest(c, k + 1)
        /\ k + 1 \in 0..Len(Turn[c]) /\ 1..(k + 1) = (1..k) \cup {k + 1}
    <3>1. k < Len(Turn[c]) /\ Head(batch[c]) = <<c, k + 1>> /\ batch'[c] = Rest(c, k + 1)
      BY <1>8, <2>1, RestIs DEF Stores
    <3> QED BY <3>1, OwnIs
  <2>3. InSession(c, k)'
    BY <1>2, <1>8, <2>1 DEF Stores, Counted
  <2>4. eventFromMessage(<<c, k + 1>>) => <<c, k + 1>> \in ToSet(events'[session'[c]])
    <3> SUFFICES ASSUME eventFromMessage(<<c, k + 1>>)
                 PROVE  <<c, k + 1>> \in ToSet(events'[session'[c]])
      OBVIOUS
    <3>1. PICK s \in Sessions : s = session[c]
      BY <1>8 DEF Stores, Counted
    <3>2. events'[s] = Append(events[s], <<c, k + 1>>) /\ session'[c] = s
      BY <1>8, <2>2, <3>1 DEF Stores
    <3>3. <<c, k + 1>> \in Message \cup {Foreign} /\ events[s] \in Seq(Message \cup {Foreign})
      BY <2>2, <1>8, NextMessage DEF Stores, TypeOK
    <3>4. ToSet(Append(events[s], <<c, k + 1>>)) = ToSet(events[s]) \cup {<<c, k + 1>>}
      BY <3>3, AppendMembers
    <3> QED BY <3>2, <3>4, Zenon
  <2>5. InSession(c, k + 1)'
    BY <2>2, <2>3, <2>4 DEF InSession
  <2>6. outcome'[c] # "ok"
    BY <1>8 DEF Stores, Turns
  <2> QED BY <1>8, <2>2, <2>5, <2>6
<1>9. CASE d = c /\ Returns(c)
  <2> SUFFICES ASSUME outcome'[c] = "ok"
               PROVE  session'[c] \in exists' /\ InSession(c, Len(Turn[c]))'
    BY <1>9 DEF Returns
  <2>1. PICK k \in 0..Len(Turn[c]) : batch[c] = Rest(c, k) /\ InSession(c, k)
    BY <1>9 DEF Returns, Acked
  <2>2. batch[c] = <<>> /\ pc[c] = "write" /\ session'[c] = session[c]
    BY <1>9 DEF Returns
  <2>3. k = Len(Turn[c])
    BY <2>1, <2>2, RestIs
  <2>4. session[c] \in exists
    BY <2>2 DEF Turns
  <2> QED BY <1>2, <1>4, <1>9, <2>1, <2>2, <2>3, <2>4
<1> QED
  BY <1>5, <1>6, <1>7, <1>8, <1>9 DEF Moves, Opens, Refuses, Idles

\* A turn that is loaded after an append was acknowledged starts from a conversation
\* with everything the append's user and model said.
THEOREM AppendsAreRemembered == Spec => LaterTurnsSeeEarlierOnes
<1>1. Init => Acked
  BY DEF Init, Acked
<1>2. Ordered /\ Acked /\ [Next]_vars => Acked'
  BY AckedStep
<1>3. Ordered /\ Acked /\ [Next]_vars =>
        [\A c, d \in Requests :
            /\ pc[d] = "new" /\ pc'[d] = "open" /\ session'[d] = session[c]
            /\ call[c] = "append" /\ outcome[c] = "ok"
            => \A m \in {<<c, n>> : n \in 1..Len(Turn[c])} :
                 RoleOf(m) # "tool" => m \in ToSet(state'[d])]_vars
  <2> SUFFICES ASSUME Ordered, Acked, Next, NEW c \in Requests, NEW d \in Requests,
                      pc[d] = "new", pc'[d] = "open", session'[d] = session[c],
                      call[c] = "append", outcome[c] = "ok",
                      NEW n \in 1..Len(Turn[c]), RoleOf(<<c, n>>) # "tool"
               PROVE  <<c, n>> \in ToSet(state'[d])
    OBVIOUS
  <2>1. PICK e \in Requests : Moves(e)
    BY Steps DEF Ordered
  <2>2. d = e /\ Opens(d)
    BY <2>1 DEF Moves, Refuses, Calls, ToWrite, Idles, Asks, Stores, Returns, Writing
  <2>3. PICK s \in Sessions : s = session[c]
    BY <2>2 DEF Opens
  <2>4. state'[d] = loadMessages(s) \o Own(d)
    BY <2>2, <2>3 DEF Opens
  <2>5. eventFromMessage(<<c, n>>) /\ <<c, n>> \in Message
    BY OwnIs DEF eventFromMessage, Roles, Message
  <2>6. <<c, n>> \in ToSet(loadMessages(s))
    <3>1. s \in exists /\ <<c, n>> \in ToSet(events[s])
      BY <2>3, <2>5 DEF Acked, InSession
    <3> QED BY <2>5, <3>1, ReplayedAreStored DEF Ordered
  <2>7. ASSUME NEW a \in Seq(Message), NEW b \in Seq(Message), NEW m \in ToSet(a)
        PROVE  m \in ToSet(a \o b)
    BY DEF ToSet
  <2> QED BY <2>4, <2>6, <2>7, OwnIs, loadMessagesType DEF Ordered
<1> QED BY <1>1, <1>2, <1>3, OrderedHolds, PTL DEF Spec, LaterTurnsSeeEarlierOnes
-----------------------------------------------------------------------------
(***************************************************************************)
(* An append keeps the turn, whoever else writes.                          *)
(***************************************************************************)

\* What the first k messages of a turn make of a conversation.
Said(c, k) == Conversation(SubSeq(Own(c), 1, k))

\* A first append that no fork disturbs has stored the beginning of the turn up to
\* what it still has to write, and all of it once it is acknowledged.
AppendKept ==
    \A c \in Requests : call[c] = "append" /\ calls[c] = 1 /\ ~Forked(session[c]) =>
        \E k \in 0..Len(Turn[c]) :
            /\ EventsOf(c, session[c]) = Said(c, k)
            /\ pc[c] \in Writing => batch[c] = Rest(c, k)
            /\ outcome[c] = "ok" => k = Len(Turn[c])

\* What was said grows with each message that becomes an event.
LEMMA SaidNext ==
  ASSUME NEW c \in Requests, NEW k \in Nat, k < Len(Turn[c])
  PROVE  /\ eventFromMessage(<<c, k + 1>>) => Said(c, k + 1) = Append(Said(c, k), <<c, k + 1>>)
         /\ ~eventFromMessage(<<c, k + 1>>) => Said(c, k + 1) = Said(c, k)
<1> DEFINE m == <<c, k + 1>>
           o == Own(c)
<1>1. /\ o \in Seq(Message) /\ Len(o) = Len(Turn[c]) /\ o[k + 1] = m /\ RoleOf(m) \in Roles
      /\ Len(Turn[c]) \in Nat
  BY OwnIs
<1>2. m \in Message
  BY DEF Message
<1> DEFINE spoken == {n \in Message : RoleOf(n) # "tool"}
           p == SubSeq(o, 1, k)
<1>3. eventFromMessage(m) <=> m \in spoken
  BY <1>1, <1>2 DEF eventFromMessage, Roles
<1> HIDE DEF m, o
<1>4. SubSeq(o, 1, k + 1) = Append(p, m) /\ p \in Seq(Message)
  BY <1>1
<1>5. Said(c, k + 1) = Only(SubSeq(o, 1, k + 1), spoken) /\ Said(c, k) = Only(p, spoken)
  BY DEF Said, Conversation, o
<1> HIDE DEF p, spoken
<1>6. Only(Append(p, m), spoken) = IF m \in spoken THEN Append(Only(p, spoken), m)
                                   ELSE Only(p, spoken)
  BY <1>2, <1>4, OnlyAppend
<1> QED BY <1>3, <1>4, <1>5, <1>6 DEF m

\* One more event is one of request c's if its message is.
LEMMA EventsOfNext ==
  ASSUME TypeOK, NEW c \in Requests, NEW s \in Sessions, NEW m \in Message
  PROVE  /\ m[1] = c => Only(Append(events[s], m), {c} \X (Nat \ {0})) = Append(EventsOf(c, s), m)
         /\ m[1] # c => Only(Append(events[s], m), {c} \X (Nat \ {0})) = EventsOf(c, s)
<1>1. m \in {c} \X (Nat \ {0}) <=> m[1] = c
  BY DEF Message
<1> DEFINE mine == {c} \X (Nat \ {0})
           T == Message \cup {Foreign}
           e == events[s]
<1>2. e \in Seq(T) /\ m \in T
  BY DEF TypeOK
<1> HIDE DEF mine, T, e
<1>3. Only(Append(e, m), mine) = IF m \in mine THEN Append(Only(e, mine), m) ELSE Only(e, mine)
  BY <1>2, OnlyAppend
<1> QED BY <1>1, <1>3 DEF EventsOf, mine, e

\* Every step keeps what first appends did.
LEMMA AppendKeptStep ==
  ASSUME Ordered, Ordered', AppendKept, [Next]_vars
  PROVE  AppendKept'
<1> USE DEF Ordered, Writing
<1>1. CASE UNCHANGED vars
  BY <1>1 DEF vars, AppendKept, Forked, Writers, EventsOf
<1> SUFFICES ASSUME NEW c \in Requests, Moves(c), NEW d \in Requests,
                    call'[d] = "append", calls'[d] = 1, ~Forked(session[d])'
             PROVE  \E k \in 0..Len(Turn[d]) :
                      /\ EventsOf(d, session[d])' = Said(d, k)
                      /\ pc'[d] \in Writing => batch'[d] = Rest(d, k)
                      /\ outcome'[d] = "ok" => k = Len(Turn[d])
  BY <1>1, Steps DEF AppendKept
<1>2. PICK s \in Sessions : s = session'[d]
  <2>1. pc'[d] \in {"open"} \cup Writing
    BY DEF Turns, TypeOK
  <2> QED BY <2>1 DEF Counted
<1>3. ~Forked(s)
  <2>1. ~Forked(s)'
    BY <1>2 DEF Forked, Writers
  <2> QED BY <2>1, WritersStay
<1>4. EventsOf(d, session[d])' = EventsOf(d, s)'
  BY <1>2 DEF EventsOf
<1>5. events'[s] = events[s] => EventsOf(d, s)' = EventsOf(d, s)
  BY DEF EventsOf
<1>6. ASSUME NEW m \in Message, events'[s] = Append(events[s], m)
      PROVE  EventsOf(d, s)' = IF m[1] = d THEN Append(EventsOf(d, s), m) ELSE EventsOf(d, s)
  <2>1. EventsOf(d, s)' = Only(Append(events[s], m), {d} \X (Nat \ {0}))
    BY <1>6 DEF EventsOf
  <2> QED BY <2>1, EventsOfNext
<1>7. CASE d # c
  <2>1. EventsOf(d, s)' = EventsOf(d, s)
    <3>1. CASE events'[s] # events[s]
      <4>1. /\ pc[c] = "write" /\ session[c] = s /\ batch[c] # <<>>
            /\ events'[s] = Append(events[s], Head(batch[c]))
        BY <3>1 DEF Moves
      <4>2. c \in Writers(s)
        BY <4>1 DEF Writers, Counted
      <4>3. Head(batch[c]) \in Message /\ Head(batch[c])[1] = c
        BY <1>3, <4>1, <4>2, NextMessage DEF Forked
      <4> QED BY <1>6, <1>7, <4>1, <4>3
    <3> QED BY <1>5, <3>1
  <2> QED BY <1>2, <1>3, <1>4, <1>7, <2>1 DEF Moves, AppendKept
<1>8. CASE d = c /\ Calls(c)
  <2>1. pc[c] = "open" /\ call[c] = "load" /\ batch'[c] = Own(c) /\ session[c] = s
    BY <1>2, <1>8 DEF Calls, ToWrite
  <2>2. calls[c] = 0
    BY <2>1 DEF Turns
  <2>3. ToSet(events[s]) \cap ({c} \X (Nat \ {0})) = {}
    <3> SUFFICES ASSUME NEW m \in ToSet(events[s]), m \in {c} \X (Nat \ {0}) PROVE FALSE
      OBVIOUS
    <3>1. m \in Message /\ m[1] = c
      BY DEF Message
    <3>2. c \in Writers(s)
      BY <1>3, <3>1 DEF Authors
    <3> QED BY <2>2, <3>2 DEF Writers
  <2>4. EventsOf(c, s) = <<>>
    BY <2>3, OnlyNothing DEF EventsOf, TypeOK
  <2>5. EventsOf(c, s)' = <<>>
    BY <1>5, <1>8, <2>4 DEF Moves
  <2>6. Own(c) = Rest(c, 0) /\ 0 \in 0..Len(Turn[c]) /\ SubSeq(Own(c), 1, 0) = <<>>
    BY OwnIs DEF Rest
  <2>7. Said(c, 0) = <<>>
    BY <2>6, OnlyEmpty DEF Said, Conversation
  <2>8. outcome'[c] # "ok"
    BY <1>8 DEF Calls
  <2> QED BY <1>4, <1>8, <2>1, <2>5, <2>6, <2>7, <2>8
<1>9. CASE d = c /\ ~Calls(c)
  <2>1. /\ Asks(c) \/ Stores(c) \/ Returns(c)
        /\ call[c] = "append" /\ calls[c] = 1 /\ session[c] = s /\ pc[c] \in Writing
    BY <1>2, <1>9 DEF Moves, Opens, Refuses, Idles, Asks, Stores, Returns, Turns
  <2>2. PICK k \in 0..Len(Turn[c]) : EventsOf(c, s) = Said(c, k) /\ batch[c] = Rest(c, k)
    BY <1>3, <2>1 DEF AppendKept
  <2>3. ASSUME batch[c] # <<>>
        PROVE  /\ k < Len(Turn[c]) /\ Head(batch[c]) = <<c, k + 1>> /\ Head(batch[c]) \in Message
               /\ Tail(batch[c]) = Rest(c, k + 1) /\ k + 1 \in 0..Len(Turn[c]) /\ k \in Nat
    <3>1. Len(Turn[c]) \in Nat
      BY OwnIs
    <3> QED BY <2>1, <2>2, <2>3, <3>1, RestIs, NextMessage
  <2>4. ASSUME batch[c] # <<>>, eventFromMessage(Head(batch[c])),
               events'[s] = Append(events[s], Head(batch[c]))
        PROVE  EventsOf(c, s)' = Said(c, k + 1)
    <3>1. EventsOf(c, s)' = Append(EventsOf(c, s), <<c, k + 1>>)
      BY <1>6, <1>9, <2>3, <2>4
    <3> QED BY <2>2, <2>3, <2>4, <3>1, SaidNext
  <2>5. CASE Asks(c)
    <3>1. events'[s] = events[s] /\ batch'[c] = batch[c] /\ outcome'[c] # "ok"
      BY <2>1, <2>5 DEF Asks, Moves, Turns
    <3> QED BY <1>4, <1>5, <1>9, <2>2, <3>1
  <2>6. CASE Stores(c)
    <3>1. batch[c] # <<>> /\ batch'[c] = Rest(c, k + 1) /\ outcome'[c] # "ok"
      BY <2>1, <2>3, <2>6 DEF Stores, Turns
    <3>2. EventsOf(c, s)' = Said(c, k + 1)
      <4>1. CASE eventFromMessage(Head(batch[c]))
        BY <2>1, <2>4, <2>6, <3>1, <4>1 DEF Stores
      <4>2. CASE ~eventFromMessage(Head(batch[c]))
        <5>1. events'[s] = events[s]
          BY <2>1, <2>6, <4>2 DEF Stores
        <5>2. Said(c, k + 1) = Said(c, k)
          BY <2>3, <3>1, <4>2, SaidNext
        <5> QED BY <1>5, <1>9, <2>2, <5>1, <5>2
      <4> QED BY <4>1, <4>2
    <3> QED BY <1>4, <1>9, <2>3, <3>1, <3>2
  <2>7. CASE Returns(c)
    <3>1. pc'[c] \notin Writing
      BY <2>7 DEF Returns
    <3>2. CASE outcome'[c] = "ok"
      <4>1. batch[c] = <<>> /\ events'[s] = events[s]
        BY <2>7, <3>2 DEF Returns
      <4>2. k = Len(Turn[c])
        BY <2>2, <4>1, RestIs
      <4> QED BY <1>4, <1>5, <1>9, <2>2, <3>1, <4>1, <4>2
    <3>3. CASE outcome'[c] # "ok" /\ events'[s] = events[s]
      BY <1>4, <1>5, <1>9, <2>2, <3>1, <3>3
    <3>4. CASE outcome'[c] # "ok" /\ events'[s] # events[s]
      <4>1. /\ batch[c] # <<>> /\ eventFromMessage(Head(batch[c]))
            /\ events'[s] = Append(events[s], Head(batch[c]))
        BY <3>4 DEF Moves
      <4> QED BY <1>4, <1>9, <2>3, <2>4, <3>1, <3>4, <4>1
    <3> QED BY <3>2, <3>3, <3>4
  <2> QED BY <2>1, <2>5, <2>6, <2>7
<1> QED BY <1>7, <1>8, <1>9

\* AppendMessages puts the turn's words into the session once and in order, whatever
\* other requests write in between, and a prefix of them when it fails.
THEOREM AppendsAreKept == Spec => []AppendKeepsTheTurn
<1>1. Init => AppendKept
  BY DEF Init, AppendKept
<1>2. Ordered /\ Ordered' /\ AppendKept /\ [Next]_vars => AppendKept'
  BY AppendKeptStep
<1>3. AppendKept => AppendKeepsTheTurn
  <2> SUFFICES ASSUME AppendKept, NEW c \in Requests, call[c] = "append", calls[c] = 1,
                      \A d \in Writers(session[c]) : call[d] # "fork"
               PROVE  /\ IsPrefix(EventsOf(c, session[c]), Conversation(Own(c)))
                      /\ outcome[c] = "ok" => EventsOf(c, session[c]) = Conversation(Own(c))
    BY DEF AppendKeepsTheTurn
  <2>1. PICK k \in 0..Len(Turn[c]) :
          EventsOf(c, session[c]) = Said(c, k) /\ (outcome[c] = "ok" => k = Len(Turn[c]))
    BY DEF AppendKept, Forked
  <2>2. Own(c) \in Seq(Message) /\ k \in 0..Len(Own(c)) /\ Said(c, Len(Turn[c])) = Conversation(Own(c))
    <3>1. Own(c) \in Seq(Message) /\ Len(Own(c)) = Len(Turn[c])
      BY OwnIs
    <3>2. SubSeq(Own(c), 1, Len(Own(c))) = Own(c)
      BY <3>1
    <3> QED BY <3>1, <3>2 DEF Said
  <2>3. IsPrefix(Said(c, k), Conversation(Own(c)))
    BY <2>2, OnlyPrefix DEF Said, Conversation
  <2> QED BY <2>1, <2>2, <2>3
<1> QED BY <1>1, <1>2, <1>3, OrderedHolds, PTL DEF Spec
-----------------------------------------------------------------------------
(***************************************************************************)
(* A fork nobody disturbs is a copy.                                       *)
(***************************************************************************)

\* A fork that is alone in its session has written the beginning of a conversation
\* and has the next messages of it to write.
ForkKept ==
    \A c \in Requests : call[c] = "fork" /\ pc[c] \in Writing /\ Writers(session[c]) = {c} =>
        \E s \in Sessions \ {session[c]} :
            LET copy == Stored(session[c]) \o batch[c] IN
            copy # <<>> /\ IsPrefix(copy, loadMessages(s))

\* A beginning of a beginning is a beginning.
LEMMA PrefixOfPrefix ==
  ASSUME NEW T, NEW a \in Seq(T), NEW b \in Seq(T), NEW c \in Seq(T), IsPrefix(a, b), IsPrefix(b, c)
  PROVE  IsPrefix(a, c)
<1>1. Len(a) <= Len(b) /\ \A i \in 1..Len(a) : a[i] = b[i]
  BY PrefixIs
<1>2. Len(b) <= Len(c) /\ \A i \in 1..Len(b) : b[i] = c[i]
  BY PrefixIs
<1>3. Len(a) <= Len(c) /\ \A i \in 1..Len(a) : a[i] = c[i]
  BY <1>1, <1>2
<1> QED BY <1>3, PrefixIs

\* What moves from the front of one sequence to the end of another stays in place.
LEMMA MoveOne ==
  ASSUME NEW T, NEW a \in Seq(T), NEW b \in Seq(T), b # <<>>
  PROVE  Append(a, Head(b)) \o Tail(b) = a \o b
OBVIOUS

\* A session nobody wrote to replays nothing.
LEMMA UnwrittenIsEmpty ==
  ASSUME TypeOK, Authors, NEW s \in Sessions, Writers(s) = {}
  PROVE  Stored(s) = <<>> /\ loadMessages(s) = <<>>
<1>1. ToSet(events[s]) \cap Message = {}
  BY DEF Authors, Forked
<1>2. Stored(s) = <<>>
  BY <1>1, OnlyNothing DEF Stored, TypeOK
<1> QED BY <1>2 DEF loadMessages, Stored, messageFromEvent

\* Every step keeps what forks did.
LEMMA ForkKeptStep ==
  ASSUME Ordered, Ordered', ForkKept, [Next]_vars
  PROVE  ForkKept'
<1> USE DEF Ordered, Writing
<1>1. CASE UNCHANGED vars
  BY <1>1 DEF vars, ForkKept, Writers, Stored, loadMessages
<1> SUFFICES ASSUME NEW c \in Requests, Moves(c), NEW d \in Requests,
                    call'[d] = "fork", pc'[d] \in Writing, Writers(session[d])' = {d}
             PROVE  \E s \in Sessions \ {session'[d]} :
                      LET copy == (Stored(session[d]))' \o batch'[d] IN
                      copy # <<>> /\ IsPrefix(copy, loadMessages(s)')
  BY <1>1, Steps DEF ForkKept
<1>2. PICK t \in Sessions : t = session'[d]
  BY DEF Counted
<1>3. Writers(t)' = {d} /\ Writers(t) \subseteq {d} /\ Stored(session[d])' = Stored(t)'
  <2>1. Writers(t)' = {d} /\ Stored(session[d])' = Stored(t)'
    BY <1>2 DEF Writers, Stored
  <2> QED BY <2>1, WritersStay
<1>4. events'[t] = events[t] => Stored(t)' = Stored(t)
  BY DEF Stored
<1>5. ASSUME NEW s \in Sessions
      PROVE  /\ Stored(s) \in Seq(Message) /\ loadMessages(s) \in Seq(Message)
             /\ loadMessages(s)' \in Seq(Message)
             /\ IsPrefix(loadMessages(s), loadMessages(s)')
  <2>1. loadMessages(s) \in Seq(Message) /\ IsPrefix(loadMessages(s), loadMessages(s)')
    BY loadMessagesType, StoreGrows
  <2>2. (loadMessages(s) \in Seq(Message))'
    BY loadMessagesType, PTL
  <2>3. Stored(s) \in Seq(Message)
    <3>1. Stored(s) \in Seq((Message \cup {Foreign}) \cap Message)
      BY OnlyType DEF TypeOK, Stored
    <3>2. (Message \cup {Foreign}) \cap Message = Message
      OBVIOUS
    <3> QED BY <3>1, <3>2
  <2> QED BY <2>1, <2>2, <2>3
<1>6. CASE d = c /\ Calls(c)
  <2>1. pc[c] = "new" /\ batch'[c] # <<>> /\ events' = events /\ exists' = exists
    BY <1>6 DEF Calls, ToWrite, Moves
  <2>2. PICK s \in Sessions : batch'[c] = loadMessages(s)
    BY <1>6 DEF Calls, ToWrite
  <2>3. Writers(t) = {}
    BY <1>3, <1>6, <2>1 DEF Counted, Writers
  <2>4. Stored(t) = <<>> /\ loadMessages(t) = <<>>
    BY <2>3, UnwrittenIsEmpty
  <2>5. s # t /\ loadMessages(s)' = loadMessages(s)
    BY <2>1, <2>2, <2>4 DEF loadMessages
  <2>6. Stored(t)' \o batch'[c] = loadMessages(s)
    <3>1. Stored(t)' = <<>>
      BY <1>4, <2>1, <2>4
    <3>2. <<>> \o loadMessages(s) = loadMessages(s)
      BY <1>5
    <3> QED BY <2>2, <3>1, <3>2
  <2>7. IsPrefix(loadMessages(s), loadMessages(s))
    BY <1>5 DEF IsPrefix
  <2> QED BY <1>2, <1>3, <1>6, <2>1, <2>2, <2>5, <2>6, <2>7
<1>7. CASE ~(d = c /\ Calls(c))
  <2>1. /\ d # c \/ Asks(c) \/ Stores(c)
        /\ call[d] = "fork" /\ pc[d] \in Writing /\ session[d] = t
    BY <1>2, <1>7 DEF Moves, Opens, Refuses, Idles, Asks, Stores, Returns
  <2>2. Writers(t) = {d}
    BY <1>3, <2>1 DEF Writers, Counted
  <2>3. Stored(t)' \o batch'[d] = Stored(t) \o batch[d]
    <3>1. CASE d # c \/ Asks(c)
      <4>1. batch'[d] = batch[d]
        BY <2>1, <3>1 DEF Moves, Asks, Stores
      <4>2. events'[t] = events[t]
        <5> SUFFICES ASSUME events'[t] # events[t] PROVE FALSE
          OBVIOUS
        <5>1. pc[c] = "write" /\ session[c] = t
          BY DEF Moves
        <5>2. c \in Writers(t)
          BY <5>1 DEF Writers, Counted
        <5>3. d = c /\ Asks(c)
          BY <2>2, <3>1, <5>2
        <5> QED BY <5>1, <5>3 DEF Asks
      <4> QED BY <1>4, <4>1, <4>2
    <3>2. CASE d = c /\ Stores(c)
      <4> DEFINE m == Head(batch[c])
      <4>1. batch[c] # <<>> /\ batch[c] \in Seq(Message) /\ batch'[c] = Tail(batch[c])
        BY <3>2 DEF Stores, TypeOK
      <4>2. m \in Message /\ eventFromMessage(m)
        BY <2>1, <3>2, <4>1, NextMessage DEF ForkSpeaks
      <4>3. events'[t] = Append(events[t], m)
        BY <2>1, <3>2, <4>2 DEF Stores
      <4>4. Stored(t)' = Append(Stored(t), m)
        <5>1. Stored(t)' = Only(Append(events[t], m), Message)
          BY <4>3 DEF Stored
        <5> HIDE DEF m
        <5> QED BY <4>2, <5>1, StoredAppend
      <4> QED BY <1>5, <3>2, <4>1, <4>4, MoveOne
    <3> QED BY <2>1, <3>1, <3>2
  <2>4. PICK s \in Sessions \ {t} :
          Stored(t) \o batch[d] # <<>> /\ IsPrefix(Stored(t) \o batch[d], loadMessages(s))
    BY <2>1, <2>2 DEF ForkKept
  <2>5. Stored(t) \o batch[d] \in Seq(Message)
    <3>1. batch[d] \in Seq(Message)
      BY DEF TypeOK
    <3> QED BY <1>5, <3>1
  <2>6. IsPrefix(Stored(t) \o batch[d], loadMessages(s)')
    <3> DEFINE copy == Stored(t) \o batch[d]
    <3> HIDE DEF copy
    <3>1. copy \in Seq(Message) /\ IsPrefix(copy, loadMessages(s))
      BY <2>4, <2>5 DEF copy
    <3>2. IsPrefix(copy, loadMessages(s)')
      BY <1>5, <3>1, PrefixOfPrefix
    <3> QED BY <3>2 DEF copy
  <2> QED BY <1>2, <1>3, <2>3, <2>4, <2>6
<1> QED BY <1>6, <1>7

\* A fork that succeeds in a session nobody else writes to is a copy of another
\* session: it starts with what that one starts with and has nothing else.
THEOREM ForksAreCopies == Spec => ForkCopies
<1>1. Init => ForkKept
  BY DEF Init, ForkKept, Writing
<1>2. Ordered /\ Ordered' /\ ForkKept /\ [Next]_vars => ForkKept'
  BY ForkKeptStep
<1>3. Ordered /\ ForkKept /\ [Next]_vars =>
        [\A c \in Requests :
            call[c] = "fork" /\ pc[c] = "write" /\ pc'[c] = "ended" /\ outcome'[c] = "ok"
            /\ Writers(session[c]) = {c} =>
                \E s \in Sessions :
                    LET copy == Only(events[session[c]], messageFromEvent) IN
                    s # session[c] /\ copy # <<>> /\ IsPrefix(copy, loadMessages(s))]_vars
  <2> SUFFICES ASSUME Ordered, ForkKept, Next, NEW c \in Requests,
                      call[c] = "fork", pc[c] = "write", pc'[c] = "ended", outcome'[c] = "ok",
                      Writers(session[c]) = {c}
               PROVE  \E s \in Sessions :
                        LET copy == Only(events[session[c]], messageFromEvent) IN
                        s # session[c] /\ copy # <<>> /\ IsPrefix(copy, loadMessages(s))
    OBVIOUS
  <2>1. PICK e \in Requests : Moves(e)
    BY Steps DEF Ordered
  <2>2. batch[c] = <<>> /\ session[c] \in Sessions
    BY <2>1 DEF Moves, Opens, Refuses, Calls, ToWrite, Idles, Asks, Stores, Returns, Writing,
                Ordered, Counted
  <2>3. PICK s \in Sessions \ {session[c]} :
          /\ Stored(session[c]) \o batch[c] # <<>>
          /\ IsPrefix(Stored(session[c]) \o batch[c], loadMessages(s))
    BY DEF ForkKept, Writing
  <2>4. Stored(session[c]) \o batch[c] = Stored(session[c])
    <3>1. ASSUME NEW t \in Sessions PROVE Stored(t) \in Seq((Message \cup {Foreign}) \cap Message)
      BY OnlyType DEF Ordered, TypeOK, Stored
    <3>2. ASSUME NEW T, NEW a \in Seq(T) PROVE a \o <<>> = a
      OBVIOUS
    <3> QED BY <2>2, <3>1, <3>2
  <2> QED BY <2>3, <2>4 DEF Stored, messageFromEvent
<1> QED BY <1>1, <1>2, <1>3, OrderedHolds, PTL DEF Spec, ForkCopies
-----------------------------------------------------------------------------
(***************************************************************************)
(* Save stores nothing twice.                                              *)
(***************************************************************************)

\* Nothing has failed, nobody forked into session s, and whoever wrote to it has a turn
\* that the session can carry.
Clean(s) ==
    faults = 0 /\ \A c \in Writers(s) : call[c] # "fork" /\ Conversation(Own(c)) = Own(c)

\* A clean session holds nothing twice; who has written to it finds at least as many
\* messages there as in its state, those it still has to write counted, and these are
\* not there yet.
SaveKept ==
    \A s \in Sessions : Clean(s) =>
        /\ \A i, j \in DOMAIN events[s] : events[s][i] = events[s][j] => i = j
        /\ \A c \in Writers(s) :
            /\ pc[c] = "open" => Len(loadMessages(s)) >= Len(state[c])
            /\ pc[c] \in Writing =>
                 /\ Len(Stored(s)) + Len(batch[c]) >= Len(state[c])
                 /\ ToSet(batch[c]) \cap ToSet(events[s]) = {}

\* The rest of a turn are the turn's later messages.
LEMMA RestMembers ==
  ASSUME NEW c \in Requests, NEW k \in 0..Len(Turn[c]), NEW m \in ToSet(Rest(c, k))
  PROVE  \E n \in (k + 1)..Len(Turn[c]) : m = <<c, n>>
<1> DEFINE r == Rest(c, k)
<1>1. r \in Seq(Message) /\ Len(r) = Len(Turn[c]) - k /\ \A i \in 1..(Len(Turn[c]) - k) : r[i] = <<c, k + i>>
  BY RestIs
<1>2. Len(Turn[c]) \in Nat
  BY OwnIs
<1> HIDE DEF r
<1>3. PICK i \in DOMAIN r : m = r[i]
  BY DEF ToSet, r
<1>4. i \in 1..(Len(Turn[c]) - k) /\ k + i \in (k + 1)..Len(Turn[c])
  BY <1>1, <1>2, <1>3
<1> QED BY <1>1, <1>3, <1>4

\* A turn that the session can carry has only messages that become events.
LEMMA CarriedSpeaks ==
  ASSUME NEW c \in Requests, Conversation(Own(c)) = Own(c), NEW n \in 1..Len(Turn[c])
  PROVE  eventFromMessage(<<c, n>>)
<1>1. Own(c) \in Seq(Message) /\ Own(c)[n] = <<c, n>> /\ n \in DOMAIN Own(c) /\ RoleOf(<<c, n>>) \in Roles
  BY OwnIs
<1>2. ToSet(Own(c)) = ToSet(Own(c)) \cap {m \in Message : RoleOf(m) # "tool"}
  BY <1>1, OnlyMembers DEF Conversation
<1>3. <<c, n>> \in ToSet(Own(c))
  BY <1>1 DEF ToSet
<1>4. RoleOf(<<c, n>>) # "tool"
  BY <1>2, <1>3
<1> QED BY <1>1, <1>4 DEF eventFromMessage, Roles

\* A session holds nothing of a request that has not written, unless somebody forked.
LEMMA UnwrittenHasNothing ==
  ASSUME Authors, NEW s \in Sessions, ~Forked(s), NEW c \in Requests, c \notin Writers(s),
         NEW k \in 0..Len(Turn[c])
  PROVE  ToSet(Rest(c, k)) \cap ToSet(events[s]) = {}
<1> SUFFICES ASSUME NEW m \in ToSet(Rest(c, k)), m \in ToSet(events[s]) PROVE FALSE
  OBVIOUS
<1>1. PICK n \in (k + 1)..Len(Turn[c]) : m = <<c, n>>
  BY RestMembers
<1>2. m \in Message
  BY <1>1, OwnIs DEF Message
<1> QED BY <1>1, <1>2 DEF Authors

\* Every step keeps saves honest.
LEMMA SaveKeptStep ==
  ASSUME Ordered, Ordered', SaveKept, [Next]_vars
  PROVE  SaveKept'
<1> USE DEF Ordered, Writing
<1>1. CASE UNCHANGED vars
  BY <1>1 DEF vars, SaveKept, Clean, Writers, Stored, loadMessages
<1> SUFFICES ASSUME NEW c \in Requests, Moves(c), NEW s \in Sessions, Clean(s)'
             PROVE  /\ \A i, j \in DOMAIN events'[s] : events'[s][i] = events'[s][j] => i = j
                    /\ \A d \in Writers(s)' :
                        /\ pc'[d] = "open" => Len(loadMessages(s)') >= Len(state'[d])
                        /\ pc'[d] \in Writing =>
                             /\ Len(Stored(s)') + Len(batch'[d]) >= Len(state'[d])
                             /\ ToSet(batch'[d]) \cap ToSet(events'[s]) = {}
  BY <1>1, Steps DEF SaveKept
<1>2. Clean(s) /\ ~Forked(s) /\ faults = 0 /\ faults' = 0
  <2>1. faults' = 0 /\ faults = 0
    BY DEF Clean, Moves, TypeOK
  <2>2. ASSUME NEW d \in Writers(s) PROVE call[d] # "fork" /\ Conversation(Own(d)) = Own(d)
    BY WritersStay DEF Clean
  <2> QED BY <2>1, <2>2 DEF Clean, Forked
<1>3. /\ loadMessages(s) \in Seq(Message) /\ loadMessages(s)' \in Seq(Message)
      /\ Stored(s) \in Seq(Message) /\ Stored(s)' \in Seq(Message)
      /\ Len(loadMessages(s)) <= Len(loadMessages(s)') /\ Len(Stored(s)) <= Len(Stored(s)')
  <2>1. loadMessages(s) \in Seq(Message) /\ (loadMessages(s) \in Seq(Message))'
    BY loadMessagesType, PTL
  <2>2. (Message \cup {Foreign}) \cap Message = Message
    OBVIOUS
  <2>3. Stored(s) \in Seq((Message \cup {Foreign}) \cap Message)
    BY OnlyType DEF TypeOK, Stored
  <2>4. Stored(s)' \in Seq((Message \cup {Foreign}) \cap Message)
    BY OnlyType DEF TypeOK, Stored
  <2> QED BY <2>1, <2>2, <2>3, <2>4, StoreGrows DEF IsPrefix
<1>4. Len(loadMessages(s)) <= Len(Stored(s)) /\ (s \in exists => loadMessages(s) = Stored(s))
  BY <1>3 DEF loadMessages, Stored, messageFromEvent
<1>5. ASSUME events'[s] # events[s]
      PROVE  /\ pc[c] = "write" /\ session[c] = s /\ batch[c] # <<>> /\ c \in Writers(s)
             /\ Head(batch[c]) \in Message /\ Head(batch[c])[1] = c
             /\ Head(batch[c]) \notin ToSet(events[s])
             /\ events'[s] = Append(events[s], Head(batch[c]))
             /\ ToSet(events'[s]) = ToSet(events[s]) \cup {Head(batch[c])}
  <2>1. /\ pc[c] = "write" /\ session[c] = s /\ batch[c] # <<>>
        /\ events'[s] = Append(events[s], Head(batch[c]))
    BY <1>5 DEF Moves
  <2>2. c \in Writers(s)
    BY <2>1 DEF Writers, Counted
  <2>3. /\ Head(batch[c]) \in Message /\ Head(batch[c])[1] = c
        /\ Head(batch[c]) \in ToSet(batch[c])
    BY <1>2, <2>1, <2>2, NextMessage DEF Clean
  <2>4. Head(batch[c]) \notin ToSet(events[s])
    BY <1>2, <2>1, <2>2, <2>3 DEF SaveKept
  <2>5. ToSet(Append(events[s], Head(batch[c]))) = ToSet(events[s]) \cup {Head(batch[c])}
    <3>1. events[s] \in Seq(Message \cup {Foreign}) /\ Head(batch[c]) \in Message \cup {Foreign}
      BY <2>3 DEF TypeOK
    <3> QED BY <3>1, AppendMembers
  <2> QED BY <2>1, <2>2, <2>3, <2>4, <2>5
<1>6. \A i, j \in DOMAIN events'[s] : events'[s][i] = events'[s][j] => i = j
  <2>1. CASE events'[s] = events[s]
    BY <1>2, <2>1 DEF SaveKept
  <2>2. CASE events'[s] # events[s]
    <3> DEFINE e == events[s]
               m == Head(batch[c])
    <3>1. \A i, j \in DOMAIN e : e[i] = e[j] => i = j
      BY <1>2 DEF SaveKept
    <3>2. e \in Seq(Message \cup {Foreign}) /\ \A i \in DOMAIN e : e[i] # m
      BY <1>5, <2>2 DEF TypeOK, ToSet
    <3>3. events'[s] = Append(e, m)
      BY <1>5, <2>2
    <3> HIDE DEF e, m
    <3> QED BY <3>1, <3>2, <3>3
  <2> QED BY <2>1, <2>2
<1> SUFFICES ASSUME NEW d \in Writers(s)'
             PROVE  /\ pc'[d] = "open" => Len(loadMessages(s)') >= Len(state'[d])
                    /\ pc'[d] \in Writing =>
                         /\ Len(Stored(s)') + Len(batch'[d]) >= Len(state'[d])
                         /\ ToSet(batch'[d]) \cap ToSet(events'[s]) = {}
  BY <1>6
<1>7. /\ d \in Requests /\ session'[d] = s /\ calls'[d] > 0
      /\ call'[d] # "fork" /\ Conversation(Own(d)) = Own(d)
      /\ state[d] \in Seq(Message) /\ batch[d] \in Seq(Message) /\ batch'[d] \in Seq(Message)
  BY DEF Writers, Clean, TypeOK
<1>8. CASE d # c
  <2>1. d \in Writers(s) /\ pc'[d] = pc[d] /\ state'[d] = state[d] /\ batch'[d] = batch[d]
        /\ call[d] # "fork"
    BY <1>7, <1>8 DEF Writers, Moves
  <2>2. pc[d] = "open" => Len(loadMessages(s)') >= Len(state[d])
    BY <1>2, <1>3, <1>7, <2>1 DEF SaveKept
  <2>3. ASSUME pc[d] \in Writing
        PROVE  /\ Len(Stored(s)') + Len(batch[d]) >= Len(state[d])
               /\ ToSet(batch[d]) \cap ToSet(events'[s]) = {}
    <3>1. /\ Len(Stored(s)) + Len(batch[d]) >= Len(state[d])
          /\ ToSet(batch[d]) \cap ToSet(events[s]) = {}
      BY <1>2, <2>1, <2>3 DEF SaveKept
    <3>2. PICK k \in 0..Len(Turn[d]) : batch[d] = Rest(d, k)
      BY <2>1, <2>3, <1>7 DEF Turns
    <3>3. \A m \in ToSet(batch[d]) : m[1] = d
      BY <1>7, <3>2, RestMembers
    <3>4. ToSet(batch[d]) \cap ToSet(events'[s]) = {}
      BY <1>5, <1>8, <3>1, <3>3
    <3>5. Len(Stored(s)') + Len(batch[d]) >= Len(state[d])
      BY <1>3, <1>7, <3>1
    <3> QED BY <3>4, <3>5
  <2> QED BY <2>1, <2>2, <2>3
<1>9. CASE d = c /\ Calls(c)
  <2>1. pc[c] = "open" /\ session[c] = s /\ pc'[c] = "get" /\ state'[c] = state[c]
        /\ batch'[c] # <<>> /\ call[c] # "fork"
    BY <1>7, <1>9 DEF Calls, ToWrite, Turns
  <2>2. Stored(s)' = Stored(s) /\ events'[s] = events[s]
    BY <1>9 DEF Moves, Stored
  <2>3. StateIsLoaded(c)
    BY <2>1 DEF Turns
  <2>4. \/ call[c] = "load" /\ batch'[c] = Own(c)
        \/ batch'[c] = SubSeq(state[c], Len(loadMessages(s)) + 1, Len(state[c]))
    BY <1>7, <1>9, <2>1 DEF Calls, ToWrite
  <2>5. c \notin Writers(s)
    <3>1. SUFFICES ASSUME c \in Writers(s) PROVE FALSE
      OBVIOUS
    <3>2. Len(loadMessages(s)) >= Len(state[c])
      BY <1>2, <2>1, <3>1 DEF SaveKept
    <3>3. SubSeq(state[c], Len(loadMessages(s)) + 1, Len(state[c])) = <<>>
      BY <1>3, <1>7, <1>9, <3>2
    <3>4. call[c] # "load"
      BY <3>1 DEF Writers, Turns
    <3> QED BY <2>1, <2>4, <3>3, <3>4
  <2>6. \E k \in 0..Len(Turn[c]) : batch'[c] = Rest(c, k)
    <3>1. Own(c) = Rest(c, 0) /\ 0 \in 0..Len(Turn[c])
      BY OwnIs DEF Rest
    <3> QED BY <2>1, <2>3, <2>4, <3>1, SaveWritesOwn
  <2>7. ToSet(batch'[c]) \cap ToSet(events'[s]) = {}
    BY <1>2, <2>2, <2>5, <2>6, UnwrittenHasNothing
  <2>8. Len(Stored(s)') + Len(batch'[c]) >= Len(state[c])
    <3>1. CASE batch'[c] = Own(c)
      <4>1. PICK loaded \in Seq(Message) : state[c] = loaded \o Own(c) /\ Len(loaded) <= Len(loadMessages(s))
        BY <2>1, <2>3 DEF StateIsLoaded
      <4>2. Own(c) \in Seq(Message)
        BY OwnIs
      <4>3. Len(state[c]) = Len(loaded) + Len(Own(c))
        BY <4>1, <4>2
      <4> QED BY <1>3, <1>4, <2>2, <3>1, <4>1, <4>2, <4>3
    <3>2. CASE batch'[c] = SubSeq(state[c], Len(loadMessages(s)) + 1, Len(state[c]))
      <4> DEFINE x == Len(loadMessages(s))
                 n == Len(state[c])
      <4>1. x \in Nat /\ n \in Nat /\ state[c] \in Seq(Message)
        BY <1>3, <1>7, <1>9
      <4>2. Len(SubSeq(state[c], x + 1, n)) >= n - x
        <5> HIDE DEF x
        <5> QED BY <4>1
      <4>3. x <= Len(Stored(s)) /\ Len(Stored(s)) \in Nat /\ Len(batch'[c]) \in Nat
        BY <1>3, <1>4, <1>7, <1>9
      <4>4. Len(batch'[c]) >= n - x
        BY <3>2, <4>2
      <4> HIDE DEF x, n
      <4>5. Len(Stored(s)) + Len(batch'[c]) >= n
        BY <4>1, <4>3, <4>4
      <4> QED BY <2>2, <4>5 DEF n
    <3> QED BY <2>4, <3>1, <3>2
  <2> QED BY <1>9, <2>1, <2>7, <2>8
<1>10. CASE d = c /\ Idles(c)
  <2> DEFINE x == Len(loadMessages(s))
  <2>1. pc'[c] = "open" /\ session[c] = s /\ state'[c] = state[c]
    BY <1>7, <1>10 DEF Idles
  <2>2. SubSeq(state[c], x + 1, Len(state[c])) = <<>>
    <3>1. ~(faults' > faults)
      BY <1>2
    <3> QED BY <1>10, <2>1, <3>1 DEF Idles
  <2>3. loadMessages(s)' = loadMessages(s)
    BY <1>10 DEF Moves, loadMessages
  <2>4. Len(state[c]) <= x
    <3>1. x \in Nat /\ state[c] \in Seq(Message)
      BY <1>3, <1>7, <1>10
    <3> HIDE DEF x
    <3> DEFINE tail == SubSeq(state[c], x + 1, Len(state[c]))
    <3>2. x < Len(state[c]) => Len(tail) # 0
      BY <3>1
    <3>3. tail = <<>> /\ Len(<<>>) = 0
      <4>1. Len(<<>>) = 0
        OBVIOUS
      <4> QED BY <2>2, <4>1
    <3>4. Len(state[c]) \in Nat
      BY <3>1
    <3> HIDE DEF tail
    <3> QED BY <3>1, <3>2, <3>3, <3>4
  <2>5. Len(state'[c]) <= Len(loadMessages(s)')
    BY <2>1, <2>3, <2>4
  <2>6. Len(state'[c]) \in Nat /\ Len(loadMessages(s)') \in Nat
    BY <1>3, <1>7, <1>10, <2>1
  <2> HIDE DEF x
  <2> QED BY <1>10, <2>1, <2>5, <2>6
<1>11. CASE d = c /\ Asks(c)
  <2>1. /\ c \in Writers(s) /\ pc[c] \in Writing /\ pc'[c] # "open" /\ batch'[c] = batch[c]
        /\ state'[c] = state[c] /\ pc[c] # "write"
    BY <1>7, <1>11 DEF Asks, Writers
  <2>2. events'[s] = events[s]
    BY <1>5, <2>1
  <2>3. Stored(s)' = Stored(s)
    BY <2>2 DEF Stored
  <2> QED BY <1>2, <1>11, <2>1, <2>2, <2>3 DEF SaveKept
<1>12. CASE d = c /\ Stores(c)
  <2>1. /\ c \in Writers(s) /\ pc[c] = "write" /\ pc'[c] = "write" /\ batch[c] # <<>>
        /\ batch'[c] = Tail(batch[c]) /\ state'[c] = state[c] /\ session[c] = s /\ call[c] # "fork"
    BY <1>7, <1>12 DEF Stores, Writers
  <2>2. /\ Len(Stored(s)) + Len(batch[c]) >= Len(state[c])
        /\ ToSet(batch[c]) \cap ToSet(events[s]) = {}
    BY <1>2, <2>1 DEF SaveKept
  <2>3. PICK k \in 0..Len(Turn[c]) : batch[c] = Rest(c, k)
    BY <2>1 DEF Turns
  <2>4. /\ k < Len(Turn[c]) /\ Head(batch[c]) = <<c, k + 1>> /\ batch'[c] = Rest(c, k + 1)
        /\ k + 1 \in 1..Len(Turn[c])
    <3>1. k < Len(Turn[c]) /\ Head(batch[c]) = <<c, k + 1>> /\ batch'[c] = Rest(c, k + 1)
      BY <2>1, <2>3, RestIs
    <3> QED BY <3>1, OwnIs
  <2>5. eventFromMessage(Head(batch[c]))
    BY <1>7, <1>12, <2>4, CarriedSpeaks
  <2>6. events'[s] = Append(events[s], Head(batch[c])) /\ Head(batch[c]) \in Message
    BY <1>12, <2>1, <2>5, NextMessage DEF Stores
  <2>7. Stored(s)' = Append(Stored(s), Head(batch[c]))
    <3> DEFINE m == Head(batch[c])
    <3>1. Stored(s)' = Only(Append(events[s], m), Message)
      BY <2>6 DEF Stored
    <3>2. m \in Message
      BY <2>6
    <3> HIDE DEF m
    <3>3. Stored(s)' = Append(Stored(s), m)
      BY <3>1, <3>2, StoredAppend
    <3> QED BY <3>3 DEF m
  <2>8. Len(Stored(s)') + Len(batch'[c]) >= Len(state[c])
    <3>1. Len(Stored(s)') = Len(Stored(s)) + 1
      BY <1>3, <2>6, <2>7
    <3>2. Len(batch'[c]) = Len(batch[c]) - 1 /\ Len(batch[c]) \in Nat
      BY <1>7, <1>12, <2>1
    <3>3. Len(Stored(s)) \in Nat /\ Len(state[c]) \in Nat
      BY <1>3, <1>7, <1>12
    <3> DEFINE x == Len(Stored(s))
               y == Len(batch[c])
               z == Len(state[c])
    <3>4. x + y >= z /\ x \in Nat /\ y \in Nat /\ z \in Nat
      BY <2>2, <3>2, <3>3
    <3>5. Len(Stored(s)') + Len(batch'[c]) = (x + 1) + (y - 1)
      BY <3>1, <3>2
    <3>6. state'[c] = state[c]
      BY <2>1
    <3> HIDE DEF x, y, z
    <3>7. (x + 1) + (y - 1) >= z
      BY <3>4
    <3> QED BY <3>5, <3>6, <3>7 DEF z
  <2>9. ASSUME NEW m \in ToSet(batch'[c]) PROVE m \notin ToSet(events'[s])
    <3>1. PICK n \in (k + 2)..Len(Turn[c]) : m = <<c, n>>
      <4>1. k + 1 \in 0..Len(Turn[c]) /\ (k + 1) + 1 = k + 2
        BY <2>4
      <4> QED BY <2>4, <2>9, <4>1, RestMembers
    <3>2. m # Head(batch[c])
      BY <2>4, <3>1
    <3>3. m \in ToSet(batch[c])
      BY <2>1, NextMessage
    <3>4. ToSet(events'[s]) \subseteq ToSet(events[s]) \cup {Head(batch[c])}
      BY <1>5
    <3> QED BY <2>2, <3>2, <3>3, <3>4
  <2> QED BY <1>12, <2>1, <2>8, <2>9
<1>13. CASE d = c /\ Returns(c)
  <2>1. /\ c \in Writers(s) /\ pc[c] = "write" /\ batch[c] = <<>> /\ session[c] = s
        /\ state'[c] = state[c] /\ pc'[c] \notin Writing
    BY <1>2, <1>7, <1>13 DEF Returns, Writers
  <2>2. Len(Stored(s)) + Len(batch[c]) >= Len(state[c])
    BY <1>2, <2>1 DEF SaveKept
  <2>3. s \in exists /\ Len(batch[c]) = 0
    BY <2>1 DEF Turns
  <2> QED BY <1>3, <1>4, <1>7, <1>13, <2>1, <2>2, <2>3
<1>14. d = c => ~(Opens(c) \/ Refuses(c))
  BY <1>7 DEF Opens, Refuses, Counted
<1> QED BY <1>8, <1>9, <1>10, <1>11, <1>12, <1>13, <1>14 DEF Moves

\* While no call to the API has failed, a session without forks and without messages it
\* cannot carry holds every message at most once, however often and by however many
\* requests it is saved to.
THEOREM SavesRepeatNothing == Spec => []SaveRepeatsNothing
<1>1. Init => SaveKept
  <2> SUFFICES ASSUME Init, NEW s \in Sessions
               PROVE  /\ \A i, j \in DOMAIN events[s] : events[s][i] = events[s][j] => i = j
                      /\ Writers(s) = {}
    BY DEF SaveKept
  <2>1. DOMAIN <<Foreign>> = {1} /\ DOMAIN <<>> = {}
    OBVIOUS
  <2>2. events[s] = <<Foreign>> \/ events[s] = <<>>
    BY DEF Init
  <2>3. \A i, j \in DOMAIN events[s] : i = j
    BY <2>1, <2>2
  <2> QED BY <2>3 DEF Init, Writers
<1>2. Ordered /\ Ordered' /\ SaveKept /\ [Next]_vars => SaveKept'
  BY SaveKeptStep
<1>3. SaveKept => SaveRepeatsNothing
  BY DEF SaveKept, Clean, SaveRepeatsNothing
<1> QED BY <1>1, <1>2, <1>3, OrderedHolds, PTL DEF Spec
=============================================================================
