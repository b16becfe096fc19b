------------------------------- MODULE Server -------------------------------
(***************************************************************************)
(* The threads of gb10-server: one per connection, which writes a response *)
(* to its socket, and the scheduler, which takes jobs off one channel,     *)
(* forms groups of at most `slots` and serves them.  A connection sends    *)
(* its job into the channel and reads the job's own channel until it hears *)
(* Done or Fail, or until the scheduler drops the sending end.             *)
(*                                                                         *)
(* What run_group does for a group is GreedyServe, which Engine implements;*)
(* here its steps are joined to the messages they send.                    *)
(***************************************************************************)
EXTENDS ThinkGate, SequencesExt

CONSTANTS
    Client,      \* the connections
    Asks,        \* what a client may ask: [req, route, stream] records
    Text,        \* the piece each token decodes to
    NSeq,        \* the most slots a start-up resolves to
    Ctx, Requests, EosTokens, Greedy,  \* as in Engine
    MayDrop,     \* whether a group may end in an error
    Attentive    \* the clients that read what they are sent

ASSUME ServeAssumption ==
    /\ NSeq \in Nat \ {0} /\ Ctx \in Nat
    /\ EosTokens \subseteq DOMAIN Text
    /\ Greedy \in [UNION {[1 .. n -> DOMAIN Text] : n \in 0 .. Ctx} -> DOMAIN Text]
    /\ \A r \in Requests : r.prompt \in Seq(DOMAIN Text) /\ r.max \in Nat

ASSUME ClientAssumption ==
    /\ Attentive \subseteq Client
    /\ \A a \in Asks : /\ a.req \in Requests
                       /\ a.route \in {"completions", "chat", "messages", "health", "models",
                                        "not_found", "not_allowed", "malformed"}
                       /\ a.stream \in BOOLEAN

VARIABLES
    ask,      \* client -> its Ask
    at,       \* client -> where its connection thread is
    todo,     \* client -> the writes it has still to make
    wire,     \* client -> what has reached it, the deltas of its text apart
    shown,    \* client -> the text of the deltas that have reached it
    here,     \* client -> still connected
    gate,     \* client -> the ThinkGate of its stream
    inbox,    \* client -> the job's channel
    sender,   \* client -> the sending end of that channel exists
    jobs,     \* the job channel
    slots,    \* the sequence slots the start-up resolved
    sched,    \* where the scheduler thread is
    members,  \* the clients of the group, by slot from 1
    lost,     \* history: the clients whose group ended in an error
    group, refused, ids, outcome   \* GreedyServe's: what run_group does

connVars == <<ask, at, todo, wire, shown, here, gate>>
engineVars == <<group, refused, ids, outcome>>
schedVars == <<sched, members, lost, engineVars>>
vars == <<connVars, inbox, sender, jobs, slots, schedVars>>

Serve == INSTANCE GreedyServe

Token(p) == <<"token", p>>
Done(t) == <<"done", t>>
Fail == <<"fail", << >> >>

\* What is written of a response: named events, some with a text.
Events(names) == [i \in 1 .. Len(names) |-> <<names[i], << >> >>]
Delta(t) == <<"delta", t>>
IsDelta(e) == e[1] = "delta"

Opening(a) ==
    Events(IF ~a.stream THEN << >>
           ELSE CASE a.route = "completions" -> <<"head">>
                  [] a.route = "chat"        -> <<"head", "role">>
                  [] a.route = "messages"    -> <<"head", "message_start", "block_start">>)

Closing(a) ==
    Events(IF a.route = "messages"
           THEN <<"block_stop", "message_delta", "message_stop", "end">>
           ELSE <<"finish", "[DONE]", "end">>)

Errors(a) == Events(IF a.stream THEN <<"error", "end">> ELSE <<"json500">>)

\* The response of a request that does not stream.
Whole(t) == << <<"json", visible(t)>> >>

\* The routes answered by the connection thread itself: /health, /v1/models, the
\* errors of the router, and a body that is not the JSON its route wants.
Static(a) == a.route \notin {"completions", "chat", "messages"}
StaticReply(a) ==
    Events(CASE a.route = "health"      -> <<"head", "ok">>
             [] a.route = "models"      -> <<"json200">>
             [] a.route = "not_found"   -> <<"json404">>
             [] a.route = "not_allowed" -> <<"json405">>
             [] a.route = "malformed"   -> <<"json500">>)

TypeOK ==
    /\ \A c \in Client : at[c] \in {"opening", "waiting", "closing"} => ask[c] \in Asks
    /\ at \in [Client -> {"absent", "opening", "waiting", "closing", "closed"}]
    /\ \A c \in Client : inbox[c] # << >> => at[c] = "waiting"
    /\ \A c \in Client : todo[c] # << >> => at[c] \in {"opening", "waiting", "closing"}
    /\ DOMAIN ask = Client /\ DOMAIN todo = Client /\ DOMAIN wire = Client
    /\ DOMAIN shown = Client /\ DOMAIN gate = Client /\ DOMAIN inbox = Client
    /\ here \in [Client -> BOOLEAN]
    /\ sender \in [Client -> BOOLEAN]
    /\ jobs \in Seq(Client)
    /\ sched \in {"recv", "window", "serve", "deliver"}
    /\ slots \in 1 .. NSeq /\ Len(members) <= slots
    /\ lost \subseteq Client

Init ==
    /\ ask = [c \in Client |-> << >>]
    /\ at = [c \in Client |-> "absent"]
    /\ todo = [c \in Client |-> << >>]
    /\ wire = [c \in Client |-> << >>]
    /\ shown = [c \in Client |-> << >>]
    /\ here = [c \in Client |-> TRUE]
    /\ gate = [c \in Client |-> NewGate]
    /\ inbox = [c \in Client |-> << >>]
    /\ sender = [c \in Client |-> FALSE]
    /\ jobs = << >>
    /\ slots \in 1 .. NSeq
    /\ sched = "recv"
    /\ members = << >>
    /\ lost = {}
    /\ Serve!Init

-----------------------------------------------------------------------------
(* A connection thread *)

\* The connection ends before a whole request was read: nothing is answered.
NoRequest(c) ==
    /\ at[c] = "absent"
    /\ at' = [at EXCEPT ![c] = "closed"]
    /\ here' = [here EXCEPT ![c] = FALSE]
    /\ UNCHANGED <<ask, todo, wire, shown, gate, inbox, sender, jobs, slots, schedVars>>

\* A request has been read; a stream's head and first events come before the job.
Accept(c) ==
    /\ at[c] = "absent"
    /\ \E a \in Asks :
        /\ ask' = [ask EXCEPT ![c] = a]
        /\ todo' = [todo EXCEPT ![c] = IF Static(a) THEN StaticReply(a) ELSE Opening(a)]
        /\ at' = [at EXCEPT ![c] = IF Static(a) THEN "closing" ELSE "opening"]
    /\ UNCHANGED <<wire, shown, here, gate, inbox, sender, jobs, slots, schedVars>>

\* A write to the socket.  What is written to a client that left is lost.
Write(c) ==
    /\ todo[c] # << >>
    /\ todo' = [todo EXCEPT ![c] = Tail(@)]
    /\ LET e == Head(todo[c])
       IN /\ wire' = IF here[c] /\ ~IsDelta(e) THEN [wire EXCEPT ![c] = Append(@, e)] ELSE wire
          /\ shown' = IF here[c] /\ IsDelta(e) THEN [shown EXCEPT ![c] = @ \o e[2]] ELSE shown
    /\ UNCHANGED <<ask, at, here, gate, inbox, sender, jobs, schedVars>>

\* A write fails: every `?` on the way out is taken, the receiver is dropped and
\* the error response fails too.
WriteFails(c) ==
    /\ todo[c] # << >>
    /\ ~here[c]
    /\ todo' = [todo EXCEPT ![c] = << >>]
    /\ at' = [at EXCEPT ![c] = "closed"]
    /\ inbox' = [inbox EXCEPT ![c] = << >>]
    /\ UNCHANGED <<ask, wire, shown, here, gate, sender, jobs, schedVars>>

HangUp(c) ==
    /\ at[c] \notin {"absent", "closed"}
    /\ here[c]
    /\ here' = [here EXCEPT ![c] = FALSE]
    /\ UNCHANGED <<ask, at, todo, wire, shown, gate, inbox, sender, jobs, slots, schedVars>>

\* remote_generate sends the job.
Submit(c) ==
    /\ at[c] = "opening"
    /\ todo[c] = << >>
    /\ jobs' = Append(jobs, c)
    /\ sender' = [sender EXCEPT ![c] = TRUE]
    /\ at' = [at EXCEPT ![c] = "waiting"]
    /\ UNCHANGED <<ask, todo, wire, shown, here, gate, inbox, schedVars>>

Reading(c) == at[c] = "waiting" /\ todo[c] = << >>

Deltas(out) == [i \in 1 .. Len(out) |-> Delta(out[i])]

\* Msg::Token: a stream passes it through its gate, a whole response ignores it.
HearToken(c) ==
    /\ Reading(c)
    /\ inbox[c] # << >>
    /\ \E p \in {Text[t] : t \in DOMAIN Text} :
        /\ Head(inbox[c]) = Token(p)
        /\ IF ask[c].stream
           THEN /\ gate' = [gate EXCEPT ![c] = push(gate[c], p).gate]
                /\ todo' = [todo EXCEPT ![c] = Deltas(push(gate[c], p).out)]
           ELSE UNCHANGED <<gate, todo>>
    /\ inbox' = [inbox EXCEPT ![c] = Tail(@)]
    /\ UNCHANGED <<ask, at, wire, shown, here, sender, jobs, schedVars>>

\* A build that closes the stream before it flushes the gate.
EndsWithLateFlush(c, last) ==
    /\ at' = [at EXCEPT ![c] = "closing"]
    /\ inbox' = [inbox EXCEPT ![c] = << >>]
    /\ todo' = [todo EXCEPT ![c] =
                    last \o (IF ask[c].stream THEN Deltas(flush(gate[c])) ELSE << >>)]
    /\ UNCHANGED <<ask, wire, shown, here, gate, sender, jobs, schedVars>>

EndsWith(c, last) ==
    /\ at' = [at EXCEPT ![c] = "closing"]
    /\ inbox' = [inbox EXCEPT ![c] = << >>]
    /\ todo' = [todo EXCEPT ![c] =
                    (IF ask[c].stream THEN Deltas(flush(gate[c])) ELSE << >>) \o last]
    /\ UNCHANGED <<ask, wire, shown, here, gate, sender, jobs, schedVars>>

\* Msg::Done: its GenResult holds the whole text.
HearDone(c) ==
    /\ Reading(c)
    /\ inbox[c] # << >>
    /\ Head(inbox[c])[1] = "done"
    /\ EndsWith(c, IF ask[c].stream THEN Closing(ask[c])
                   ELSE Whole(Head(inbox[c])[2]))

\* A build that looks at the sender before it has read what was sent.
HearFailEarly(c) ==
    /\ Reading(c)
    /\ ~sender[c] \/ (inbox[c] # << >> /\ Head(inbox[c]) = Fail)
    /\ EndsWith(c, Errors(ask[c]))

\* Msg::Fail, or the sender was dropped with nothing left to read.
HearFail(c) ==
    /\ Reading(c)
    /\ IF inbox[c] = << >> THEN ~sender[c] ELSE Head(inbox[c]) = Fail
    /\ EndsWith(c, Errors(ask[c]))

Close(c) ==
    /\ at[c] = "closing"
    /\ todo[c] = << >>
    /\ at' = [at EXCEPT ![c] = "closed"]
    /\ UNCHANGED <<ask, todo, wire, shown, here, gate, inbox, sender, jobs, schedVars>>

Connection(c) ==
    /\ \/ Write(c) \/ WriteFails(c) \/ Submit(c) \/ Close(c)
       \/ HearToken(c) \/ HearDone(c) \/ HearFail(c)
    /\ UNCHANGED slots

-----------------------------------------------------------------------------
(* The scheduler thread *)

\* `let _ = job.out.send(..)`: lost when the connection has dropped its receiver.
Post(c, m) ==
    inbox' = IF at[c] = "waiting" THEN [inbox EXCEPT ![c] = Append(@, m)] ELSE inbox

\* rx.recv: block for one.
TakeFirst ==
    /\ sched = "recv"
    /\ jobs # << >>
    /\ members' = <<Head(jobs)>>
    /\ jobs' = Tail(jobs)
    /\ sched' = "window"
    /\ UNCHANGED <<connVars, inbox, sender, engineVars, lost>>

\* A build that compares the group's size one job late.
TakeWaitingLate ==
    /\ sched = "window"
    /\ Len(members) <= slots
    /\ jobs # << >>
    /\ members' = Append(members, Head(jobs))
    /\ jobs' = Tail(jobs)
    /\ UNCHANGED <<connVars, inbox, sender, sched, engineVars, lost>>

\* rx.try_recv: after the batching window, whatever else is waiting.
TakeWaiting ==
    /\ sched = "window"
    /\ Len(members) < slots
    /\ jobs # << >>
    /\ members' = Append(members, Head(jobs))
    /\ jobs' = Tail(jobs)
    /\ UNCHANGED <<connVars, inbox, sender, sched, engineVars, lost>>

StartGroup ==
    /\ sched = "window"
    /\ Len(members) >= slots \/ jobs = << >>
    /\ sched' = "serve"
    /\ Serve!Accept
    /\ group' = [s \in 0 .. Len(members) - 1 |-> ask[members[s + 1]].req]
    /\ UNCHANGED <<connVars, inbox, sender, jobs, members, lost>>

RefuseJob(s) ==
    /\ sched = "serve"
    /\ Serve!Refuse(s)
    /\ Post(members[s + 1], Fail)
    /\ UNCHANGED <<connVars, sender, jobs, sched, members, lost>>

EmitToken(s) ==
    /\ sched = "serve"
    /\ Serve!Emit(s)
    /\ Post(members[s + 1], Token(Text[Serve!NextOf(s)]))
    /\ UNCHANGED <<connVars, sender, jobs, sched, members, lost>>

GroupDone ==
    /\ sched = "serve"
    /\ Serve!Deliver
    /\ sched' = "deliver"
    /\ UNCHANGED <<connVars, inbox, sender, jobs, members, lost>>

\* The text of an answer, as run_group gathers it.
Gathered(ts) == FoldLeft(LAMBDA acc, t : acc \o Text[t], << >>, ts)

\* A build that answers the group's first job alone and keeps the others' senders.
SendDoneToFirst ==
    /\ sched = "deliver"
    /\ LET s == Cardinality(DOMAIN group) - Len(members)
       IN IF s = 0
          THEN /\ Post(Head(members), Done(Gathered(ids[s])))
               /\ sender' = [sender EXCEPT ![Head(members)] = FALSE]
          ELSE UNCHANGED <<inbox, sender>>
    /\ members' = Tail(members)
    /\ sched' = IF Len(members) = 1 THEN "recv" ELSE "deliver"
    /\ UNCHANGED <<connVars, jobs, engineVars, lost>>

\* Msg::Done to the jobs in slot order, the refused ones too; each job goes with it.
SendDone ==
    /\ sched = "deliver"
    /\ LET s == Cardinality(DOMAIN group) - Len(members)
       IN Post(Head(members), Done(Gathered(ids[s])))
    /\ sender' = [sender EXCEPT ![Head(members)] = FALSE]
    /\ members' = Tail(members)
    /\ sched' = IF Len(members) = 1 THEN "recv" ELSE "deliver"
    /\ UNCHANGED <<connVars, jobs, engineVars, lost>>

\* A build that keeps the jobs of a group that failed.
DropKeepsJobs ==
    /\ sched = "serve"
    /\ Serve!Drop
    /\ lost' = lost \union Range(members)
    /\ members' = << >>
    /\ sched' = "recv"
    /\ UNCHANGED <<connVars, inbox, jobs, sender>>

\* A build that delivers what there is of an answer when the group fails.
DropDelivers ==
    /\ sched = "serve"
    /\ Serve!Drop
    /\ lost' = lost \union Range(members)
    /\ inbox' = [c \in Client |->
                    IF c \in Range(members) /\ at[c] = "waiting"
                    THEN Append(inbox[c], Done(<< >>)) ELSE inbox[c]]
    /\ sender' = [c \in Client |-> sender[c] /\ c \notin Range(members)]
    /\ members' = << >>
    /\ sched' = "recv"
    /\ UNCHANGED <<connVars, jobs>>

\* run_group returns an error: the jobs are dropped and with them their senders.
GroupDropped ==
    /\ sched = "serve"
    /\ Serve!Drop
    /\ lost' = lost \union Range(members)
    /\ sender' = [c \in Client |-> sender[c] /\ c \notin Range(members)]
    /\ members' = << >>
    /\ sched' = "recv"
    /\ UNCHANGED <<connVars, inbox, jobs>>

Scheduler ==
    /\ \/ TakeFirst \/ TakeWaiting \/ StartGroup
       \/ \E s \in DOMAIN group : RefuseJob(s) \/ EmitToken(s)
       \/ GroupDone \/ SendDone \/ GroupDropped
    /\ UNCHANGED slots

Next ==
    \/ \E c \in Client : Accept(c) \/ NoRequest(c) \/ HangUp(c) \/ Connection(c)
    \/ Scheduler

\* The scheduler runs; a connection thread runs unless its client stops reading,
\* when its write blocks for as long as the client pleases.
Spec ==
    /\ Init /\ [][Next]_vars
    /\ WF_vars(Scheduler)
    /\ \A c \in Attentive : WF_vars(Connection(c))

-----------------------------------------------------------------------------
(* Properties *)

\* The greedy continuation of r's prompt by itself, after n turns.
Sequel(r) ==
    LET f[n \in 0 .. Serve!Quota(r)] ==
            IF n = 0 THEN << >>
            ELSE LET t == Greedy[r.prompt \o f[n - 1]]
                 IN IF t \in EosTokens THEN f[n - 1] ELSE Append(f[n - 1], t)
    IN f

Answer(r) == Sequel(r)[Serve!Quota(r)]

\* The text shown so far, with what a call of the gate yields.
Shows(text, out) == IF out = << >> THEN text ELSE text \o out[1]

\* A gate and the text it has let through, after n pieces of the tokens ts.
Fed(ts) ==
    LET f[n \in 0 .. Len(ts)] ==
            IF n = 0 THEN [gate |-> NewGate, text |-> << >>]
            ELSE LET p == push(f[n - 1].gate, Text[ts[n]])
                 IN [gate |-> p.gate, text |-> Shows(f[n - 1].text, p.out)]
    IN f

\* The text a stream shows that ends after n of the tokens ts.
Streamed(ts, n) == Shows(Fed(ts)[n].text, flush(Fed(ts)[n].gate))

Refused(c) == wire[c] = Opening(ask[c]) \o Errors(ask[c]) /\ shown[c] = << >>

Completed(c) ==
    LET tokens == Answer(ask[c].req)
    IN IF ask[c].stream
       THEN /\ wire[c] = Opening(ask[c]) \o Closing(ask[c])
            /\ shown[c] = Streamed(tokens, Len(tokens))
       ELSE wire[c] = Whole(Gathered(tokens)) /\ shown[c] = << >>

BrokenOff(c) ==
    /\ wire[c] = Opening(ask[c]) \o Errors(ask[c])
    /\ \E n \in 0 .. Len(Answer(ask[c].req)) :
          shown[c] = IF ask[c].stream THEN Streamed(Answer(ask[c].req), n) ELSE << >>

\* A client that stays gets one well-formed response, and it is that of its own
\* request: the text is what the engine would say to it alone, whatever shared
\* its group, queued before it, was refused, hung up or stopped reading.  When
\* its group ends in an error the response is broken off, never completed.
OwnAnswer ==
    \A c \in Client : at[c] = "closed" /\ here[c] =>
        IF Static(ask[c]) THEN wire[c] = StaticReply(ask[c]) /\ shown[c] = << >>
        ELSE IF Serve!TooLong(ask[c].req) THEN Refused(c)
        ELSE IF c \in lost THEN BrokenOff(c)
        ELSE Completed(c)

\* Text reaches a client only between the opening of its response and the close.
TextInPlace == [][\A c \in Client : shown'[c] # shown[c] => wire[c] = Opening(ask[c])]_vars

\* A client that reads is answered, whatever the others do with their sockets.
Answered == \A c \in Attentive : at[c] \in {"opening", "closing"} ~> at[c] = "closed"
=============================================================================
