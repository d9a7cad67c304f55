---------------------------- MODULE ControlClient ----------------------------
(***************************************************************************)
(* The control-mode connection to tmux (internal/tmuxctl): Client.Run sends *)
(* a command, a read loop turns what tmux prints into replies and puts them *)
(* on a channel, and the command's answer is the next reply on it.  Nothing *)
(* but that order ties an answer to its question, so a call that gives up   *)
(* waiting leaves the connection unusable.                                  *)
(*                                                                         *)
(* tmux itself is external: it answers what it reads in order, says things  *)
(* nobody asked for, and may die or fall silent at any moment.              *)
(***************************************************************************)
EXTENDS Naturals, Sequences, FiniteSets

CONSTANTS
    Callers,    \* goroutines that share one Client
    NoCaller,   \* nobody holds Client.mu
    Bodies,     \* what a reply may hold: sequences of Lines
    Buffer,     \* capacity of Client.replies
    MaxSent,    \* bound on the commands written
    MaxChatter  \* bound on the notifications between replies

(* The lines tmux prints, by what the parser makes of them: pane text, a
   terminator of some other block that a pane happens to show, a whitelisted
   notification, and a line longer than the scanner takes. *)
Lines == {"text", "terminator", "notice", "overlong"}

ASSUME ClientAssumption ==
    /\ NoCaller \notin Callers
    /\ Bodies \subseteq Seq(Lines)
    /\ Buffer \in Nat \ {0}
    /\ MaxSent \in Nat
    /\ MaxChatter \in Nat

VARIABLES
    dial,       \* Dial: attaching, up or failed
    stdin,      \* open, closed by Close, or reaped once tmux has been waited for
    tmux,       \* alive or gone
    inbox,      \* the commands written that tmux has not answered
    wire,       \* what tmux has printed that is not parsed yet
    chatter,    \* notifications printed between replies
    said,       \* for each command, the reply tmux gave (empty before)
    parser,     \* outside a block, inside one, or ended
    block,      \* number of the open block
    body,       \* its lines so far
    replies,    \* Client.replies
    desynced,   \* Client.desynced
    mu,         \* holder of Client.mu
    pc,         \* what each caller is doing
    asked,      \* the command each caller has written
    got         \* what each caller's last call returned

tmuxvars == <<tmux, inbox, wire, chatter, said>>
parservars == <<parser, block, body>>
callervars == <<mu, pc, asked, got>>
cvars == <<dial, stdin, tmux, inbox, wire, chatter, said, parser, block, body,
           replies, desynced, mu, pc, asked, got>>

(* The attach is block 0; a command is numbered by the order of writing. *)
Numbers == 0..MaxSent

Reply == [of : Numbers, lines : Seq(Lines), err : BOOLEAN]

Printed ==
    [kind : {"begin", "end", "error"}, num : Numbers]
      \cup [kind : Lines \cup {"exit"}, num : {0}]

Failures == {"closed", "timeout", "desynced", "broken_pipe"}

Sent == Len(said) - 1       \* commands written so far

NotSaid == [of |-> 0, lines |-> <<>>, err |-> FALSE]

(* Besides the types: one caller at a time is past the mutex; and at most   *)
(* one reply waits on the channel beside the one being parsed, so the read  *)
(* loop never waits for room and Close never waits for the read loop.       *)
CTypeOK ==
    /\ dial \in {"attaching", "up", "failed"}
    /\ stdin \in {"open", "closed", "reaped"}
    /\ tmux \in {"alive", "gone"}
    /\ inbox \in Seq(Numbers)
    /\ wire \in Seq(Printed)
    /\ chatter \in 0..MaxChatter
    /\ said \in Seq(Reply) /\ Len(said) \in 1..(MaxSent + 1)
    /\ parser \in {"outside", "inside", "ended"}
    /\ block \in Numbers
    /\ body \in Seq(Lines)
    /\ replies \in Seq(Reply) /\ Len(replies) <= 1
    /\ desynced \in BOOLEAN
    /\ mu \in Callers \cup {NoCaller}
    /\ pc \in [Callers -> {"idle", "lock", "check", "write", "next"}]
    /\ \A c \in Callers : pc[c] \in {"check", "write", "next"} => mu = c
    /\ asked \in [Callers -> Numbers]
    /\ got \in [Callers -> [how : {"answer"} \cup Failures, reply : Reply]]

-----------------------------------------------------------------------------
(* tmux *)

Plain(kind) == [kind |-> kind, num |-> 0]

Framed(n, lines, err) ==
    <<[kind |-> "begin", num |-> n]>>
      \o [i \in DOMAIN lines |-> Plain(lines[i])]
      \o <<[kind |-> IF err THEN "error" ELSE "end", num |-> n]>>

(* tmux answers the oldest command. *)
TmuxAnswers ==
    /\ tmux = "alive"
    /\ inbox # <<>>
    /\ \E lines \in Bodies, err \in BOOLEAN :
          /\ wire' = wire \o Framed(Head(inbox), lines, err)
          /\ said' = [said EXCEPT ![Head(inbox) + 1] =
                         [of |-> Head(inbox), lines |-> lines, err |-> err]]
    /\ inbox' = Tail(inbox)
    /\ UNCHANGED <<dial, stdin, tmux, chatter, parservars, replies, desynced, callervars>>

TmuxChatters ==
    /\ tmux = "alive"
    /\ chatter < MaxChatter
    /\ chatter' = chatter + 1
    /\ wire' = Append(wire, Plain("notice"))
    /\ UNCHANGED <<dial, stdin, tmux, inbox, said, parservars, replies, desynced, callervars>>

(* tmux dies, or its server does: what it had not printed is lost. *)
TmuxDies ==
    /\ tmux = "alive"
    /\ tmux' = "gone"
    /\ \E n \in 0..Len(wire) : wire' = SubSeq(wire, 1, n)
    /\ inbox' = <<>>
    /\ UNCHANGED <<dial, stdin, chatter, said, parservars, replies, desynced, callervars>>

(* At the end of its input tmux takes leave, once it has printed the rest. *)
TmuxExits ==
    /\ tmux = "alive"
    /\ stdin = "closed"
    /\ tmux' = "gone"
    /\ wire' = Append(wire, Plain("exit"))
    /\ inbox' = <<>>
    /\ UNCHANGED <<dial, stdin, chatter, said, parservars, replies, desynced, callervars>>

-----------------------------------------------------------------------------
(* ParseReplies *)

Parsed(where) ==
    /\ parser' = where
    /\ wire' = Tail(wire)
    /\ UNCHANGED <<dial, stdin, tmux, inbox, chatter, said, desynced, callervars>>

ParseOutside ==
    /\ parser = "outside"
    /\ wire # <<>>
    /\ CASE Head(wire).kind = "begin" ->
              /\ block' = Head(wire).num
              /\ body' = <<>>
              /\ Parsed("inside")
         [] Head(wire).kind \in {"exit", "overlong"} ->
              Parsed("ended") /\ UNCHANGED <<block, body>>
         [] OTHER ->
              Parsed("outside") /\ UNCHANGED <<block, body>>
    /\ UNCHANGED replies

Closes(line) == line.kind \in {"end", "error"} /\ line.num = block

(* The terminator of the open block: the reply goes on the channel, and the
   loop waits while that is full. *)
ParseEnd ==
    /\ parser = "inside"
    /\ wire # <<>>
    /\ Closes(Head(wire))
    /\ Len(replies) < Buffer
    /\ replies' = Append(replies, [of |-> block, lines |-> body,
                                   err |-> Head(wire).kind = "error"])
    /\ Parsed("outside")
    /\ UNCHANGED <<block, body>>

(* Mutant: any line that looks like a terminator closes the block. *)
ParseInsideByLooks ==
    /\ parser = "inside"
    /\ wire # <<>>
    /\ ~Closes(Head(wire))
    /\ IF Head(wire).kind = "terminator"
       THEN /\ Len(replies) < Buffer
            /\ replies' = Append(replies, [of |-> block, lines |-> body, err |-> FALSE])
            /\ Parsed("outside")
            /\ UNCHANGED <<block, body>>
       ELSE /\ body' = IF Head(wire).kind = "notice" THEN body
                       ELSE Append(body, Head(wire).kind)
            /\ Parsed("inside")
            /\ UNCHANGED <<block, replies>>

(* Any other line of a block is part of it, but for the notifications. *)
ParseInside ==
    /\ parser = "inside"
    /\ wire # <<>>
    /\ ~Closes(Head(wire))
    /\ IF Head(wire).kind = "overlong"
       THEN Parsed("ended") /\ UNCHANGED body
       ELSE /\ body' = IF Head(wire).kind = "notice" THEN body
                       ELSE Append(body, Head(wire).kind)
            /\ Parsed("inside")
    /\ UNCHANGED <<block, replies>>

(* The end of the stream, inside a block or out of one. *)
ParseEOF ==
    /\ parser # "ended"
    /\ wire = <<>>
    /\ tmux = "gone"
    /\ parser' = "ended"
    /\ UNCHANGED <<dial, stdin, tmuxvars, block, body, replies, desynced, callervars>>

Parse == ParseOutside \/ ParseEnd \/ ParseInside \/ ParseEOF

-----------------------------------------------------------------------------
(* Dial's attach.  Whatever goes wrong, the client is closed. *)

DialUp ==
    /\ dial = "attaching"
    /\ replies # <<>>
    /\ replies' = Tail(replies)
    /\ IF Head(replies).err
       THEN dial' = "failed" /\ stdin' = "closed"
       ELSE dial' = "up" /\ UNCHANGED stdin
    /\ UNCHANGED <<tmuxvars, parservars, desynced, callervars>>

(* Mutant: a failed Dial leaks the client it has started. *)
DialLeaks ==
    /\ dial = "attaching"
    /\ \/ parser = "ended" /\ replies = <<>> /\ UNCHANGED desynced
       \/ desynced' = TRUE
    /\ dial' = "failed"
    /\ UNCHANGED <<stdin, tmuxvars, parservars, replies, callervars>>

DialFails ==
    /\ dial = "attaching"
    /\ \/ parser = "ended" /\ replies = <<>> /\ UNCHANGED desynced
       \/ desynced' = TRUE
    /\ dial' = "failed"
    /\ stdin' = "closed"
    /\ UNCHANGED <<tmuxvars, parservars, replies, callervars>>

-----------------------------------------------------------------------------
(* Client.Run *)

Returns(c, how, reply) ==
    /\ got' = [got EXCEPT ![c] = [how |-> how, reply |-> reply]]
    /\ pc' = [pc EXCEPT ![c] = "idle"]
    /\ mu' = NoCaller
    /\ UNCHANGED asked

Call(c) ==
    /\ dial = "up"
    /\ stdin = "open"
    /\ pc[c] = "idle"
    /\ Sent + Cardinality({q \in Callers : pc[q] \in {"lock", "check", "write"}}) < MaxSent
    /\ pc' = [pc EXCEPT ![c] = "lock"]
    /\ UNCHANGED <<dial, stdin, tmuxvars, parservars, replies, desynced, mu, asked, got>>

Lock(c) ==
    /\ pc[c] = "lock"
    /\ mu = NoCaller
    /\ mu' = c
    /\ pc' = [pc EXCEPT ![c] = "check"]
    /\ UNCHANGED <<dial, stdin, tmuxvars, parservars, replies, desynced, asked, got>>

(* Mutant: the early return forgets the mutex. *)
CheckKeepsMutex(c) ==
    /\ pc[c] = "check"
    /\ IF desynced
       THEN /\ got' = [got EXCEPT ![c] = [how |-> "desynced", reply |-> NotSaid]]
            /\ pc' = [pc EXCEPT ![c] = "idle"]
            /\ UNCHANGED <<mu, asked>>
       ELSE pc' = [pc EXCEPT ![c] = "write"] /\ UNCHANGED <<mu, asked, got>>
    /\ UNCHANGED <<dial, stdin, tmuxvars, parservars, replies, desynced>>

Check(c) ==
    /\ pc[c] = "check"
    /\ IF desynced
       THEN Returns(c, "desynced", NotSaid)
       ELSE pc' = [pc EXCEPT ![c] = "write"] /\ UNCHANGED <<mu, asked, got>>
    /\ UNCHANGED <<dial, stdin, tmuxvars, parservars, replies, desynced>>

Write(c) ==
    /\ pc[c] = "write"
    /\ IF tmux = "alive"
       THEN /\ said' = Append(said, NotSaid)
            /\ inbox' = Append(inbox, Sent + 1)
            /\ asked' = [asked EXCEPT ![c] = Sent + 1]
            /\ pc' = [pc EXCEPT ![c] = "next"]
            /\ UNCHANGED <<tmux, wire, chatter, mu, got>>
       ELSE Returns(c, "broken_pipe", NotSaid) /\ UNCHANGED tmuxvars
    /\ UNCHANGED <<dial, stdin, parservars, replies, desynced>>

NextReply(c) ==
    /\ pc[c] = "next"
    /\ replies # <<>>
    /\ replies' = Tail(replies)
    /\ Returns(c, "answer", Head(replies))
    /\ UNCHANGED <<dial, stdin, tmuxvars, parservars, desynced>>

NextClosed(c) ==
    /\ pc[c] = "next"
    /\ replies = <<>>
    /\ parser = "ended"
    /\ Returns(c, "closed", NotSaid)
    /\ UNCHANGED <<dial, stdin, tmuxvars, parservars, replies, desynced>>

(* Mutant: a cancelled call leaves the connection in use. *)
NextCancelledOnly(c) ==
    /\ pc[c] = "next"
    /\ Returns(c, "timeout", NotSaid)
    /\ UNCHANGED <<dial, stdin, tmuxvars, parservars, replies, desynced>>

(* The caller's context is done, be a reply there or not. *)
NextTimeout(c) ==
    /\ pc[c] = "next"
    /\ desynced' = TRUE
    /\ Returns(c, "timeout", NotSaid)
    /\ UNCHANGED <<dial, stdin, tmuxvars, parservars, replies>>

Next1(c) == NextReply(c) \/ NextClosed(c) \/ NextTimeout(c)

-----------------------------------------------------------------------------
(* Client.Close, by whoever dialled, when no call is running. *)

Close ==
    /\ dial = "up"
    /\ stdin = "open"
    /\ \A c \in Callers : pc[c] = "idle"
    /\ stdin' = "closed"
    /\ UNCHANGED <<dial, tmuxvars, parservars, replies, desynced, callervars>>

(* cmd.Wait, in Close or in a Dial that failed. *)
Reap ==
    /\ stdin = "closed"
    /\ tmux = "gone"
    /\ stdin' = "reaped"
    /\ UNCHANGED <<dial, tmuxvars, parservars, replies, desynced, callervars>>

-----------------------------------------------------------------------------
CInit ==
    /\ dial = "attaching" /\ stdin = "open"
    /\ tmux = "alive" /\ inbox = <<0>> /\ wire = <<>> /\ chatter = 0
    /\ said = <<NotSaid>>
    /\ parser = "outside" /\ block = 0 /\ body = <<>>
    /\ replies = <<>> /\ desynced = FALSE
    /\ mu = NoCaller
    /\ pc = [c \in Callers |-> "idle"]
    /\ asked = [c \in Callers |-> 0]
    /\ got = [c \in Callers |-> [how |-> "closed", reply |-> NotSaid]]

Tmux == TmuxAnswers \/ TmuxChatters \/ TmuxDies \/ TmuxExits

Run(c) == Lock(c) \/ Check(c) \/ Write(c) \/ Next1(c)

CNext ==
    \/ Tmux \/ Parse \/ DialUp \/ DialFails \/ Close \/ Reap
    \/ \E c \in Callers : Call(c) \/ Run(c)

CSpec == CInit /\ [][CNext]_cvars

(* The read loop and the callers go on, sync.Mutex starves nobody, every
   caller's context has a deadline, and a client that is closed is waited
   for.  tmux owes nothing but to leave when its input ends, and that only
   while somebody reads what it prints: a read loop that an overlong
   line stopped, or that waits for room on Client.replies, may leave tmux
   writing to a full pipe for ever. *)
CFairness ==
    /\ WF_cvars(Parse)
    /\ WF_cvars(DialUp \/ DialFails)
    /\ \A c \in Callers :
          /\ WF_cvars(Check(c) \/ Write(c) \/ Next1(c))
          /\ SF_cvars(Lock(c))
    /\ WF_cvars(wire = <<>> /\ parser # "ended" /\ TmuxExits)
    /\ WF_cvars(Reap)

CFairSpec == CSpec /\ CFairness

-----------------------------------------------------------------------------
(* What is left of the first lines of a reply without the notifications. *)
HeardUpTo(lines) ==
    LET heard[i \in 0..Len(lines)] ==
            IF i = 0 THEN <<>>
            ELSE IF lines[i] = "notice" THEN heard[i - 1]
            ELSE Append(heard[i - 1], lines[i])
    IN  heard

Heard(lines) == HeardUpTo(lines)[Len(lines)]

(* A call that returns lines, or tmux's error, returns the answer to the    *)
(* command it wrote, whole and with nothing in it that tmux said unasked;    *)
(* the late answer to a call that gave up is nobody's.                      *)
OwnAnswer ==
    \A c \in Callers : (pc[c] = "idle" /\ got[c].how = "answer") =>
        LET answer == said[asked[c] + 1]
        IN  got[c].reply = [answer EXCEPT !.lines = Heard(@)]

(* Every call returns, whatever tmux does. *)
CallReturns == \A c \in Callers : pc[c] # "idle" ~> pc[c] = "idle"

(* Nobody reads what tmux prints: ParseReplies stopped at an overlong line. *)
Deaf == parser = "ended" /\ tmux = "alive"

(* A client that is closed, or whose Dial failed, is reaped, unless its read *)
(* loop has stopped under a tmux that lives: cmd.Wait then has no promise    *)
(* that tmux ever leaves.  While the loop reads it never waits for good on a *)
(* reply that nobody takes, or tmux's last words would never be drained.     *)
ClosedIsReaped ==
    (dial = "failed" \/ stdin = "closed") ~> (stdin = "reaped" \/ Deaf)
=============================================================================
