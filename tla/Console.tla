------------------------------ MODULE Console -------------------------------
(***************************************************************************)
(* The serial console of one VM: console.go, the console handlers of       *)
(* api.go, and what Start, Stop and Reboot of runtime.go do with it.       *)
(*                                                                         *)
(* Output is a sequence of units that the guest numbers; a unit is what    *)
(* one cell of the ring holds. Readers are the goroutines that Attach      *)
(* starts. One waits in file.Read until there is output, and sees that it  *)
(* was cancelled only after that: the runtime keeps the write end of the   *)
(* FIFO open, so Detach wakes nobody, and a cancelled reader may take      *)
(* output beside the next one.                                             *)
(***************************************************************************)
EXTENDS Naturals, Sequences, FiniteSets

CONSTANTS
    Reader,     \* readers that can be started before the runtime restarts
    Client,     \* WebSocket requests
    Token,      \* console tokens
    RingSize,   \* cells of the ring
    Chunk,      \* units that one file.Read returns at most
    MaxOutput,  \* bound: units that the guest writes
    None

ASSUME ConsoleAssumption ==
    /\ RingSize \in Nat \ {0} /\ Chunk \in 1 .. RingSize
    /\ MaxOutput \in Nat /\ None \notin Reader \cup Token

VARIABLES
    \* the guest and its serial output
    guest,      \* Firecracker: "off", "on", or "leaving": told to die, not yet gone
    emitted,    \* the last unit that the guest has written
    fifo,       \* units in the FIFO
    writer,     \* the runtime has opened the FIFO for writing
    \* the operation in flight
    op,
    \* Console
    current,    \* the reader that console.cancel cancels, or None
    logFile,    \* console.logFile is open
    log,        \* the units that this runtime has added to console.log
    ring, position, wrapped,
    connections,
    \* readers
    rpc, held, targets,
    cancelled,  \* the readers whose context is done
    \* console tokens and WebSocket requests
    tokens,     \* "none", "held" in api.tokens, or "deleted"
    expired,    \* the tokens that are 60 seconds old
    cpc,
    shown,      \* the token that a request has presented
    history,    \* a copy of the ring, still to be sent
    unsent,     \* how many cells at the end of the ring itself are still to be sent
    \* history variables
    stored,     \* the units that went into the ring, in their order
    received,   \* the units that an open client was sent
    admitted,   \* the requests that each token has let in
    torn,       \* the clients whose history was overwritten before it was sent
    lingered    \* a reader was started while a cancelled one was still there

output  == <<guest, emitted, fifo, writer>>
buffer  == <<ring, position, wrapped, stored>>
logging == <<logFile, log>>
readers == <<rpc, held, targets, cancelled>>
api     == <<tokens, expired, shown, admitted>>
sending == <<history, unsent, received>>
clients == <<api, cpc, sending, connections>>
vars    == <<output, op, current, buffer, logging, readers, clients, lingered, torn>>

Unit  == 1 .. MaxOutput
Cell  == 0 .. MaxOutput
Point == {"none", "select", "read", "ring", "log", "send", "gone", "failed"}

TypeOK ==
    /\ guest \in {"off", "on", "leaving"} /\ writer \in BOOLEAN /\ wrapped \in BOOLEAN
    /\ logFile \in BOOLEAN /\ lingered \in BOOLEAN
    /\ emitted \in Cell
    /\ fifo \in Seq(Unit) /\ log \in Seq(Unit) /\ stored \in Seq(Unit)
    /\ op \in {"idle", "spawn", "halt", "redetach", "restart"}
    /\ current \in Reader \cup {None}
    /\ ring \in [1 .. RingSize -> Cell]
    /\ position \in 0 .. RingSize - 1
    /\ connections \subseteq Client
    /\ rpc \in [Reader -> Point]
    /\ held \in [Reader -> Seq(Unit)]
    /\ \A r \in Reader : held[r] # <<>> <=> rpc[r] \in {"ring", "log", "send"}
    /\ targets \in [Reader -> SUBSET Client]
    /\ cancelled \subseteq Reader
    /\ tokens \in [Token -> {"none", "held", "deleted"}] /\ expired \subseteq Token
    /\ cpc \in [Client -> {"out", "check", "add", "readring", "send", "open", "closed"}]
    /\ shown \in [Client -> Token \cup {None}]
    /\ history \in [Client -> Seq(Cell)] /\ unsent \in [Client -> 0 .. RingSize]
    /\ received \in [Client -> SUBSET Cell]
    /\ admitted \in [Token -> SUBSET Client] /\ torn \subseteq Client

Init ==
    /\ guest = "off" /\ emitted = 0 /\ fifo = <<>> /\ writer = FALSE
    /\ op = "idle"
    /\ current = None
    /\ logFile = FALSE /\ log = <<>>
    /\ ring = [i \in 1 .. RingSize |-> 0] /\ position = 0 /\ wrapped = FALSE
    /\ stored = <<>>
    /\ rpc = [r \in Reader |-> "none"]
    /\ held = [r \in Reader |-> <<>>]
    /\ targets = [r \in Reader |-> {}]
    /\ cancelled = {}
    /\ tokens = [t \in Token |-> "none"] /\ expired = {}
    /\ cpc = [c \in Client |-> "out"] /\ shown = [c \in Client |-> None]
    /\ history = [c \in Client |-> <<>>] /\ unsent = [c \in Client |-> 0]
    /\ connections = {}
    /\ received = [c \in Client |-> {}]
    /\ admitted = [t \in Token |-> {}]
    /\ lingered = FALSE /\ torn = {}

\* A new goroutine or request gets the first name that is free: which one it is
\* makes no difference.
FreeReader == CHOOSE r \in Reader : rpc[r] = "none"
FreeClient == CHOOSE c \in Client : cpc[c] = "out"

-----------------------------------------------------------------------------
(* The guest.                                                              *)

\* The readers that have the FIFO open.
Live == {r \in Reader : rpc[r] \notin {"none", "gone", "failed"}}

\* A write that nobody could read fails with EPIPE, and is lost.
Emit ==
    /\ guest # "off" /\ emitted < MaxOutput
    /\ emitted' = emitted + 1
    /\ fifo' = IF Live = {} THEN fifo ELSE Append(fifo, emitted + 1)
    /\ UNCHANGED <<guest, writer, op, current, buffer, logging, readers, clients, lingered, torn>>

\* It shuts down or crashes, or the process that Stop left behind is gone.
Exit ==
    /\ guest # "off"
    /\ guest' = "off"
    /\ UNCHANGED <<emitted, fifo, writer, op, current, buffer, logging, readers, clients,
                   lingered, torn>>

-----------------------------------------------------------------------------
(* Start, Stop and Reboot, one at a time.                                  *)

\* A faulty Attached: attaches again when a console is attached.
MutantAttached(from) ==
    /\ op = from /\ op' = "spawn"
    /\ \E r \in Reader :
          /\ rpc[r] = "none" /\ r = FreeReader
          /\ rpc' = [rpc EXCEPT ![r] = "select"]
          /\ current' = r
    /\ lingered' = (lingered \/ Live \cap cancelled # {})
    /\ logFile' = TRUE
    /\ UNCHANGED <<output, buffer, log, held, targets, cancelled, clients, torn>>

\* Start attaches, unless console.cancel is set: console.log is opened, and a
\* new goroutine reads the FIFO. Start goes on when that fails.
Attached(from) ==
    /\ op = from /\ op' = "spawn"
    /\ \/ /\ current = None
          /\ \E r \in Reader :
                /\ rpc[r] = "none" /\ r = FreeReader
                /\ rpc' = [rpc EXCEPT ![r] = "select"]
                /\ current' = r
          /\ lingered' = (lingered \/ Live \cap cancelled # {})
          /\ logFile' = TRUE
       \/ UNCHANGED <<rpc, current, lingered, logFile>>
    /\ UNCHANGED <<output, buffer, log, held, targets, cancelled, clients, torn>>

\* Console.Detach cancels the context and closes console.log.
Detached ==
    /\ cancelled' = IF current = None THEN cancelled ELSE cancelled \cup {current}
    /\ current' = None
    /\ logFile' = FALSE
    /\ UNCHANGED <<log, rpc, held, targets>>

Start == Attached("idle")

\* startProcess opens the FIFO for writing, which needs a reader.
Spawn ==
    /\ op = "spawn" /\ op' = "idle"
    /\ guest = "on" \/ Live # {}
    /\ guest' = "on"
    /\ writer' = TRUE
    /\ UNCHANGED <<emitted, fifo, current, buffer, logging, readers, clients, lingered, torn>>

\* The first start or the boot fails, with or without the FIFO opened; a boot
\* request that failed here may have started the guest all the same.
StartFails ==
    /\ op = "spawn" /\ op' = "idle"
    /\ guest # "on"
    /\ \/ UNCHANGED <<guest, writer>>
       \/ Live # {} /\ guest' \in {guest, "on"} /\ writer' = TRUE
    /\ Detached
    /\ UNCHANGED <<emitted, fifo, buffer, clients, lingered, torn>>

\* Stop detaches, and then halts the guest, ...
Stop ==
    /\ op = "idle" /\ op' = "halt"
    /\ Detached
    /\ UNCHANGED <<output, buffer, clients, lingered, torn>>

\* Firecracker.Stop does not wait for the process that it kills.
Halted == guest' \in IF guest = "on" THEN {"leaving", "off"} ELSE {guest}

Halt ==
    /\ op = "halt" /\ op' = "idle"
    /\ Halted
    /\ UNCHANGED <<emitted, fifo, writer, current, buffer, logging, readers, clients, lingered, torn>>

\* ... while Reboot and an offline snapshot halt it first, and start again.
Reboot ==
    /\ op = "idle" /\ op' = "redetach"
    /\ Halted
    /\ UNCHANGED <<emitted, fifo, writer, current, buffer, logging, readers, clients, lingered, torn>>

Redetach ==
    /\ op = "redetach" /\ op' = "restart"
    /\ Detached
    /\ UNCHANGED <<output, buffer, clients, lingered, torn>>

Restart == Attached("restart")

-----------------------------------------------------------------------------
(* readLoop and write.                                                     *)

Goto(r, point) == rpc' = [rpc EXCEPT ![r] = point]

Select(r) ==
    /\ rpc[r] = "select"
    /\ Goto(r, IF r \in cancelled THEN "gone" ELSE "read")
    /\ UNCHANGED <<output, op, current, buffer, logging, held, targets, cancelled,
                   clients, lingered, torn>>

\* file.Read returns what is there, up to the size of its buffer.
Read(r) ==
    /\ rpc[r] = "read" /\ fifo # <<>>
    /\ LET n == IF Len(fifo) < Chunk THEN Len(fifo) ELSE Chunk
       IN  /\ held' = [held EXCEPT ![r] = SubSeq(fifo, 1, n)]
           /\ fifo' = SubSeq(fifo, n + 1, Len(fifo))
    /\ Goto(r, "ring")
    /\ UNCHANGED <<guest, emitted, writer, op, current, buffer, logging, targets,
                   cancelled, clients, lingered, torn>>

\* A faulty EndOfFile: ends the goroutine.
MutantEndOfFile(r) ==
    /\ rpc[r] = "read" /\ fifo = <<>> /\ ~writer
    /\ Goto(r, "gone")
    /\ UNCHANGED <<output, op, current, buffer, logging, held, targets, cancelled,
                   clients, lingered, torn>>

\* Without a writer file.Read returns EOF, and the loop goes round.
EndOfFile(r) ==
    /\ rpc[r] = "read" /\ fifo = <<>> /\ ~writer
    /\ Goto(r, "select")
    /\ UNCHANGED <<output, op, current, buffer, logging, held, targets, cancelled,
                   clients, lingered, torn>>

\* Any other error ends the goroutine, with console.cancel still set.
ReadFails(r) ==
    /\ rpc[r] = "read"
    /\ Goto(r, "failed")
    /\ UNCHANGED <<output, op, current, buffer, logging, held, targets, cancelled,
                   clients, lingered, torn>>

\* The cell that the j-th unit of a write goes to.
Slot(j) == ((position + j - 1) % RingSize) + 1

\* The clients that are still to be sent a cell which the write goes to.
Overtaken(r) == {c \in Client : \E j \in 1 .. Len(held[r]) : Slot(j) > RingSize - unsent[c]}

\* A faulty Store: the ring wraps only when a write goes beyond its end.
MutantStore(r) ==
    /\ rpc[r] = "ring"
    /\ LET n == Len(held[r])
       IN  /\ ring' = [i \in 1 .. RingSize |->
                         IF \E j \in 1 .. n : Slot(j) = i
                         THEN held[r][CHOOSE j \in 1 .. n : Slot(j) = i]
                         ELSE ring[i]]
           /\ position' = (position + n) % RingSize
           /\ wrapped' = (wrapped \/ position + n > RingSize)
    /\ stored' = stored \o held[r]
    /\ targets' = [targets EXCEPT ![r] = connections]
    /\ torn' = torn \cup Overtaken(r)
    /\ Goto(r, "log")
    /\ UNCHANGED <<output, op, current, logging, held, cancelled, clients, lingered>>

\* Under the mutex write copies the units into the ring, going round at its
\* end, and takes the list of the clients. A read is never longer than the
\* ring, so no cell is written twice.
Store(r) ==
    /\ rpc[r] = "ring"
    /\ LET n == Len(held[r])
       IN  /\ ring' = [i \in 1 .. RingSize |->
                         IF \E j \in 1 .. n : Slot(j) = i
                         THEN held[r][CHOOSE j \in 1 .. n : Slot(j) = i]
                         ELSE ring[i]]
           /\ position' = (position + n) % RingSize
           /\ wrapped' = (wrapped \/ position + n >= RingSize)
    /\ stored' = stored \o held[r]
    /\ targets' = [targets EXCEPT ![r] = connections]
    /\ torn' = torn \cup Overtaken(r)
    /\ Goto(r, "log")
    /\ UNCHANGED <<output, op, current, logging, held, cancelled, clients, lingered>>

\* A faulty Continue: the units are kept for the next round.
MutantContinue(r, rest) ==
    /\ targets' = [targets EXCEPT ![r] = rest]
    /\ Goto(r, IF rest = {} THEN "select" ELSE "send")
    /\ UNCHANGED held

\* The clients of rest are still to be sent the units, if there are any.
Continue(r, rest) ==
    /\ targets' = [targets EXCEPT ![r] = rest]
    /\ Goto(r, IF rest = {} THEN "select" ELSE "send")
    /\ held' = IF rest = {} THEN [held EXCEPT ![r] = <<>>] ELSE held

\* The rest of write is outside the mutex: console.log, if it is open, ...
Log(r) ==
    /\ rpc[r] = "log"
    /\ log' = IF logFile THEN log \o held[r] ELSE log
    /\ Continue(r, targets[r])
    /\ UNCHANGED <<output, op, current, buffer, logFile, cancelled, clients, lingered, torn>>

Units(s) == {s[i] : i \in DOMAIN s}

\* ... and every client of the list, in any order. A write to a connection
\* that was closed returns an error, which is ignored.
Send(r, c) ==
    /\ rpc[r] = "send" /\ c \in targets[r]
    /\ Continue(r, targets[r] \ {c})
    /\ IF cpc[c] = "closed" THEN UNCHANGED received
       ELSE received' = [received EXCEPT ![c] = @ \cup Units(held[r])]
    /\ UNCHANGED <<output, op, current, buffer, logging, cancelled, api, cpc,
                   history, unsent, connections, lingered, torn>>

-----------------------------------------------------------------------------
(* POST /console/token and the WebSocket handler.                          *)

elsewhere == <<output, op, current, buffer, logging, readers, lingered, torn>>

IssueToken(t) ==
    /\ tokens[t] = "none"
    /\ tokens' = [tokens EXCEPT ![t] = "held"]
    /\ UNCHANGED <<elsewhere, expired, shown, admitted, cpc, sending, connections>>

\* Sixty seconds pass, at whatever point the request with the token is. The age
\* of a token that was used up says nothing any more.
Expire(t) ==
    /\ tokens[t] = "held" \/ (\E c \in Client : shown[c] = t)
    /\ t \notin expired
    /\ expired' = expired \cup {t}
    /\ UNCHANGED <<elsewhere, tokens, shown, admitted, cpc, sending, connections>>

\* Under the API mutex the token is looked up and deleted. A request with any
\* other token is refused and changes nothing.
Present(c, t) ==
    /\ cpc[c] = "out" /\ c = FreeClient /\ tokens[t] = "held"
    /\ tokens' = [tokens EXCEPT ![t] = "deleted"]
    /\ shown' = [shown EXCEPT ![c] = t]
    /\ cpc' = [cpc EXCEPT ![c] = "check"]
    /\ UNCHANGED <<elsewhere, expired, admitted, sending, connections>>

\* A faulty Check: the time that the token expires at is not looked at.
MutantCheck(c) ==
    /\ cpc[c] = "check"
    /\ cpc' = [cpc EXCEPT ![c] = "add"]
    /\ admitted' = [admitted EXCEPT ![shown[c]] = @ \cup {c}]
    /\ shown' = [shown EXCEPT ![c] = None]
    /\ UNCHANGED <<elsewhere, tokens, expired, sending, connections>>

\* Outside the mutex an old token is refused; the upgrade may fail too.
Check(c) ==
    /\ cpc[c] = "check"
    /\ \/ /\ shown[c] \notin expired
          /\ cpc' = [cpc EXCEPT ![c] = "add"]
          /\ admitted' = [admitted EXCEPT ![shown[c]] = @ \cup {c}]
       \/ /\ cpc' = [cpc EXCEPT ![c] = "closed"]
          /\ UNCHANGED admitted
    /\ shown' = [shown EXCEPT ![c] = None]
    /\ UNCHANGED <<elsewhere, tokens, expired, sending, connections>>

AddConn(c) ==
    /\ cpc[c] = "add"
    /\ cpc' = [cpc EXCEPT ![c] = "readring"]
    /\ connections' = connections \cup {c}
    /\ UNCHANGED <<elsewhere, api, sending>>

\* The ring from its oldest cell on.
Chronological == IF wrapped
                 THEN SubSeq(ring, position + 1, RingSize) \o SubSeq(ring, 1, position)
                 ELSE SubSeq(ring, 1, position)

\* A faulty ReadRing: the cells behind the position are forgotten.
MutantReadRing(c) ==
    /\ cpc[c] = "readring"
    /\ cpc' = [cpc EXCEPT ![c] = "send"]
    /\ history' = [history EXCEPT ![c] = SubSeq(ring, 1, position)]
    /\ UNCHANGED <<elsewhere, api, unsent, received, connections>>

\* Under the mutex; with the position at the start of a full ring, append has
\* nothing to add, makes no copy, and returns the ring itself.
ReadRing(c) ==
    /\ cpc[c] = "readring"
    /\ cpc' = [cpc EXCEPT ![c] = "send"]
    /\ IF wrapped /\ position = 0
       THEN unsent' = [unsent EXCEPT ![c] = RingSize] /\ UNCHANGED history
       ELSE history' = [history EXCEPT ![c] = Chronological] /\ UNCHANGED unsent
    /\ UNCHANGED <<elsewhere, api, received, connections>>

\* WriteMessage without the mutex, and beside the readers that write to the
\* client too: of the ring itself it copies what fits its buffer, and takes the
\* rest from the ring, as it is by then, while the client takes what was sent.
SendCell(c) ==
    /\ cpc[c] = "send" /\ unsent[c] > 0
    /\ received' = [received EXCEPT ![c] = @ \cup {ring[RingSize - unsent[c] + 1]}]
    /\ unsent' = [unsent EXCEPT ![c] = @ - 1]
    /\ UNCHANGED <<elsewhere, api, cpc, history, connections>>

SendHistory(c) ==
    /\ cpc[c] = "send" /\ unsent[c] = 0
    /\ cpc' = [cpc EXCEPT ![c] = "open"]
    /\ received' = [received EXCEPT ![c] = @ \cup Units(history[c])]
    /\ history' = [history EXCEPT ![c] = <<>>]
    /\ UNCHANGED <<elsewhere, api, unsent, connections>>

\* The client goes away: RemoveConn and Close.
Leave(c) ==
    /\ cpc[c] = "open"
    /\ cpc' = [cpc EXCEPT ![c] = "closed"]
    /\ connections' = connections \ {c}
    /\ received' = [received EXCEPT ![c] = {}]
    /\ UNCHANGED <<elsewhere, api, history, unsent>>

-----------------------------------------------------------------------------
\* The runtime dies and systemd starts it again; its control group, the guest
\* included, is killed. Of all this only console.log survives, and log counts
\* what one runtime adds to it. gorilla/websocket panics when two goroutines
\* write to one connection: that is such a death too.
Kill ==
    /\ guest' = "off" /\ emitted' = 0 /\ fifo' = <<>> /\ writer' = FALSE
    /\ op' = "idle"
    /\ current' = None
    /\ logFile' = FALSE /\ log' = <<>>
    /\ ring' = [i \in 1 .. RingSize |-> 0] /\ position' = 0 /\ wrapped' = FALSE
    /\ stored' = <<>>
    /\ rpc' = [r \in Reader |-> "none"]
    /\ held' = [r \in Reader |-> <<>>]
    /\ targets' = [r \in Reader |-> {}]
    /\ cancelled' = {}
    /\ tokens' = [t \in Token |-> "none"] /\ expired' = {}
    /\ cpc' = [c \in Client |-> "out"] /\ shown' = [c \in Client |-> None]
    /\ history' = [c \in Client |-> <<>>] /\ unsent' = [c \in Client |-> 0]
    /\ connections' = {}
    /\ received' = [c \in Client |-> {}]
    /\ admitted' = [t \in Token |-> {}]
    /\ lingered' = FALSE /\ torn' = {}

Operate == \/ Start \/ Spawn \/ StartFails \/ Stop \/ Halt
           \/ Reboot \/ Redetach \/ Restart

\* The steps of a reader that wait for no client.
Loop(r) == \/ Select(r) \/ Read(r) \/ EndOfFile(r) \/ Store(r) \/ Log(r)

ReadLoop(r) == \/ Loop(r) \/ ReadFails(r)
               \/ (\E c \in Client : Send(r, c))

Serve(c) == \/ \E t \in Token : Present(c, t)
            \/ Check(c) \/ AddConn(c) \/ ReadRing(c)
            \/ SendCell(c) \/ SendHistory(c) \/ Leave(c)

Next ==
    \/ Emit \/ Exit \/ Operate \/ Kill
    \/ \E r \in Reader : ReadLoop(r)
    \/ \E c \in Client : Serve(c)
    \/ \E t \in Token : IssueToken(t) \/ Expire(t)

\* Goroutines that can run do. A write to a client has no deadline and takes as
\* long as the client does: nothing is assumed of it.
Fairness == \A r \in Reader : WF_vars(Loop(r))

Spec == Init /\ [][Next]_vars /\ Fairness

-----------------------------------------------------------------------------
(* Properties.                                                             *)

LastOf(s, n) == IF Len(s) < n THEN s ELSE SubSeq(s, Len(s) - n + 1, Len(s))

\* What ReadRing returns is the end of all the output that was stored, in its
\* order, wherever the ring has wrapped (write and ReadRing).
RingIsTail == Chronological = LastOf(stored, RingSize)

\* A client that has its history, and that no reader is about to write to, was
\* sent the end of the output: at least a ring of it, and nothing is missing
\* between the history and the live output (AddConn before ReadRing). A history
\* that is the ring itself and was overwritten while it was sent has a gap.
ClientSeesSuffix == \A c \in Client :
    cpc[c] = "open" /\ c \notin torn /\ (\A r \in Reader : c \notin targets[r]) =>
       \E n \in 0 .. Len(stored) :
          /\ n >= Len(LastOf(stored, RingSize))
          /\ received[c] = Units(LastOf(stored, n))

Increasing(s) == \A i, j \in DOMAIN s : i < j => s[i] < s[j]

\* Ring and console.log keep the order of the guest, across stops, reboots and
\* failed starts, unless a cancelled reader was still waiting when the next
\* one was started (Start attaches only when console.cancel is not set).
OrderKept == lingered \/ (Increasing(stored) /\ Increasing(log))

\* A request that a token lets in is the first one, and the token is not yet
\* 60 seconds old, however many requests present it at once and whenever the
\* time runs out (handleConsoleWebSocket).
TokenOnce == [][\A t \in Token : \A c \in admitted'[t] \ admitted[t] :
                   admitted[t] = {} /\ t \notin expired]_vars

\* The reader that console.cancel belongs to, while it has not failed.
Attending == current # None /\ rpc[current] # "failed"

\* While a console is attached, what the guest wrote is read: an empty FIFO
\* with no writer ends no reader, and the FIFO is drained once the guest is
\* silent (readLoop), if no client keeps a reader in a write for ever.
OutputIsRead ==
    (\A r \in Reader : []<>(rpc[r] # "send"))
       => ((fifo # <<>> /\ Attending) ~> (fifo = <<>> \/ ~Attending))
=============================================================================
