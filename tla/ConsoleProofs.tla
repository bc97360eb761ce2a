---------------------------- MODULE ConsoleProofs ----------------------------
(***************************************************************************)
(* What Console promises for every number of readers, requests and tokens, *)
(* every size of the ring and of a read, and any length of output.         *)
(***************************************************************************)
EXTENDS Console, FiniteSetTheorems, TLAPS

(* Type correctness.                                                       *)

\* A read is never longer than the buffer of readLoop.
TypeInv == TypeOK /\ \A r \in Reader : Len(held[r]) <= Chunk

LEMMA Numbers == RingSize \in Nat \ {0} /\ Chunk \in Nat \ {0} /\ Chunk <= RingSize /\ MaxOutput \in Nat
  BY ConsoleAssumption

LEMMA Units0 == /\ 0 \in Cell /\ 0 \in 0 .. RingSize - 1 /\ 0 \in 0 .. RingSize
                /\ \A n \in Cell : n < MaxOutput => n + 1 \in Unit /\ n + 1 \in Cell
BY Numbers DEF Unit, Cell

LEMMA TypeInit == Init => TypeInv
<1> SUFFICES ASSUME Init PROVE TypeInv
  OBVIOUS
<1>1. ring \in [1 .. RingSize -> Cell] /\ position \in 0 .. RingSize - 1 /\ emitted \in Cell
  BY Units0 DEF Init
<1>2. \A r \in Reader : held[r] = <<>> /\ Len(held[r]) <= Chunk
  BY Numbers DEF Init
<1>3. history \in [Client -> Seq(Cell)] /\ held \in [Reader -> Seq(Unit)]
  BY DEF Init
<1>4. fifo \in Seq(Unit) /\ log \in Seq(Unit) /\ stored \in Seq(Unit)
  BY DEF Init
<1>5. \A r \in Reader : held[r] # <<>> <=> rpc[r] \in {"ring", "log", "send"}
  BY <1>2 DEF Init
<1>6. /\ rpc \in [Reader -> Point]
      /\ targets \in [Reader -> SUBSET Client]
      /\ received \in [Client -> SUBSET Cell] /\ admitted \in [Token -> SUBSET Client]
      /\ unsent \in [Client -> 0 .. RingSize]
  BY Units0 DEF Init, Point
<1> QED
  BY <1>1, <1>2, <1>3, <1>4, <1>5, <1>6 DEF Init, TypeInv, TypeOK

LEMMA ReadTypes ==
    ASSUME TypeInv, NEW r \in Reader, Read(r)
    PROVE  /\ fifo' \in Seq(Unit)
           /\ held'[r] \in Seq(Unit) /\ held'[r] # <<>> /\ Len(held'[r]) <= Chunk
           /\ held' = [held EXCEPT ![r] = held'[r]]
<1> DEFINE n == IF Len(fifo) < Chunk THEN Len(fifo) ELSE Chunk
<1>1. fifo \in Seq(Unit) /\ Len(fifo) \in Nat /\ Len(fifo) > 0
  BY DEF TypeInv, TypeOK, Read
<1>2. n \in Nat /\ n > 0 /\ n <= Len(fifo) /\ n <= Chunk
  BY <1>1, Numbers
<1>3. fifo' = SubSeq(fifo, n + 1, Len(fifo)) /\ held' = [held EXCEPT ![r] = SubSeq(fifo, 1, n)]
  BY DEF Read
<1> HIDE DEF n
<1>4. SubSeq(fifo, 1, n) \in Seq(Unit) /\ Len(SubSeq(fifo, 1, n)) = n
  BY <1>1, <1>2
<1>5. SubSeq(fifo, n + 1, Len(fifo)) \in Seq(Unit)
  BY <1>1, <1>2
<1>6. held'[r] = SubSeq(fifo, 1, n)
  BY <1>3 DEF TypeInv, TypeOK
<1>7. SubSeq(fifo, 1, n) # <<>>
  BY <1>2, <1>4
<1>8. held' = [held EXCEPT ![r] = held'[r]]
  BY <1>3, <1>6
<1> QED
  BY <1>2, <1>3, <1>4, <1>5, <1>6, <1>7, <1>8

LEMMA StoreTypes ==
    ASSUME TypeInv, NEW r \in Reader, Store(r)
    PROVE  /\ ring' \in [1 .. RingSize -> Cell]
           /\ position' \in 0 .. RingSize - 1
           /\ wrapped' \in BOOLEAN
           /\ stored' \in Seq(Unit)
<1> DEFINE n == Len(held[r])
<1>1. held[r] \in Seq(Unit) /\ n \in Nat /\ \A j \in 1 .. n : held[r][j] \in Cell
  BY Numbers DEF TypeInv, TypeOK, Unit, Cell
<1>2. position \in Nat /\ stored \in Seq(Unit) /\ ring \in [1 .. RingSize -> Cell]
  BY Numbers DEF TypeInv, TypeOK
<1>3. \A i \in 1 .. RingSize : ring'[i] \in Cell
  <2> SUFFICES ASSUME NEW i \in 1 .. RingSize PROVE ring'[i] \in Cell
    OBVIOUS
  <2>1. CASE \E j \in 1 .. n : Slot(j) = i
    <3>1. (CHOOSE j \in 1 .. n : Slot(j) = i) \in 1 .. n
      BY <2>1
    <3>2. ring'[i] = held[r][CHOOSE j \in 1 .. n : Slot(j) = i]
      BY <2>1 DEF Store
    <3> QED
      BY <1>1, <3>1, <3>2
  <2>2. CASE ~\E j \in 1 .. n : Slot(j) = i
    BY <1>2, <2>2 DEF Store
  <2> QED
    BY <2>1, <2>2
<1>4. ring' = [i \in 1 .. RingSize |-> ring'[i]]
  BY DEF Store
<1>5. position' = (position + n) % RingSize
  BY DEF Store
<1>6. position + n \in Nat
  BY <1>1, <1>2
<1>7. position' \in 0 .. RingSize - 1
  BY <1>5, <1>6, Numbers
<1>8. wrapped' \in BOOLEAN /\ stored' \in Seq(Unit)
  BY <1>1, <1>2 DEF Store, TypeInv, TypeOK
<1> QED
  BY <1>3, <1>4, <1>7, <1>8

LEMMA ContinueTypes ==
    ASSUME TypeInv, NEW r \in Reader, rpc[r] \in {"log", "send"},
           NEW rest \in SUBSET Client, Continue(r, rest)
    PROVE  /\ rpc' \in [Reader -> Point]
           /\ held' \in [Reader -> Seq(Unit)]
           /\ \A q \in Reader : held'[q] # <<>> <=> rpc'[q] \in {"ring", "log", "send"}
           /\ \A q \in Reader : Len(held'[q]) <= Chunk
           /\ targets' \in [Reader -> SUBSET Client]
BY Numbers DEF TypeInv, TypeOK, Continue, Goto, Point

LEMMA ChronologicalType ==
    ASSUME TypeInv
    PROVE  Chronological \in Seq(Cell) /\ ring \in Seq(Cell)
<1>1. ring \in Seq(Cell) /\ Len(ring) = RingSize
  BY Numbers DEF TypeInv, TypeOK
<1>2. position \in Nat /\ position < RingSize /\ RingSize \in Nat
  BY Numbers DEF TypeInv, TypeOK
<1>3. SubSeq(ring, 1, position) \in Seq(Cell) /\ SubSeq(ring, position + 1, RingSize) \in Seq(Cell)
  BY <1>1, <1>2
<1> QED
  BY <1>1, <1>3 DEF Chronological

LEMMA UnitsType ==
    ASSUME NEW S, NEW s \in Seq(S)
    PROVE  Units(s) \subseteq S
BY DEF Units

LEMMA CheckSteps ==
    ASSUME NEW c \in Client, Check(c)
    PROVE  /\ cpc[c] = "check" /\ shown' = [shown EXCEPT ![c] = None]
           /\ \/ cpc' = [cpc EXCEPT ![c] = "add"]
              \/ cpc' = [cpc EXCEPT ![c] = "closed"]
           /\ \/ admitted' = admitted
              \/ admitted' = [admitted EXCEPT ![shown[c]] = admitted[shown[c]] \cup {c}]
           /\ UNCHANGED <<elsewhere, tokens, expired, sending, connections>>
BY DEF Check

LEMMA TypeStep == TypeInv /\ [Next]_vars => TypeInv'
<1> SUFFICES ASSUME TypeInv, [Next]_vars PROVE TypeInv'
  OBVIOUS
<1> USE Numbers DEF TypeInv, TypeOK, output, buffer, logging, readers, clients, api, sending, elsewhere
<1>1. CASE UNCHANGED vars
  BY <1>1 DEF vars
<1>2. CASE Emit
  <3>1. emitted + 1 \in Unit /\ emitted + 1 \in Cell
    BY <1>2, Units0 DEF Emit
  <3>2. Append(fifo, emitted + 1) \in Seq(Unit)
    BY <3>1
  <3> QED
    BY <1>2, <3>1, <3>2 DEF Emit
<1>3. CASE Start
  BY <1>3 DEF Start, Attached, Point
<1>4. CASE Spawn
  BY <1>4 DEF Spawn
<1>5. CASE StartFails
  BY <1>5 DEF StartFails, Detached
<1>6. CASE Stop
  BY <1>6 DEF Stop, Detached
<1>7. CASE Halt
  BY <1>7 DEF Halt, Halted
<1>8. CASE Reboot
  BY <1>8 DEF Reboot, Halted
<1>9. CASE Redetach
  BY <1>9 DEF Redetach, Detached
<1>10. CASE Restart
  BY <1>10 DEF Restart, Attached, Point
<1>11. CASE Kill
  <3>1. ring' \in [1 .. RingSize -> Cell] /\ position' \in 0 .. RingSize - 1 /\ emitted' \in Cell
    BY <1>11, Units0 DEF Kill
  <3>2. \A r \in Reader : held'[r] = <<>> /\ Len(held'[r]) <= Chunk
    BY <1>11 DEF Kill
  <3>3. history' \in [Client -> Seq(Cell)] /\ held' \in [Reader -> Seq(Unit)]
    BY <1>11 DEF Kill
  <3>4. fifo' \in Seq(Unit) /\ log' \in Seq(Unit) /\ stored' \in Seq(Unit)
    BY <1>11 DEF Kill
  <3>5. \A r \in Reader : held'[r] # <<>> <=> rpc'[r] \in {"ring", "log", "send"}
    BY <1>11, <3>2 DEF Kill
  <3>6. /\ rpc' \in [Reader -> Point]
        /\ targets' \in [Reader -> SUBSET Client]
        /\ received' \in [Client -> SUBSET Cell] /\ admitted' \in [Token -> SUBSET Client]
        /\ unsent' \in [Client -> 0 .. RingSize]
    BY <1>11, Units0 DEF Kill, Point
  <3> QED
    BY <1>11, <3>1, <3>2, <3>3, <3>4, <3>5, <3>6 DEF Kill
<1>12. ASSUME NEW r \in Reader, ReadLoop(r) PROVE TypeInv'
  <2>1. CASE Select(r)
    BY <2>1 DEF Select, Goto, Point
  <2>2. CASE Read(r)
    <3>1. rpc' \in [Reader -> Point] /\ \A q \in Reader \ {r} : rpc'[q] = rpc[q]
      BY <2>2 DEF Read, Goto, Point
    <3>2. rpc'[r] = "ring"
      BY <2>2 DEF Read, Goto
    <3>3. /\ fifo' \in Seq(Unit) /\ held'[r] \in Seq(Unit) /\ held'[r] # <<>>
          /\ Len(held'[r]) <= Chunk /\ held' = [held EXCEPT ![r] = held'[r]]
      BY <2>2, ReadTypes
    <3>4. held' \in [Reader -> Seq(Unit)] /\ \A q \in Reader \ {r} : held'[q] = held[q]
      BY <3>3
    <3> QED
      BY <2>2, <3>1, <3>2, <3>3, <3>4 DEF Read
  <2>3. CASE EndOfFile(r)
    BY <2>3 DEF EndOfFile, Goto, Point
  <2>4. CASE Store(r)
    <3>1. torn' \subseteq Client
      BY <2>4 DEF Store, Overtaken
    <3> QED
      BY <2>4, <3>1, StoreTypes DEF Store, Goto, Point
  <2>5. CASE Log(r)
    BY <2>5, ContinueTypes DEF Log
  <2>6. ASSUME NEW c \in Client, Send(r, c) PROVE TypeInv'
    <3>1. rpc[r] = "send" /\ targets[r] \ {c} \in SUBSET Client /\ Continue(r, targets[r] \ {c})
      BY <2>6 DEF Send
    <3>2. received' \in [Client -> SUBSET Cell]
      <4>1. received[c] \cup Units(held[r]) \in SUBSET Cell
        BY UnitsType DEF Unit, Cell
      <4>2. \/ received' = received
            \/ received' = [received EXCEPT ![c] = received[c] \cup Units(held[r])]
        BY <2>6 DEF Send
      <4> QED
        BY <4>1, <4>2
    <3> QED
      BY <2>6, <3>1, <3>2, ContinueTypes DEF Send
  <2>7. CASE ReadFails(r)
    BY <2>7 DEF ReadFails, Goto, Point
  <2> QED
    BY <1>12, <2>1, <2>2, <2>3, <2>4, <2>5, <2>6, <2>7 DEF ReadLoop, Loop
<1>13. ASSUME NEW c \in Client, Serve(c) PROVE TypeInv'
  <2>1. ASSUME NEW t \in Token, Present(c, t) PROVE TypeInv'
    BY <2>1 DEF Present
  <2>2. CASE AddConn(c)
    BY <2>2 DEF AddConn
  <2>3. CASE ReadRing(c)
    <3>1. RingSize \in 0 .. RingSize /\ Chronological \in Seq(Cell)
      BY ChronologicalType
    <3>2. history' \in [Client -> Seq(Cell)] /\ unsent' \in [Client -> 0 .. RingSize]
      <4>1. CASE wrapped /\ position = 0
        BY <2>3, <3>1, <4>1 DEF ReadRing
      <4>2. CASE ~(wrapped /\ position = 0)
        <5>1. unsent' = unsent /\ history' = [history EXCEPT ![c] = Chronological]
          BY <2>3, <4>2 DEF ReadRing
        <5> QED BY <3>1, <5>1
      <4> QED BY <4>1, <4>2
    <3> QED
      BY <2>3, <3>2 DEF ReadRing
  <2>4. CASE SendHistory(c)
    <3>1. Units(history[c]) \subseteq Cell
      BY UnitsType
    <3>3. received' \in [Client -> SUBSET Cell]
      BY <2>4, <3>1 DEF SendHistory
    <3> QED
      BY <2>4, <3>3 DEF SendHistory
  <2>5. CASE Leave(c)
    BY <2>5 DEF Leave
  <2>6. CASE Check(c)
    <3>1. cpc' \in [Client -> {"out", "check", "add", "readring", "send", "open", "closed"}]
      BY <2>6, CheckSteps
    <3>2. shown' \in [Client -> Token \cup {None}]
      BY <2>6, CheckSteps
    <3>3. admitted' \in [Token -> SUBSET Client]
      <4>1. CASE admitted' = admitted
        BY <4>1
      <4>2. CASE admitted' = [admitted EXCEPT ![shown[c]] = admitted[shown[c]] \cup {c}]
        BY <4>2
      <4> QED BY <2>6, <4>1, <4>2, CheckSteps
    <3>4. UNCHANGED <<elsewhere, tokens, expired, sending, connections>>
      BY <2>6, CheckSteps
    <3> QED
      BY <3>1, <3>2, <3>3, <3>4
  <2>7. CASE SendCell(c)
    <3>1. RingSize - unsent[c] + 1 \in 1 .. RingSize /\ unsent[c] - 1 \in 0 .. RingSize
      BY <2>7 DEF SendCell
    <3>2. ring[RingSize - unsent[c] + 1] \in Cell
      BY <3>1
    <3>3. /\ received' = [received EXCEPT ![c] = received[c] \cup {ring[RingSize - unsent[c] + 1]}]
          /\ unsent' = [unsent EXCEPT ![c] = unsent[c] - 1]
      BY <2>7 DEF SendCell
    <3>4. received' \in [Client -> SUBSET Cell] /\ unsent' \in [Client -> 0 .. RingSize]
      BY <3>1, <3>2, <3>3
    <3> QED
      BY <2>7, <3>4 DEF SendCell
  <2> QED
    BY <1>13, <2>1, <2>2, <2>3, <2>4, <2>5, <2>6, <2>7 DEF Serve
<1>14. ASSUME NEW t \in Token, IssueToken(t) PROVE TypeInv'
  BY <1>14 DEF IssueToken
<1>15. ASSUME NEW t \in Token, Expire(t) PROVE TypeInv'
  BY <1>15 DEF Expire
<1>16. CASE Exit
  BY <1>16 DEF Exit
<1> QED
  BY <1>1, <1>2, <1>3, <1>4, <1>5, <1>6, <1>7, <1>8, <1>9, <1>10,
     <1>11, <1>12, <1>13, <1>14, <1>15, <1>16 DEF Next, Operate

\* Every variable of the console model keeps its type; a reader holds output
\* exactly between its read and the end of write (readLoop, write).
THEOREM TypeCorrect == Spec => []TypeOK
<1>1. TypeInv => TypeOK
  BY DEF TypeInv
<1> QED
  BY <1>1, TypeInit, TypeStep, PTL DEF Spec

-----------------------------------------------------------------------------
(* Tokens.                                                                 *)

\* A token that is not deleted was shown by nobody, and let nobody in; one that
\* a request still has to be checked with has let nobody in, and nobody else has it.
TokenInv == \A t \in Token :
    /\ tokens[t] # "deleted" => admitted[t] = {} /\ \A c \in Client : shown[c] # t
    /\ \A c \in Client : shown[c] = t =>
           admitted[t] = {} /\ \A d \in Client : shown[d] = t => d = c

LEMMA TokenStep == TypeInv /\ TokenInv /\ [Next]_vars => TokenInv'
<1> SUFFICES ASSUME TypeInv, TokenInv, [Next]_vars PROVE TokenInv'
  OBVIOUS
<1> USE ConsoleAssumption DEF TypeInv, TypeOK, TokenInv, output, buffer, logging, readers, clients, api, sending, elsewhere
<1>1. CASE UNCHANGED vars
  BY <1>1 DEF vars
<1>2. CASE Emit
  BY <1>2 DEF Emit
<1>3. CASE Start
  BY <1>3 DEF Start, Attached
<1>4. CASE Spawn
  BY <1>4 DEF Spawn
<1>5. CASE StartFails
  BY <1>5 DEF StartFails, Detached
<1>6. CASE Stop
  BY <1>6 DEF Stop, Detached
<1>7. CASE Halt
  BY <1>7 DEF Halt, Halted
<1>8. CASE Reboot
  BY <1>8 DEF Reboot, Halted
<1>9. CASE Redetach
  BY <1>9 DEF Redetach, Detached
<1>10. CASE Restart
  BY <1>10 DEF Restart, Attached
<1>11. CASE Kill
  BY <1>11 DEF Kill
<1>12. ASSUME NEW r \in Reader, ReadLoop(r) PROVE TokenInv'
  <2>1. CASE Select(r)
    BY <2>1 DEF Select, Goto
  <2>2. CASE Read(r)
    BY <2>2 DEF Read, Goto
  <2>3. CASE EndOfFile(r)
    BY <2>3 DEF EndOfFile, Goto
  <2>4. CASE Store(r)
    BY <2>4 DEF Store, Goto
  <2>5. CASE Log(r)
    BY <2>5 DEF Log, Continue, Goto
  <2>6. ASSUME NEW c \in Client, Send(r, c) PROVE TokenInv'
    BY <2>6 DEF Send, Continue, Goto
  <2>7. CASE ReadFails(r)
    BY <2>7 DEF ReadFails, Goto
  <2> QED
    BY <1>12, <2>1, <2>2, <2>3, <2>4, <2>5, <2>6, <2>7 DEF ReadLoop, Loop
<1>13. ASSUME NEW c \in Client, Serve(c) PROVE TokenInv'
  <2>1. ASSUME NEW t \in Token, Present(c, t) PROVE TokenInv'
    BY <2>1 DEF Present
  <2>2. CASE AddConn(c)
    BY <2>2 DEF AddConn
  <2>3. CASE ReadRing(c)
    BY <2>3 DEF ReadRing
  <2>4. CASE SendHistory(c)
    BY <2>4 DEF SendHistory
  <2>5. CASE Leave(c)
    BY <2>5 DEF Leave
  <2>6. CASE Check(c)
    <3>1. /\ shown' = [shown EXCEPT ![c] = None] /\ UNCHANGED tokens
          /\ \/ admitted' = admitted
             \/ admitted' = [admitted EXCEPT ![shown[c]] = admitted[shown[c]] \cup {c}]
      BY <2>6, CheckSteps
    <3>2. \A t \in Token : \A d \in Client : shown'[d] = t => shown[d] = t /\ d # c
      BY <3>1
    <3>3. \A t \in Token : t # shown[c] => admitted'[t] = admitted[t]
      BY <3>1
    <3>4. \A t \in Token : shown[c] = t => tokens'[t] = "deleted" /\ \A d \in Client : shown'[d] # t
      BY <3>1, <3>2
    <3> QED
      BY <3>1, <3>2, <3>3, <3>4
  <2>7. CASE SendCell(c)
    BY <2>7 DEF SendCell
  <2> QED
    BY <1>13, <2>1, <2>2, <2>3, <2>4, <2>5, <2>6, <2>7 DEF Serve
<1>14. ASSUME NEW t \in Token, IssueToken(t) PROVE TokenInv'
  BY <1>14 DEF IssueToken
<1>15. ASSUME NEW t \in Token, Expire(t) PROVE TokenInv'
  BY <1>15 DEF Expire
<1>16. CASE Exit
  BY <1>16 DEF Exit
<1> QED
  BY <1>1, <1>2, <1>3, <1>4, <1>5, <1>6, <1>7, <1>8, <1>9, <1>10,
     <1>11, <1>12, <1>13, <1>14, <1>15, <1>16 DEF Next, Operate

\* Only Check lets a request in.
LEMMA CheckAdmits == [Next]_vars => \/ UNCHANGED admitted
                                    \/ \E c \in Client : Check(c)
                                    \/ admitted' = [t \in Token |-> {}]
<1> SUFFICES ASSUME [Next]_vars, \A c \in Client : ~Check(c)
             PROVE  UNCHANGED admitted \/ admitted' = [t \in Token |-> {}]
  OBVIOUS
<1> USE DEF output, buffer, logging, readers, clients, api, sending, elsewhere
<1>1. CASE UNCHANGED vars
  BY <1>1 DEF vars
<1>2. CASE Emit \/ Exit
  BY <1>2 DEF Emit, Exit
<1>3. CASE Start \/ Restart
  BY <1>3 DEF Start, Restart, Attached
<1>4. CASE Spawn \/ StartFails \/ Stop \/ Redetach
  BY <1>4 DEF Spawn, StartFails, Stop, Redetach, Detached
<1>5. CASE Halt \/ Reboot
  BY <1>5 DEF Halt, Reboot
<1>6. CASE Kill
  BY <1>6 DEF Kill
<1>7. ASSUME NEW r \in Reader, ReadLoop(r) PROVE UNCHANGED admitted
  <2>1. CASE Select(r) \/ Read(r) \/ EndOfFile(r) \/ ReadFails(r)
    BY <2>1 DEF Select, Read, EndOfFile, ReadFails
  <2>2. CASE Store(r) \/ Log(r)
    BY <2>2 DEF Store, Log
  <2>3. ASSUME NEW c \in Client, Send(r, c) PROVE UNCHANGED admitted
    BY <2>3 DEF Send
  <2> QED
    BY <1>7, <2>1, <2>2, <2>3 DEF ReadLoop, Loop
<1>8. ASSUME NEW c \in Client, Serve(c) PROVE UNCHANGED admitted
  <2>1. ASSUME NEW t \in Token, Present(c, t) PROVE UNCHANGED admitted
    BY <2>1 DEF Present
  <2>2. CASE AddConn(c) \/ ReadRing(c) \/ SendCell(c) \/ SendHistory(c) \/ Leave(c)
    BY <2>2 DEF AddConn, ReadRing, SendCell, SendHistory, Leave
  <2> QED
    BY <1>8, <2>1, <2>2 DEF Serve
<1>9. ASSUME NEW t \in Token, IssueToken(t) \/ Expire(t) PROVE UNCHANGED admitted
  BY <1>9 DEF IssueToken, Expire
<1> QED
  BY <1>1, <1>2, <1>3, <1>4, <1>5, <1>6, <1>7, <1>8, <1>9 DEF Next, Operate

\* A token lets one request in, and only before it is 60 seconds old, for any
\* number of requests that present it at once or again, whenever the time runs
\* out between their steps (handleConsoleWebSocket).
THEOREM TokenUsedOnce == Spec => TokenOnce
<1>1. Init => TokenInv
  BY ConsoleAssumption DEF Init, TokenInv
<1>2. TypeInv /\ TokenInv /\ [Next]_vars =>
         [\A t \in Token : \A c \in admitted'[t] \ admitted[t] :
             admitted[t] = {} /\ t \notin expired]_vars
  <2> SUFFICES ASSUME TypeInv, TokenInv, [Next]_vars,
                      NEW t \in Token, NEW c \in admitted'[t] \ admitted[t]
               PROVE  admitted[t] = {} /\ t \notin expired
    OBVIOUS
  <2>1. PICK d \in Client : Check(d)
    BY CheckAdmits
  <2>2. /\ shown[d] \notin expired
        /\ admitted' = [admitted EXCEPT ![shown[d]] = admitted[shown[d]] \cup {d}]
    BY <2>1 DEF Check
  <2>3. shown[d] = t
    BY <2>2 DEF TypeInv, TypeOK
  <2> QED
    BY <2>2, <2>3 DEF TokenInv
<1> QED
  BY <1>1, <1>2, TypeInit, TypeStep, TokenStep, PTL DEF Spec, TokenOnce

-----------------------------------------------------------------------------
(* The ring.                                                               *)

\* The cells up to the position hold the last units, and those behind it, once
\* the ring has wrapped, the units before them.
RingInv ==
    /\ position <= Len(stored)
    /\ ~wrapped => Len(stored) = position
    /\ wrapped => RingSize + position <= Len(stored)
    /\ \A i \in 1 .. position : ring[i] = stored[Len(stored) - position + i]
    /\ wrapped => \A i \in position + 1 .. RingSize :
                      ring[i] = stored[Len(stored) - position - RingSize + i]

LEMMA Remainder ==
    ASSUME NEW a \in Nat, NEW b \in Nat, a < RingSize, b <= RingSize
    PROVE  (a + b) % RingSize = IF a + b < RingSize THEN a + b ELSE a + b - RingSize
<1>1. CASE a + b < RingSize
  BY <1>1, Numbers
<1>2. CASE a + b >= RingSize
  BY <1>2, Numbers
<1> QED
  BY <1>1, <1>2, Numbers

\* Which unit of a write each cell takes: the cells behind the position first,
\* then those at the start of the ring.
LEMMA StoredCells ==
    ASSUME TypeInv, NEW r \in Reader, Store(r), NEW i \in 1 .. RingSize
    PROVE  LET n == Len(held[r])
           IN  ring'[i] = IF position < i /\ i <= position + n THEN held[r][i - position]
                          ELSE IF RingSize + i <= position + n THEN held[r][RingSize + i - position]
                          ELSE ring[i]
<1> DEFINE n == Len(held[r])
           taken == IF position < i THEN i - position ELSE RingSize + i - position
<1>1. n \in Nat /\ n <= RingSize /\ position \in Nat /\ position < RingSize
  BY Numbers DEF TypeInv, TypeOK
<1>2. \A j \in 1 .. n : Slot(j) = IF position + j <= RingSize THEN position + j
                                  ELSE position + j - RingSize
  <2> SUFFICES ASSUME NEW j \in 1 .. n
               PROVE  Slot(j) = IF position + j <= RingSize THEN position + j
                                ELSE position + j - RingSize
    OBVIOUS
  <2>1. j - 1 \in Nat /\ j - 1 <= RingSize /\ position + j - 1 = position + (j - 1)
    BY <1>1, Numbers
  <2> HIDE DEF n
  <2>2. (position + (j - 1)) % RingSize
        = IF position + (j - 1) < RingSize THEN position + (j - 1)
          ELSE position + (j - 1) - RingSize
    BY <1>1, <2>1, Remainder
  <2> QED
    BY <1>1, <2>1, <2>2, Numbers DEF Slot
<1>3. \A j \in 1 .. n : Slot(j) = i <=> j = taken
  <2> HIDE DEF n
  <2> QED
    BY <1>1, <1>2, Numbers
<1>4. ring'[i] = IF \E j \in 1 .. n : Slot(j) = i
                 THEN held[r][CHOOSE j \in 1 .. n : Slot(j) = i] ELSE ring[i]
  BY DEF Store
<1>5. CASE taken \in 1 .. n
  <2>1. (CHOOSE j \in 1 .. n : Slot(j) = i) = taken
    <3> HIDE DEF n, taken
    <3> QED
      BY <1>3, <1>5
  <2>2. ring'[i] = held[r][taken]
    BY <1>3, <1>4, <1>5, <2>1
  <2> HIDE DEF n
  <2> QED
    BY <1>1, <1>5, <2>2, Numbers DEF n
<1>6. CASE taken \notin 1 .. n
  <2>1. ring'[i] = ring[i]
    BY <1>3, <1>4, <1>6
  <2> HIDE DEF n
  <2> QED
    BY <1>1, <1>6, <2>1, Numbers DEF n
<1> QED
  BY <1>5, <1>6

LEMMA StoreKeepsRing ==
    ASSUME TypeInv, RingInv, NEW r \in Reader, Store(r)
    PROVE  RingInv'
<1> DEFINE n == Len(held[r])
           l == Len(stored)
<1>1. /\ n \in Nat /\ n <= RingSize /\ position \in Nat /\ position < RingSize
      /\ l \in Nat /\ wrapped \in BOOLEAN
  BY Numbers DEF TypeInv, TypeOK
<1>2. /\ stored' = stored \o held[r]
      /\ Len(stored') = l + n
      /\ \A k \in 1 .. l : stored'[k] = stored[k]
      /\ \A k \in 1 .. n : stored'[l + k] = held[r][k]
  BY DEF Store, TypeInv, TypeOK
<1>3. /\ position' = IF position + n < RingSize THEN position + n ELSE position + n - RingSize
      /\ wrapped' = (wrapped \/ position + n >= RingSize)
  BY <1>1, Remainder DEF Store
<1>4. \A i \in 1 .. RingSize :
          ring'[i] = IF position < i /\ i <= position + n THEN held[r][i - position]
                     ELSE IF RingSize + i <= position + n THEN held[r][RingSize + i - position]
                     ELSE ring[i]
  BY StoredCells
<1>5. /\ position <= l
      /\ ~wrapped => l = position
      /\ wrapped => RingSize + position <= l
      /\ \A i \in 1 .. position : ring[i] = stored[l - position + i]
      /\ wrapped => \A i \in position + 1 .. RingSize : ring[i] = stored[l - position - RingSize + i]
  BY DEF RingInv
<1> HIDE DEF n, l
<1>6. /\ \A i \in 1 .. RingSize : position < i /\ i <= position + n
             => ring'[i] = stored'[l + (i - position)]
      /\ \A i \in 1 .. RingSize : RingSize + i <= position + n
             => ring'[i] = stored'[l + (RingSize + i - position)]
      /\ \A i \in 1 .. RingSize : ~(position < i /\ i <= position + n) /\ ~(RingSize + i <= position + n)
             => ring'[i] = ring[i]
  <2>1. ASSUME NEW i \in 1 .. RingSize, position < i, i <= position + n
        PROVE  ring'[i] = stored'[l + (i - position)]
    <3>1. i - position \in 1 .. n
      BY <1>1, <2>1, Numbers
    <3>2. ring'[i] = held[r][i - position]
      BY <1>4, <2>1
    <3> QED
      BY <1>2, <3>1, <3>2
  <2>2. ASSUME NEW i \in 1 .. RingSize, RingSize + i <= position + n
        PROVE  ring'[i] = stored'[l + (RingSize + i - position)]
    <3>1. RingSize + i - position \in 1 .. n /\ ~(position < i)
      BY <1>1, <2>2, Numbers
    <3>2. ring'[i] = held[r][RingSize + i - position]
      BY <1>4, <2>2, <3>1
    <3> QED
      BY <1>2, <3>1, <3>2
  <2>3. ASSUME NEW i \in 1 .. RingSize,
               ~(position < i /\ i <= position + n), ~(RingSize + i <= position + n)
        PROVE  ring'[i] = ring[i]
    BY <1>4, <2>3
  <2> QED
    BY <2>1, <2>2, <2>3
<1>7. CASE position + n < RingSize
  <2>1. position' = position + n /\ (wrapped' <=> wrapped) /\ position' \in Nat
    <3>1. ~(position + n >= RingSize)
      BY <1>1, <1>7, Numbers
    <3> QED
      BY <1>1, <1>3, <1>7, <3>1
  <2>2. ASSUME NEW i \in 1 .. position'
        PROVE  ring'[i] = stored'[Len(stored') - position' + i]
    <3>1. Len(stored') - position' + i = l - position + i /\ i \in 1 .. RingSize
      BY <1>1, <1>2, <1>7, <2>1, Numbers
    <3>2. CASE i <= position
      <4>1. /\ ~(position < i /\ i <= position + n) /\ ~(RingSize + i <= position + n)
            /\ i \in 1 .. position /\ l - position + i \in 1 .. l
        BY <1>1, <1>5, <1>7, <3>1, <3>2, Numbers
      <4>2. ring'[i] = ring[i]
        BY <1>6, <3>1, <4>1
      <4>3. ring[i] = stored[l - position + i]
        BY <1>5, <4>1
      <4>4. stored'[l - position + i] = stored[l - position + i]
        BY <1>2, <4>1
      <4> QED
        BY <3>1, <4>2, <4>3, <4>4
    <3>3. CASE i > position
      <4>1. position < i /\ i <= position + n /\ l - position + i = l + (i - position)
        BY <1>1, <2>1, <3>3
      <4> QED
        BY <1>6, <3>1, <4>1
    <3> QED
      BY <1>1, <2>1, <3>2, <3>3
  <2>3. ASSUME wrapped', NEW i \in position' + 1 .. RingSize
        PROVE  ring'[i] = stored'[Len(stored') - position' - RingSize + i]
    <3>1. /\ Len(stored') - position' - RingSize + i = l - position - RingSize + i
          /\ i \in 1 .. RingSize /\ i \in position + 1 .. RingSize
          /\ ~(position < i /\ i <= position + n) /\ ~(RingSize + i <= position + n)
      BY <1>1, <1>2, <1>7, <2>1, Numbers
    <3>2. RingSize + position <= l
      BY <1>5, <2>1, <2>3
    <3>3. l - position - RingSize + i \in 1 .. l
      BY <1>1, <3>1, <3>2, Numbers
    <3>4. ring'[i] = ring[i]
      BY <1>6, <3>1
    <3>5. ring[i] = stored[l - position - RingSize + i]
      BY <1>5, <2>1, <2>3, <3>1
    <3>6. stored'[l - position - RingSize + i] = stored[l - position - RingSize + i]
      BY <1>2, <3>3
    <3> QED
      BY <3>1, <3>4, <3>5, <3>6
  <2>4. position' <= Len(stored')
    BY <1>1, <1>2, <1>5, <2>1
  <2>5. ~wrapped' => Len(stored') = position'
    BY <1>1, <1>2, <1>5, <2>1
  <2>6. wrapped' => RingSize + position' <= Len(stored')
    BY <1>1, <1>2, <1>5, <2>1, Numbers
  <2> QED
    BY <2>2, <2>3, <2>4, <2>5, <2>6 DEF RingInv
<1>8. CASE position + n >= RingSize
  <2>1. position' = position + n - RingSize /\ wrapped' /\ position' \in Nat
    <3>1. ~(position + n < RingSize) /\ position + n - RingSize \in Nat
      BY <1>1, <1>8, Numbers
    <3> QED
      BY <1>1, <1>3, <1>8, <3>1
  <2>2. ASSUME NEW i \in 1 .. position'
        PROVE  ring'[i] = stored'[Len(stored') - position' + i]
    <3>1. /\ RingSize + i <= position + n /\ i \in 1 .. RingSize
          /\ Len(stored') - position' + i = l + (RingSize + i - position)
      BY <1>1, <1>2, <2>1, Numbers
    <3> QED
      BY <1>6, <3>1
  <2>3. ASSUME NEW i \in position' + 1 .. RingSize
        PROVE  ring'[i] = stored'[Len(stored') - position' - RingSize + i]
    <3>0. i \in Nat /\ position' + 1 <= i /\ i <= RingSize
      BY <2>1, Numbers
    <3>1. /\ Len(stored') - position' - RingSize + i = l - position + i
          /\ i \in 1 .. RingSize /\ ~(RingSize + i <= position + n) /\ i <= position + n
      BY <1>1, <1>2, <1>8, <2>1, <3>0, Numbers
    <3>2. CASE i <= position
      <4>1. i \in 1 .. position /\ l - position + i \in 1 .. l /\ ~(position < i)
        BY <1>1, <1>5, <3>1, <3>2, Numbers
      <4>2. ring'[i] = ring[i]
        BY <1>6, <3>1, <4>1
      <4>3. ring[i] = stored[l - position + i]
        BY <1>5, <4>1
      <4>4. stored'[l - position + i] = stored[l - position + i]
        BY <1>2, <4>1
      <4> QED
        BY <3>1, <4>2, <4>3, <4>4
    <3>3. CASE i > position
      <4>1. position < i /\ l - position + i = l + (i - position)
        BY <1>1, <3>1, <3>3, Numbers
      <4> QED
        BY <1>6, <3>1, <4>1
    <3> QED
      BY <1>1, <3>1, <3>2, <3>3
  <2>4. RingSize + position' <= Len(stored') /\ position' <= Len(stored')
    BY <1>1, <1>2, <1>5, <2>1, Numbers
  <2> QED
    BY <2>1, <2>2, <2>3, <2>4 DEF RingInv
<1> QED
  BY <1>1, <1>7, <1>8, Numbers

LEMMA RingStep == TypeInv /\ RingInv /\ [Next]_vars => RingInv'
<1> SUFFICES ASSUME TypeInv, RingInv, [Next]_vars PROVE RingInv'
  OBVIOUS
<1> USE Numbers DEF RingInv, output, buffer, logging, readers, clients, api, sending, elsewhere
<1>1. CASE UNCHANGED vars
  BY <1>1 DEF vars
<1>2. CASE Emit
  BY <1>2 DEF Emit
<1>3. CASE Start
  BY <1>3 DEF Start, Attached
<1>4. CASE Spawn
  BY <1>4 DEF Spawn
<1>5. CASE StartFails
  BY <1>5 DEF StartFails, Detached
<1>6. CASE Stop
  BY <1>6 DEF Stop, Detached
<1>7. CASE Halt
  BY <1>7 DEF Halt, Halted
<1>8. CASE Reboot
  BY <1>8 DEF Reboot, Halted
<1>9. CASE Redetach
  BY <1>9 DEF Redetach, Detached
<1>10. CASE Restart
  BY <1>10 DEF Restart, Attached
<1>11. CASE Kill
  BY <1>11 DEF Kill
<1>12. ASSUME NEW r \in Reader, ReadLoop(r) PROVE RingInv'
  <2>1. CASE Select(r)
    BY <2>1 DEF Select, Goto
  <2>2. CASE Read(r)
    BY <2>2 DEF Read, Goto
  <2>3. CASE EndOfFile(r)
    BY <2>3 DEF EndOfFile, Goto
  <2>4. CASE Store(r)
    BY <2>4, StoreKeepsRing
  <2>5. CASE Log(r)
    BY <2>5 DEF Log, Continue, Goto
  <2>6. ASSUME NEW c \in Client, Send(r, c) PROVE RingInv'
    BY <2>6 DEF Send, Continue, Goto
  <2>7. CASE ReadFails(r)
    BY <2>7 DEF ReadFails, Goto
  <2> QED
    BY <1>12, <2>1, <2>2, <2>3, <2>4, <2>5, <2>6, <2>7 DEF ReadLoop, Loop
<1>13. ASSUME NEW c \in Client, Serve(c) PROVE RingInv'
  <2>1. ASSUME NEW t \in Token, Present(c, t) PROVE RingInv'
    BY <2>1 DEF Present
  <2>2. CASE AddConn(c)
    BY <2>2 DEF AddConn
  <2>3. CASE ReadRing(c)
    BY <2>3 DEF ReadRing
  <2>4. CASE SendHistory(c)
    BY <2>4 DEF SendHistory
  <2>5. CASE Leave(c)
    BY <2>5 DEF Leave
  <2>6. CASE Check(c)
    BY <2>6 DEF Check
  <2>7. CASE SendCell(c)
    BY <2>7 DEF SendCell
  <2> QED
    BY <1>13, <2>1, <2>2, <2>3, <2>4, <2>5, <2>6, <2>7 DEF Serve
<1>14. ASSUME NEW t \in Token, IssueToken(t) PROVE RingInv'
  BY <1>14 DEF IssueToken
<1>15. ASSUME NEW t \in Token, Expire(t) PROVE RingInv'
  BY <1>15 DEF Expire
<1>16. CASE Exit
  BY <1>16 DEF Exit
<1> QED
  BY <1>1, <1>2, <1>3, <1>4, <1>5, <1>6, <1>7, <1>8, <1>9, <1>10,
     <1>11, <1>12, <1>13, <1>14, <1>15, <1>16 DEF Next, Operate

LEMMA SequencesEqual ==
    ASSUME NEW S, NEW s \in Seq(S), NEW t \in Seq(S), Len(s) = Len(t),
           \A i \in 1 .. Len(s) : s[i] = t[i]
    PROVE  s = t
OBVIOUS

LEMMA RingTail == ASSUME TypeInv, RingInv PROVE RingIsTail
<1> DEFINE l == Len(stored)
<1>1. /\ position \in Nat /\ position < RingSize /\ wrapped \in BOOLEAN
      /\ l \in Nat /\ stored \in Seq(Cell)
  BY Numbers DEF TypeInv, TypeOK, Unit, Cell
<1>2. ring \in Seq(Cell) /\ Len(ring) = RingSize
  BY Numbers DEF TypeInv, TypeOK
<1>3. /\ SubSeq(ring, 1, position) \in Seq(Cell) /\ Len(SubSeq(ring, 1, position)) = position
      /\ \A i \in 1 .. position : SubSeq(ring, 1, position)[i] = ring[i]
  BY <1>1, <1>2, Numbers
<1>4. CASE ~wrapped
  <2>1. l = position /\ \A i \in 1 .. position : ring[i] = stored[i]
    <3>1. l = position /\ \A i \in 1 .. position : ring[i] = stored[l - position + i]
      BY <1>4 DEF RingInv
    <3>2. \A i \in 1 .. position : l - position + i = i
      BY <1>1, <3>1
    <3> QED
      BY <3>1, <3>2
  <2>2. SubSeq(ring, 1, position) = stored
    BY <1>1, <1>3, <2>1, SequencesEqual
  <2>3. LastOf(stored, RingSize) = stored
    BY <1>1, <2>1, Numbers DEF LastOf
  <2> QED
    BY <1>4, <2>2, <2>3 DEF RingIsTail, Chronological
<1>5. CASE wrapped
  <2> DEFINE old  == SubSeq(ring, position + 1, RingSize)
             all  == old \o SubSeq(ring, 1, position)
             tail == SubSeq(stored, l - RingSize + 1, l)
  <2>1. RingSize + position <= l
    BY <1>5 DEF RingInv
  <2>2. /\ old \in Seq(Cell) /\ Len(old) = RingSize - position
        /\ \A i \in 1 .. RingSize - position : old[i] = ring[position + i]
    BY <1>1, <1>2, Numbers
  <2>3. /\ tail \in Seq(Cell) /\ Len(tail) = RingSize
        /\ \A i \in 1 .. RingSize : tail[i] = stored[l - RingSize + i]
    BY <1>1, <2>1, Numbers
  <2>4. /\ all \in Seq(Cell) /\ Len(all) = RingSize
        /\ \A i \in 1 .. RingSize - position : all[i] = old[i]
        /\ \A i \in 1 .. position : all[RingSize - position + i] = ring[i]
    <3> HIDE DEF old
    <3> QED
      BY <1>1, <1>3, <2>2, Numbers
  <2> HIDE DEF old, all, tail
  <2>5. ASSUME NEW i \in 1 .. RingSize PROVE all[i] = tail[i]
    <3>1. CASE i <= RingSize - position
      <4>1. /\ all[i] = ring[position + i] /\ position + i \in position + 1 .. RingSize
            /\ l - position - RingSize + (position + i) = l - RingSize + i
        BY <1>1, <2>2, <2>4, <3>1, Numbers
      <4>2. ring[position + i] = stored[l - RingSize + i]
        BY <1>5, <4>1 DEF RingInv
      <4> QED
        BY <2>3, <4>1, <4>2
    <3>2. CASE i > RingSize - position
      <4> DEFINE k == i - (RingSize - position)
      <4>1. /\ k \in 1 .. position /\ i = RingSize - position + k
            /\ l - position + k = l - RingSize + i
        BY <1>1, <3>2, Numbers
      <4>2. ring[k] = stored[l - RingSize + i]
        BY <4>1 DEF RingInv
      <4> HIDE DEF k
      <4> QED
        BY <2>3, <2>4, <4>1, <4>2
    <3> QED
      BY <1>1, <3>1, <3>2, Numbers
  <2>6. all = tail
    BY <2>3, <2>4, <2>5, SequencesEqual
  <2>7. LastOf(stored, RingSize) = tail
    BY <1>1, <2>1, Numbers DEF LastOf, tail
  <2> QED
    BY <1>5, <2>6, <2>7 DEF RingIsTail, Chronological, all, old
<1> QED
  BY <1>1, <1>4, <1>5

\* What ReadRing returns is the end of the output that was stored, for every
\* size of the ring, wherever the writes end in it (write, ReadRing).
THEOREM RingHolds == Spec => []RingIsTail
<1>1. Init => RingInv
  BY Numbers DEF Init, RingInv
<1> QED
  BY <1>1, RingTail, TypeInit, TypeStep, RingStep, PTL DEF Spec

-----------------------------------------------------------------------------
(* The order of the output.                                                *)

Before(s, t) == \A i \in DOMAIN s, j \in DOMAIN t : s[i] < t[j]
UpTo(s, n)   == \A i \in DOMAIN s : s[i] <= n

\* A reader that still runs is the attached one or was cancelled, and there is
\* one at most while none has lingered.
OneReader ==
    /\ \A r \in Live : r \in cancelled \cup {current}
    /\ ~lingered => \A r, q \in Live : r = q

\* Output goes from the FIFO through one reader to the ring, and then to the log.
Ordered ==
    /\ Increasing(stored) /\ Increasing(log) /\ Increasing(fifo)
    /\ UpTo(stored, emitted) /\ UpTo(log, emitted) /\ UpTo(fifo, emitted)
    /\ Before(stored, fifo) /\ Before(log, fifo)
    /\ \A r \in Reader : rpc[r] \in {"ring", "log"} =>
          /\ Increasing(held[r]) /\ UpTo(held[r], emitted)
          /\ Before(held[r], fifo) /\ Before(log, held[r])
          /\ rpc[r] = "ring" => Before(stored, held[r])

OrderInv == TypeInv /\ OneReader /\ (~lingered => Ordered)

LEMMA UnitsAreNumbers == \A s \in Seq(Unit) : \A i \in DOMAIN s : s[i] \in Nat
<1>1. Unit \subseteq Nat
  BY Numbers DEF Unit
<1>2. \A s \in Seq(Unit) : \A i \in DOMAIN s : s[i] \in Unit
  OBVIOUS
<1> QED
  BY <1>1, <1>2

LEMMA Joined ==
    ASSUME NEW s, s \in Seq(Unit), NEW t, t \in Seq(Unit)
    PROVE  /\ Increasing(s) /\ Increasing(t) /\ Before(s, t) => Increasing(s \o t)
           /\ \A n \in Nat : UpTo(s, n) /\ UpTo(t, n) => UpTo(s \o t, n)
           /\ \A u \in Seq(Unit) : Before(s, u) /\ Before(t, u) => Before(s \o t, u)
<1>1. Len(s) \in Nat /\ Len(t) \in Nat /\ DOMAIN s = 1 .. Len(s) /\ DOMAIN t = 1 .. Len(t)
  OBVIOUS
<1>2. s \o t \in Seq(Unit) /\ Len(s \o t) = Len(s) + Len(t) /\ DOMAIN (s \o t) = 1 .. Len(s) + Len(t)
  OBVIOUS
<1>3. \A i \in DOMAIN (s \o t) :
         \/ i \in DOMAIN s /\ (s \o t)[i] = s[i]
         \/ i > Len(s) /\ i - Len(s) \in DOMAIN t /\ (s \o t)[i] = t[i - Len(s)]
  BY <1>1
<1> DEFINE st == s \o t
<1>4. DOMAIN st \subseteq Nat
  BY <1>1, <1>2
<1> HIDE DEF st
<1>5. ASSUME Increasing(s), Increasing(t), Before(s, t) PROVE Increasing(st)
  <2> SUFFICES ASSUME NEW i \in DOMAIN st, NEW j \in DOMAIN st, i < j PROVE st[i] < st[j]
    BY DEF Increasing
  <2>1. CASE i \in DOMAIN s /\ st[i] = s[i] /\ j \in DOMAIN s /\ st[j] = s[j]
    BY <1>5, <2>1 DEF Increasing
  <2>2. CASE i \in DOMAIN s /\ st[i] = s[i] /\ j - Len(s) \in DOMAIN t /\ st[j] = t[j - Len(s)]
    BY <1>5, <2>2 DEF Before
  <2>3. CASE /\ i - Len(s) \in DOMAIN t /\ st[i] = t[i - Len(s)]
             /\ j - Len(s) \in DOMAIN t /\ st[j] = t[j - Len(s)]
    <3>1. i - Len(s) < j - Len(s)
      BY <1>1, <1>4
    <3> QED
      BY <1>5, <2>3, <3>1 DEF Increasing
  <2>4. CASE i > Len(s) /\ j \in DOMAIN s
    BY <1>1, <1>4, <2>4
  <2> QED
    BY <1>3, <2>1, <2>2, <2>3, <2>4 DEF st
<1>6. \A n \in Nat : UpTo(s, n) /\ UpTo(t, n) => UpTo(st, n)
  BY <1>3 DEF UpTo, st
<1>7. \A u \in Seq(Unit) : Before(s, u) /\ Before(t, u) => Before(st, u)
  BY <1>3 DEF Before, st
<1> QED
  BY <1>5, <1>6, <1>7 DEF st

LEMMA Extended ==
    ASSUME NEW s, s \in Seq(Unit), NEW n \in Nat, UpTo(s, n), Increasing(s)
    PROVE  /\ Increasing(Append(s, n + 1)) /\ UpTo(Append(s, n + 1), n + 1)
           /\ \A u \in Seq(Unit) : Before(u, s) /\ UpTo(u, n) => Before(u, Append(s, n + 1))
<1> DEFINE t == Append(s, n + 1)
<1>1. Len(s) \in Nat /\ DOMAIN s = 1 .. Len(s) /\ \A i \in DOMAIN s : s[i] \in Nat
  BY UnitsAreNumbers
<1>2. DOMAIN t = 1 .. Len(s) + 1 /\ t[Len(s) + 1] = n + 1 /\ \A i \in 1 .. Len(s) : t[i] = s[i]
  OBVIOUS
<1> HIDE DEF t
<1>3. \A i \in DOMAIN t : i \in Nat /\ ((i \in DOMAIN s /\ t[i] = s[i]) \/ (i = Len(s) + 1 /\ t[i] = n + 1))
  <2> SUFFICES ASSUME NEW i \in DOMAIN t
               PROVE  i \in Nat /\ ((i \in DOMAIN s /\ t[i] = s[i]) \/ (i = Len(s) + 1 /\ t[i] = n + 1))
    OBVIOUS
  <2>1. i \in 1 .. Len(s) \/ i = Len(s) + 1
    BY <1>1, <1>2
  <2>2. i \in Nat
    BY <1>1, <2>1
  <2>3. i \in 1 .. Len(s) => i \in DOMAIN s /\ t[i] = s[i]
    BY <1>1, <1>2
  <2>4. i = Len(s) + 1 => t[i] = n + 1
    BY <1>2
  <2> QED
    BY <2>1, <2>2, <2>3, <2>4
<1>4. UpTo(t, n + 1)
  BY <1>1, <1>3 DEF UpTo
<1>5. Increasing(t)
  <2> SUFFICES ASSUME NEW i \in DOMAIN t, NEW j \in DOMAIN t, i < j PROVE t[i] < t[j]
    BY DEF Increasing
  <2>1. i \in DOMAIN s /\ t[i] = s[i]
    BY <1>1, <1>2, <1>3
  <2>2. CASE j \in DOMAIN s /\ t[j] = s[j]
    BY <2>1, <2>2 DEF Increasing
  <2>3. CASE t[j] = n + 1
    BY <1>1, <2>1, <2>3 DEF UpTo
  <2> QED
    BY <1>3, <2>2, <2>3
<1>6. ASSUME NEW u, u \in Seq(Unit), Before(u, s), UpTo(u, n) PROVE Before(u, t)
  <2>1. \A i \in DOMAIN u : u[i] \in Nat
    BY <1>6, UnitsAreNumbers
  <2> QED
    BY <1>3, <1>6, <2>1 DEF Before, UpTo
<1> QED
  BY <1>4, <1>5, <1>6 DEF t

\* The two parts of a sequence that is cut.
LEMMA Cut ==
    ASSUME NEW s, s \in Seq(Unit), Increasing(s), NEW n \in 0 .. Len(s)
    PROVE  LET a == SubSeq(s, 1, n)
               b == SubSeq(s, n + 1, Len(s))
           IN  /\ a \in Seq(Unit) /\ b \in Seq(Unit)
               /\ Increasing(a) /\ Increasing(b) /\ Before(a, b)
               /\ \A m \in Nat : UpTo(s, m) => UpTo(a, m) /\ UpTo(b, m)
               /\ \A u \in Seq(Unit) : Before(u, s) => Before(u, a) /\ Before(u, b)
<1> DEFINE a == SubSeq(s, 1, n)
           b == SubSeq(s, n + 1, Len(s))
<1>1. Len(s) \in Nat /\ DOMAIN s = 1 .. Len(s)
  OBVIOUS
<1>2. a \in Seq(Unit) /\ Len(a) = n /\ DOMAIN a = 1 .. n /\ \A i \in 1 .. n : a[i] = s[i]
  BY <1>1
<1>3. /\ b \in Seq(Unit) /\ Len(b) = Len(s) - n /\ DOMAIN b = 1 .. Len(s) - n
      /\ \A i \in 1 .. Len(s) - n : b[i] = s[n + i]
  BY <1>1
<1> HIDE DEF a, b
<1>4. /\ \A i \in DOMAIN a : i \in DOMAIN s /\ i \in Nat /\ i <= n /\ a[i] = s[i]
      /\ \A i \in DOMAIN b : n + i \in DOMAIN s /\ i \in Nat /\ i > 0 /\ b[i] = s[n + i]
  BY <1>1, <1>2, <1>3
<1>5. Increasing(a)
  BY <1>4 DEF Increasing
<1>6. Increasing(b)
  <2> SUFFICES ASSUME NEW i \in DOMAIN b, NEW j \in DOMAIN b, i < j PROVE b[i] < b[j]
    BY DEF Increasing
  <2>1. n + i < n + j
    BY <1>4
  <2> QED
    BY <1>4, <2>1 DEF Increasing
<1>7. Before(a, b)
  <2> SUFFICES ASSUME NEW i \in DOMAIN a, NEW j \in DOMAIN b PROVE a[i] < b[j]
    BY DEF Before
  <2>1. i < n + j
    BY <1>4
  <2> QED
    BY <1>4, <2>1 DEF Increasing
<1>8. \A m \in Nat : UpTo(s, m) => UpTo(a, m) /\ UpTo(b, m)
  BY <1>4 DEF UpTo
<1>9. \A u \in Seq(Unit) : Before(u, s) => Before(u, a) /\ Before(u, b)
  BY <1>4 DEF Before
<1> QED
  BY <1>2, <1>3, <1>5, <1>6, <1>7, <1>8, <1>9 DEF a, b

LEMMA AttachedReader == ASSUME TypeInv, OneReader, NEW from, Attached(from) PROVE OneReader'
<1>1. UNCHANGED cancelled
  BY DEF Attached
<1>2. rpc \in [Reader -> Point] /\ None \notin Reader
  BY ConsoleAssumption DEF TypeInv, TypeOK
<1>3. CASE UNCHANGED <<rpc, current, lingered, logFile>>
  <2>1. Live' = Live
    BY <1>3 DEF Live
  <2> QED
    BY <1>1, <1>3, <2>1 DEF OneReader
<1>4. ASSUME current = None,
             NEW r \in Reader, rpc' = [rpc EXCEPT ![r] = "select"], current' = r,
             lingered' = (lingered \/ Live \cap cancelled # {})
      PROVE  OneReader'
  <2>1. \A q \in Live' : q = r \/ q \in Live
    BY <1>2, <1>4 DEF Live
  <2>2. Live \subseteq cancelled
    BY <1>2, <1>4 DEF OneReader, Live
  <2>3. \A q \in Live' : q \in cancelled' \cup {current'}
    BY <1>1, <1>4, <2>1, <2>2
  <2>4. ~lingered' => Live = {}
    BY <1>4, <2>2
  <2> QED
    BY <2>1, <2>3, <2>4 DEF OneReader
<1> QED
  BY <1>3, <1>4 DEF Attached

LEMMA ReaderStep == TypeInv /\ OneReader /\ [Next]_vars => OneReader'
<1> SUFFICES ASSUME TypeInv, OneReader, [Next]_vars PROVE OneReader'
  OBVIOUS
<1> USE ConsoleAssumption DEF TypeInv, TypeOK, OneReader, Live, output, buffer, logging, readers, clients, api, sending, elsewhere
<1>1. CASE UNCHANGED vars
  BY <1>1 DEF vars
<1>2. CASE Emit
  BY <1>2 DEF Emit
<1>3. CASE Start
  BY <1>3, AttachedReader DEF Start
<1>4. CASE Spawn
  BY <1>4 DEF Spawn
<1>5. CASE StartFails
  BY <1>5 DEF StartFails, Detached
<1>6. CASE Stop
  BY <1>6 DEF Stop, Detached
<1>7. CASE Halt
  BY <1>7 DEF Halt, Halted
<1>8. CASE Reboot
  BY <1>8 DEF Reboot, Halted
<1>9. CASE Redetach
  BY <1>9 DEF Redetach, Detached
<1>10. CASE Restart
  BY <1>10, AttachedReader DEF Restart
<1>11. CASE Kill
  BY <1>11 DEF Kill
<1>12. ASSUME NEW r \in Reader, ReadLoop(r) PROVE OneReader'
  <2>1. CASE Select(r)
    BY <2>1 DEF Select, Goto
  <2>2. CASE Read(r)
    BY <2>2 DEF Read, Goto
  <2>3. CASE EndOfFile(r)
    BY <2>3 DEF EndOfFile, Goto
  <2>4. CASE Store(r)
    BY <2>4 DEF Store, Goto
  <2>5. CASE Log(r)
    BY <2>5 DEF Log, Continue, Goto
  <2>6. ASSUME NEW c \in Client, Send(r, c) PROVE OneReader'
    BY <2>6 DEF Send, Continue, Goto
  <2>7. CASE ReadFails(r)
    BY <2>7 DEF ReadFails, Goto
  <2> QED
    BY <1>12, <2>1, <2>2, <2>3, <2>4, <2>5, <2>6, <2>7 DEF ReadLoop, Loop
<1>13. ASSUME NEW c \in Client, Serve(c) PROVE OneReader'
  <2>1. ASSUME NEW t \in Token, Present(c, t) PROVE OneReader'
    BY <2>1 DEF Present
  <2>2. CASE AddConn(c)
    BY <2>2 DEF AddConn
  <2>3. CASE ReadRing(c)
    BY <2>3 DEF ReadRing
  <2>4. CASE SendHistory(c)
    BY <2>4 DEF SendHistory
  <2>5. CASE Leave(c)
    BY <2>5 DEF Leave
  <2>6. CASE Check(c)
    BY <2>6 DEF Check
  <2>7. CASE SendCell(c)
    BY <2>7 DEF SendCell
  <2> QED
    BY <1>13, <2>1, <2>2, <2>3, <2>4, <2>5, <2>6, <2>7 DEF Serve
<1>14. ASSUME NEW t \in Token, IssueToken(t) PROVE OneReader'
  BY <1>14 DEF IssueToken
<1>15. ASSUME NEW t \in Token, Expire(t) PROVE OneReader'
  BY <1>15 DEF Expire
<1>16. CASE Exit
  BY <1>16 DEF Exit
<1> QED
  BY <1>1, <1>2, <1>3, <1>4, <1>5, <1>6, <1>7, <1>8, <1>9, <1>10,
     <1>11, <1>12, <1>13, <1>14, <1>15, <1>16 DEF Next, Operate

\* A step that neither takes output nor passes it on.
LEMMA OrderedStays ==
    ASSUME Ordered, UNCHANGED <<emitted, fifo, stored, log>>,
           \A r \in Reader : rpc'[r] \in {"ring", "log"} => rpc'[r] = rpc[r] /\ held'[r] = held[r]
    PROVE  Ordered'
BY DEF Ordered

LEMMA OrderedTypes ==
    ASSUME TypeInv
    PROVE  /\ stored \in Seq(Unit) /\ log \in Seq(Unit) /\ fifo \in Seq(Unit)
           /\ emitted \in Nat /\ \A r \in Reader : held[r] \in Seq(Unit)
BY Numbers DEF TypeInv, TypeOK, Cell

LEMMA EmitOrdered == ASSUME TypeInv, Ordered, Emit PROVE Ordered'
<1>1. /\ stored \in Seq(Unit) /\ log \in Seq(Unit) /\ fifo \in Seq(Unit)
      /\ emitted \in Nat /\ \A r \in Reader : held[r] \in Seq(Unit)
  BY OrderedTypes
<1>2. /\ emitted' = emitted + 1 /\ fifo' \in {fifo, Append(fifo, emitted + 1)}
      /\ UNCHANGED <<stored, log, rpc, held>>
  BY DEF Emit, buffer, logging, readers
<1>3. ASSUME NEW s, s \in Seq(Unit), UpTo(s, emitted) PROVE UpTo(s, emitted + 1)
  <2>1. \A i \in DOMAIN s : s[i] \in Nat
    BY <1>3, UnitsAreNumbers
  <2> QED
    BY <1>1, <1>3, <2>1 DEF UpTo
<1>4. /\ UpTo(stored, emitted + 1) /\ UpTo(log, emitted + 1) /\ UpTo(fifo, emitted + 1)
      /\ \A r \in Reader : rpc[r] \in {"ring", "log"} => UpTo(held[r], emitted + 1)
  BY <1>1, <1>3 DEF Ordered
<1>5. CASE fifo' = fifo
  BY <1>2, <1>4, <1>5 DEF Ordered
<1>6. CASE fifo' = Append(fifo, emitted + 1)
  <2>1. /\ Increasing(fifo') /\ UpTo(fifo', emitted + 1)
        /\ \A u \in Seq(Unit) : Before(u, fifo) /\ UpTo(u, emitted) => Before(u, fifo')
    BY <1>1, <1>6, Extended DEF Ordered
  <2>2. Before(stored, fifo') /\ Before(log, fifo')
    BY <1>1, <2>1 DEF Ordered
  <2>3. \A r \in Reader : rpc[r] \in {"ring", "log"} => Before(held[r], fifo')
    BY <1>1, <2>1 DEF Ordered
  <2> QED
    BY <1>2, <1>4, <2>1, <2>2, <2>3 DEF Ordered
<1> QED
  BY <1>2, <1>5, <1>6

\* Only one reader has output in its hands.
LEMMA Alone ==
    ASSUME OneReader, ~lingered, NEW r \in Reader, rpc[r] \in {"read", "ring", "log"}
    PROVE  \A q \in Reader : rpc[q] \in {"ring", "log"} => q = r
BY DEF OneReader, Live

LEMMA ReadOrdered ==
    ASSUME TypeInv, OneReader, ~lingered, Ordered, NEW r \in Reader, Read(r)
    PROVE  Ordered'
<1>1. /\ stored \in Seq(Unit) /\ log \in Seq(Unit) /\ fifo \in Seq(Unit)
      /\ emitted \in Nat /\ Len(fifo) \in Nat /\ held \in [Reader -> Seq(Unit)]
  BY OrderedTypes DEF TypeInv, TypeOK
<1> DEFINE n == IF Len(fifo) < Chunk THEN Len(fifo) ELSE Chunk
           a == SubSeq(fifo, 1, n)
           b == SubSeq(fifo, n + 1, Len(fifo))
<1>2. n \in 0 .. Len(fifo)
  BY <1>1, Numbers
<1>3. held' = [held EXCEPT ![r] = a] /\ fifo' = b /\ rpc' = [rpc EXCEPT ![r] = "ring"]
  BY DEF Read, Goto
<1>4. UNCHANGED <<emitted, stored, log>>
  BY DEF Read, buffer, logging
<1> HIDE DEF n
<1>5. Increasing(fifo) /\ UpTo(fifo, emitted) /\ Before(stored, fifo) /\ Before(log, fifo)
  BY DEF Ordered
<1>6. /\ Increasing(a) /\ Increasing(b) /\ Before(a, b) /\ UpTo(a, emitted) /\ UpTo(b, emitted)
      /\ Before(stored, a) /\ Before(stored, b) /\ Before(log, a) /\ Before(log, b)
  BY <1>1, <1>2, <1>5, Cut
<1> HIDE DEF a, b
<1>7. \A q \in Reader : rpc'[q] \in {"ring", "log"} => q = r
  BY <1>3, Alone DEF Read, TypeInv, TypeOK
<1>8. held'[r] = a
  BY <1>1, <1>3
<1> QED
  BY <1>3, <1>4, <1>6, <1>7, <1>8 DEF Ordered

LEMMA StoreOrdered ==
    ASSUME TypeInv, OneReader, ~lingered, Ordered, NEW r \in Reader, Store(r)
    PROVE  Ordered'
<1>1. /\ stored \in Seq(Unit) /\ log \in Seq(Unit) /\ fifo \in Seq(Unit)
      /\ emitted \in Nat /\ held[r] \in Seq(Unit)
  BY OrderedTypes
<1>2. /\ stored' = stored \o held[r] /\ rpc' = [rpc EXCEPT ![r] = "log"]
      /\ UNCHANGED <<emitted, fifo, log, held>>
  BY DEF Store, Goto, output, logging
<1>3. /\ Increasing(stored) /\ Increasing(held[r]) /\ Before(stored, held[r])
      /\ UpTo(stored, emitted) /\ UpTo(held[r], emitted)
      /\ Before(stored, fifo) /\ Before(held[r], fifo)
  BY DEF Ordered, Store
<1>4. /\ Increasing(stored \o held[r]) /\ UpTo(stored \o held[r], emitted)
      /\ Before(stored \o held[r], fifo)
  BY <1>1, <1>3, Joined
<1>5. \A q \in Reader : rpc'[q] \in {"ring", "log"} => q = r
  BY <1>2, Alone DEF Store, TypeInv, TypeOK
<1>6. rpc'[r] = "log"
  BY <1>2 DEF TypeInv, TypeOK
<1>7. Before(log, held[r])
  BY DEF Ordered, Store
<1> QED
  BY <1>2, <1>3, <1>4, <1>5, <1>6, <1>7 DEF Ordered

LEMMA LogOrdered ==
    ASSUME TypeInv, OneReader, ~lingered, Ordered, NEW r \in Reader, Log(r)
    PROVE  Ordered'
<1>1. /\ stored \in Seq(Unit) /\ log \in Seq(Unit) /\ fifo \in Seq(Unit)
      /\ emitted \in Nat /\ held[r] \in Seq(Unit)
  BY OrderedTypes
<1>2. /\ log' \in {log, log \o held[r]} /\ UNCHANGED <<emitted, fifo, stored>>
      /\ rpc' \in {[rpc EXCEPT ![r] = "select"], [rpc EXCEPT ![r] = "send"]}
  BY DEF Log, Continue, Goto, output, buffer
<1>3. /\ Increasing(log) /\ Increasing(held[r]) /\ Before(log, held[r])
      /\ UpTo(log, emitted) /\ UpTo(held[r], emitted)
      /\ Before(log, fifo) /\ Before(held[r], fifo)
  BY DEF Ordered, Log
<1>4. /\ Increasing(log \o held[r]) /\ UpTo(log \o held[r], emitted)
      /\ Before(log \o held[r], fifo)
  BY <1>1, <1>3, Joined
<1>5. \A q \in Reader : rpc'[q] \notin {"ring", "log"}
  BY <1>2, Alone DEF Log, TypeInv, TypeOK
<1> QED
  BY <1>2, <1>3, <1>4, <1>5 DEF Ordered

LEMMA FreshOrdered ==
    ASSUME fifo' = <<>>, stored' = <<>>, log' = <<>>, \A r \in Reader : rpc'[r] = "none"
    PROVE  Ordered'
BY DEF Ordered, Increasing, UpTo, Before

LEMMA OrderStep == OrderInv /\ ~lingered' /\ [Next]_vars => lingered \/ Ordered'
<1> SUFFICES ASSUME TypeInv, OneReader, ~lingered, Ordered, [Next]_vars PROVE Ordered'
  BY DEF OrderInv
<1> USE DEF TypeInv, TypeOK, output, buffer, logging, readers, clients, api, sending, elsewhere
<1>1. CASE UNCHANGED vars
  BY <1>1, OrderedStays DEF vars
<1>2. CASE Emit
  BY <1>2, EmitOrdered
<1>3. CASE Start
  BY <1>3, OrderedStays DEF Start, Attached
<1>4. CASE Spawn
  BY <1>4, OrderedStays DEF Spawn
<1>5. CASE StartFails
  BY <1>5, OrderedStays DEF StartFails, Detached
<1>6. CASE Stop
  BY <1>6, OrderedStays DEF Stop, Detached
<1>7. CASE Halt
  BY <1>7, OrderedStays DEF Halt, Halted
<1>8. CASE Reboot
  BY <1>8, OrderedStays DEF Reboot, Halted
<1>9. CASE Redetach
  BY <1>9, OrderedStays DEF Redetach, Detached
<1>10. CASE Restart
  BY <1>10, OrderedStays DEF Restart, Attached
<1>11. CASE Kill
  BY <1>11, FreshOrdered DEF Kill
<1>12. ASSUME NEW r \in Reader, ReadLoop(r) PROVE Ordered'
  <2>1. CASE Select(r)
    BY <2>1, OrderedStays DEF Select, Goto
  <2>2. CASE Read(r)
    BY <2>2, ReadOrdered
  <2>3. CASE EndOfFile(r)
    BY <2>3, OrderedStays DEF EndOfFile, Goto
  <2>4. CASE Store(r)
    BY <2>4, StoreOrdered
  <2>5. CASE Log(r)
    BY <2>5, LogOrdered
  <2>6. ASSUME NEW c \in Client, Send(r, c) PROVE Ordered'
    BY <2>6, OrderedStays DEF Send, Continue, Goto
  <2>7. CASE ReadFails(r)
    BY <2>7, OrderedStays DEF ReadFails, Goto
  <2> QED
    BY <1>12, <2>1, <2>2, <2>3, <2>4, <2>5, <2>6, <2>7 DEF ReadLoop, Loop
<1>13. ASSUME NEW c \in Client, Serve(c) PROVE Ordered'
  <2>1. ASSUME NEW t \in Token, Present(c, t) PROVE Ordered'
    BY <2>1, OrderedStays DEF Present
  <2>2. CASE AddConn(c)
    BY <2>2, OrderedStays DEF AddConn
  <2>3. CASE ReadRing(c)
    BY <2>3, OrderedStays DEF ReadRing
  <2>4. CASE SendHistory(c)
    BY <2>4, OrderedStays DEF SendHistory
  <2>5. CASE Leave(c)
    BY <2>5, OrderedStays DEF Leave
  <2>6. CASE Check(c)
    BY <2>6, OrderedStays DEF Check
  <2>7. CASE SendCell(c)
    BY <2>7, OrderedStays DEF SendCell
  <2> QED
    BY <1>13, <2>1, <2>2, <2>3, <2>4, <2>5, <2>6, <2>7 DEF Serve
<1>14. ASSUME NEW t \in Token, IssueToken(t) PROVE Ordered'
  BY <1>14, OrderedStays DEF IssueToken
<1>15. ASSUME NEW t \in Token, Expire(t) PROVE Ordered'
  BY <1>15, OrderedStays DEF Expire
<1>16. CASE Exit
  BY <1>16, OrderedStays DEF Exit
<1> QED
  BY <1>1, <1>2, <1>3, <1>4, <1>5, <1>6, <1>7, <1>8, <1>9, <1>10,
     <1>11, <1>12, <1>13, <1>14, <1>15, <1>16 DEF Next, Operate

\* Only a new runtime forgets that a reader lingered.
LEMMA LingerStep == lingered /\ ~Kill /\ [Next]_vars => lingered'
<1> SUFFICES ASSUME lingered, ~Kill, [Next]_vars PROVE lingered'
  OBVIOUS
<1> USE DEF output, buffer, logging, readers, clients, api, sending, elsewhere
<1>1. CASE UNCHANGED vars
  BY <1>1 DEF vars
<1>2. CASE Emit
  BY <1>2 DEF Emit
<1>3. CASE Start
  BY <1>3 DEF Start, Attached
<1>4. CASE Spawn
  BY <1>4 DEF Spawn
<1>5. CASE StartFails
  BY <1>5 DEF StartFails, Detached
<1>6. CASE Stop
  BY <1>6 DEF Stop, Detached
<1>7. CASE Halt
  BY <1>7 DEF Halt, Halted
<1>8. CASE Reboot
  BY <1>8 DEF Reboot, Halted
<1>9. CASE Redetach
  BY <1>9 DEF Redetach, Detached
<1>10. CASE Restart
  BY <1>10 DEF Restart, Attached
<1>11. CASE Kill
  BY <1>11
<1>12. ASSUME NEW r \in Reader, ReadLoop(r) PROVE lingered'
  <2>1. CASE Select(r)
    BY <2>1 DEF Select, Goto
  <2>2. CASE Read(r)
    BY <2>2 DEF Read, Goto
  <2>3. CASE EndOfFile(r)
    BY <2>3 DEF EndOfFile, Goto
  <2>4. CASE Store(r)
    BY <2>4 DEF Store, Goto
  <2>5. CASE Log(r)
    BY <2>5 DEF Log, Continue, Goto
  <2>6. ASSUME NEW c \in Client, Send(r, c) PROVE lingered'
    BY <2>6 DEF Send, Continue, Goto
  <2>7. CASE ReadFails(r)
    BY <2>7 DEF ReadFails, Goto
  <2> QED
    BY <1>12, <2>1, <2>2, <2>3, <2>4, <2>5, <2>6, <2>7 DEF ReadLoop, Loop
<1>13. ASSUME NEW c \in Client, Serve(c) PROVE lingered'
  <2>1. ASSUME NEW t \in Token, Present(c, t) PROVE lingered'
    BY <2>1 DEF Present
  <2>2. CASE AddConn(c)
    BY <2>2 DEF AddConn
  <2>3. CASE ReadRing(c)
    BY <2>3 DEF ReadRing
  <2>4. CASE SendHistory(c)
    BY <2>4 DEF SendHistory
  <2>5. CASE Leave(c)
    BY <2>5 DEF Leave
  <2>6. CASE Check(c)
    BY <2>6 DEF Check
  <2>7. CASE SendCell(c)
    BY <2>7 DEF SendCell
  <2> QED
    BY <1>13, <2>1, <2>2, <2>3, <2>4, <2>5, <2>6, <2>7 DEF Serve
<1>14. ASSUME NEW t \in Token, IssueToken(t) PROVE lingered'
  BY <1>14 DEF IssueToken
<1>15. ASSUME NEW t \in Token, Expire(t) PROVE lingered'
  BY <1>15 DEF Expire
<1>16. CASE Exit
  BY <1>16 DEF Exit
<1> QED
  BY <1>1, <1>2, <1>3, <1>4, <1>5, <1>6, <1>7, <1>8, <1>9, <1>10,
     <1>11, <1>12, <1>13, <1>14, <1>15, <1>16 DEF Next, Operate

LEMMA OrderInit == Init => OrderInv
<1> SUFFICES ASSUME Init PROVE OrderInv
  OBVIOUS
<1>1. Ordered
  BY DEF Init, Ordered, Increasing, UpTo, Before
<1>2. OneReader
  BY DEF Init, OneReader, Live
<1> QED
  BY <1>1, <1>2, TypeInit DEF OrderInv

\* Ring and console.log keep the order of the guest, for any length of output
\* and any number of stops, reboots and failed starts, as long as no reader was
\* started while a cancelled one still waited.
THEOREM OrderHolds == Spec => []OrderKept
<1>1. OrderInv /\ [Next]_vars => OrderInv'
  <2> SUFFICES ASSUME OrderInv, [Next]_vars PROVE OrderInv'
    OBVIOUS
  <2>1. TypeInv' /\ OneReader'
    BY TypeStep, ReaderStep DEF OrderInv
  <2>2. CASE Kill
    BY <2>1, <2>2, FreshOrdered DEF OrderInv, Kill
  <2>3. CASE lingered /\ ~Kill
    BY <2>1, <2>3, LingerStep DEF OrderInv
  <2>4. CASE ~lingered
    BY <2>1, <2>4, OrderStep DEF OrderInv
  <2> QED
    BY <2>2, <2>3, <2>4
<1>2. OrderInv => OrderKept
  BY DEF OrderInv, Ordered, OrderKept
<1> QED
  BY <1>1, <1>2, OrderInit, PTL DEF Spec

-----------------------------------------------------------------------------
(* What a client is sent.                                                  *)

\* The last n units of s.
Ends(s, n) == {s[i] : i \in Len(s) - n + 1 .. Len(s)}

\* How much of the output a client has at least.
Least == IF Len(stored) < RingSize THEN Len(stored) ELSE RingSize

LEMMA TailUnits ==
    ASSUME NEW s \in Seq(Unit), NEW n \in 0 .. Len(s)
    PROVE  Units(LastOf(s, n)) = Ends(s, n)
<1>1. Len(s) \in Nat /\ n \in Nat /\ n <= Len(s) /\ DOMAIN s = 1 .. Len(s)
  OBVIOUS
<1>2. LastOf(s, n) = SubSeq(s, Len(s) - n + 1, Len(s))
  BY <1>1 DEF LastOf
<1> DEFINE e == SubSeq(s, Len(s) - n + 1, Len(s))
<1>3. DOMAIN e = 1 .. n /\ \A i \in 1 .. n : e[i] = s[Len(s) - n + i]
  BY <1>1
<1> HIDE DEF e
<1>4. ASSUME NEW u \in Units(e) PROVE u \in Ends(s, n)
  <2>1. PICK i \in 1 .. n : u = s[Len(s) - n + i]
    BY <1>3, <1>4 DEF Units
  <2>2. Len(s) - n + i \in Len(s) - n + 1 .. Len(s)
    BY <1>1
  <2> QED BY <2>1, <2>2 DEF Ends
<1>5. ASSUME NEW u \in Ends(s, n) PROVE u \in Units(e)
  <2>1. PICK j \in Len(s) - n + 1 .. Len(s) : u = s[j]
    BY <1>5 DEF Ends
  <2>2. j - (Len(s) - n) \in 1 .. n /\ Len(s) - n + (j - (Len(s) - n)) = j
    BY <1>1
  <2>3. e[j - (Len(s) - n)] = s[j]
    BY <1>3, <2>2
  <2> QED BY <1>3, <2>1, <2>2, <2>3 DEF Units
<1> QED
  BY <1>2, <1>4, <1>5 DEF e

\* Of two ends of the output the longer one has both.
LEMMA EndsJoin ==
    ASSUME NEW s \in Seq(Unit), NEW m \in 0 .. Len(s), NEW n \in 0 .. Len(s), m <= n
    PROVE  Ends(s, m) \cup Ends(s, n) = Ends(s, n)
<1>1. Len(s) - m + 1 .. Len(s) \subseteq Len(s) - n + 1 .. Len(s)
  OBVIOUS
<1> QED
  BY <1>1 DEF Ends

LEMMA TailGrows ==
    ASSUME NEW s \in Seq(Unit), NEW h \in Seq(Unit), NEW n \in 0 .. Len(s)
    PROVE  /\ n + Len(h) \in 0 .. Len(s \o h)
           /\ Ends(s \o h, n + Len(h)) = Ends(s, n) \cup Units(h)
<1> DEFINE b == s \o h  k == Len(h)  l == Len(s)
<1>1. /\ l \in Nat /\ k \in Nat /\ Len(b) = l + k /\ DOMAIN h = 1 .. k
      /\ \A i \in 1 .. l : b[i] = s[i]
      /\ \A i \in 1 .. k : b[l + i] = h[i]
  OBVIOUS
<1> HIDE DEF b, k, l
<1>2. Ends(b, n + k) = {b[i] : i \in l - n + 1 .. l + k}
  <2>1. (l + k) - (n + k) + 1 = l - n + 1
    BY <1>1 DEF l
  <2> QED BY <1>1, <2>1 DEF Ends
<1>3. ASSUME NEW i \in l - n + 1 .. l + k PROVE b[i] \in Ends(s, n) \cup Units(h)
  <2>1. CASE i <= l
    <3>1. i \in 1 .. l /\ i \in l - n + 1 .. l
      BY <1>1, <2>1 DEF l
    <3> QED BY <1>1, <3>1 DEF Ends, l
  <2>2. CASE i > l
    <3>1. i - l \in 1 .. k /\ l + (i - l) = i
      BY <1>1, <2>2
    <3>2. b[i] = h[i - l]
      BY <1>1, <3>1
    <3> QED BY <1>1, <3>1, <3>2 DEF Units
  <2> QED BY <1>1, <2>1, <2>2
<1>4. ASSUME NEW u \in Ends(s, n) PROVE u \in Ends(b, n + k)
  <2>1. PICK i \in l - n + 1 .. l : u = s[i]
    BY <1>4 DEF Ends, l
  <2>2. i \in 1 .. l /\ i \in l - n + 1 .. l + k
    BY <1>1 DEF l
  <2> QED BY <1>1, <1>2, <2>1, <2>2
<1>5. ASSUME NEW u \in Units(h) PROVE u \in Ends(b, n + k)
  <2>1. PICK i \in 1 .. k : u = h[i]
    BY <1>1, <1>5 DEF Units
  <2>2. l + i \in l - n + 1 .. l + k
    BY <1>1 DEF l
  <2>3. b[l + i] = u
    BY <1>1, <2>1
  <2> QED BY <1>2, <2>2, <2>3
<1>6. Ends(b, n + k) = Ends(s, n) \cup Units(h)
  BY <1>2, <1>3, <1>4, <1>5
<1> QED
  BY <1>1, <1>6 DEF b, k, l

LEMMA RingUnits ==
    ASSUME TypeInv, RingInv
    PROVE  /\ Least \in 0 .. Len(stored) /\ Len(LastOf(stored, RingSize)) = Least
           /\ Units(LastOf(stored, RingSize)) = Ends(stored, Least)
           /\ wrapped => Units(ring) = Ends(stored, Least)
<1> DEFINE l == Len(stored)
<1>1. /\ stored \in Seq(Unit) /\ l \in Nat /\ position \in Nat /\ position < RingSize
      /\ DOMAIN ring = 1 .. RingSize /\ RingSize \in Nat
  BY Numbers DEF TypeInv, TypeOK
<1>2. Least \in 0 .. l
  BY <1>1, Numbers DEF Least
<1>3. CASE l < RingSize
  <2>1. LastOf(stored, RingSize) = stored /\ Least = l
    BY <1>3 DEF LastOf, Least
  <2>2. Ends(stored, l) = Units(stored)
    <3>1. l - l + 1 = 1 /\ DOMAIN stored = 1 .. l
      BY <1>1
    <3> QED BY <3>1 DEF Ends, Units
  <2>3. ~wrapped
    BY <1>1, <1>3 DEF RingInv
  <2> QED BY <1>2, <2>1, <2>2, <2>3
<1>4. CASE ~(l < RingSize)
  <2>1. LastOf(stored, RingSize) = SubSeq(stored, l - RingSize + 1, l) /\ Least = RingSize
    BY <1>4 DEF LastOf, Least
  <2>2. Len(LastOf(stored, RingSize)) = RingSize
    BY <1>1, <1>4, <2>1, Numbers
  <2>3. RingSize \in 0 .. Len(stored)
    BY <1>1, <1>4
  <2>4. Units(LastOf(stored, RingSize)) = Ends(stored, RingSize)
    BY <1>1, <2>3, TailUnits
  <2>5. ASSUME wrapped PROVE Units(ring) = Ends(stored, RingSize)
    <3> HIDE DEF l
    <3>1. RingSize + position <= l
      BY <2>5 DEF RingInv, l
    <3>2. ASSUME NEW i \in 1 .. RingSize PROVE ring[i] \in Ends(stored, RingSize)
      <4>1. CASE i <= position
        <5>1. ring[i] = stored[l - position + i] /\ l - position + i \in l - RingSize + 1 .. l
          BY <1>1, <3>1, <4>1 DEF RingInv, l
        <5> QED BY <5>1 DEF Ends, l
      <4>2. CASE i > position
        <5>1. i \in position + 1 .. RingSize
          BY <1>1, <4>2
        <5>2. ring[i] = stored[l - position - RingSize + i]
          BY <2>5, <5>1 DEF RingInv, l
        <5>3. l - position - RingSize + i \in l - RingSize + 1 .. l
          BY <1>1, <3>1, <4>2
        <5> QED BY <5>2, <5>3 DEF Ends, l
      <4> QED BY <1>1, <4>1, <4>2
    <3>3. ASSUME NEW j \in l - RingSize + 1 .. l PROVE stored[j] \in Units(ring)
      <4>1. CASE j > l - position
        <5>1. j - (l - position) \in 1 .. position /\ l - position + (j - (l - position)) = j
          BY <1>1, <4>1
        <5>2. stored[j] = ring[j - (l - position)]
          BY <5>1 DEF RingInv, l
        <5>3. j - (l - position) \in 1 .. RingSize
          BY <1>1, <5>1
        <5> QED BY <1>1, <5>2, <5>3 DEF Units
      <4>2. CASE j <= l - position
        <5> DEFINE i == j - (l - position - RingSize)
        <5>1. i \in position + 1 .. RingSize /\ l - position - RingSize + i = j
          BY <1>1, <3>1, <4>2
        <5> HIDE DEF i
        <5>2. stored[j] = ring[i]
          BY <2>5, <5>1 DEF RingInv, l
        <5>3. i \in 1 .. RingSize
          BY <1>1, <5>1
        <5> QED BY <1>1, <5>2, <5>3 DEF Units
      <4> QED BY <1>1, <4>1, <4>2
    <3>4. Ends(stored, RingSize) = {stored[j] : j \in l - RingSize + 1 .. l}
      BY DEF Ends, l
    <3>5. Units(ring) = {ring[i] : i \in 1 .. RingSize}
      BY <1>1 DEF Units
    <3> QED BY <3>2, <3>3, <3>4, <3>5
  <2> QED BY <1>2, <2>1, <2>2, <2>4, <2>5
<1> QED
  BY <1>3, <1>4

\* Who is on the list of the clients, and on the list of a reader that writes,
\* and who has a history to be sent.
Listed ==
    /\ \A r \in Reader : targets[r] # {} => rpc[r] \in {"log", "send"}
    /\ \A c \in Client : c \in connections <=> cpc[c] \in {"readring", "send", "open"}
    /\ \A r \in Reader : \A c \in targets[r] : cpc[c] \notin {"out", "check", "add"}
    /\ \A c \in Client : cpc[c] \in {"out", "check", "add"} => received[c] = {}
    /\ \A c \in Client : cpc[c] # "send" => history[c] = <<>> /\ unsent[c] = 0

\* What a client was sent, and what readers are about to send it.
Due(c)  == {u \in Unit : \E r \in Reader : c \in targets[r] /\ u \in Units(held[r])}
Seen(c) == received[c] \cup Due(c)

\* What is left of its history: a copy, or the cells at the end of the ring.
Rest(c) == Units(history[c]) \cup {ring[i] : i \in RingSize - unsent[c] + 1 .. RingSize}

\* Before its history a client has an end of the output, of any length; with what
\* is left of the history it is a ring long, or longer, while no cell of it that
\* was still to be sent was overwritten.
Suffix(c) ==
    /\ cpc[c] = "readring" =>
           \E n \in 0 .. Len(stored) : Seen(c) = Ends(stored, n)
    /\ cpc[c] = "send" /\ c \notin torn =>
           \E n \in Least .. Len(stored) : Rest(c) \cup Seen(c) = Ends(stored, n)
    /\ cpc[c] = "open" /\ c \notin torn =>
           \E n \in Least .. Len(stored) : Seen(c) = Ends(stored, n)

ClientInv == TypeInv /\ RingInv /\ Listed /\ \A c \in Client : Suffix(c)

LEMMA ListedStep == TypeInv /\ Listed /\ [Next]_vars => Listed'
<1> SUFFICES ASSUME TypeInv, Listed, [Next]_vars PROVE Listed'
  OBVIOUS
<1> USE DEF TypeInv, TypeOK, Listed, output, buffer, logging, readers, clients, api, sending, elsewhere
<1>1. CASE UNCHANGED vars
  BY <1>1 DEF vars
<1>2. CASE Emit
  BY <1>2 DEF Emit
<1>3. CASE Start
  BY <1>3 DEF Start, Attached
<1>4. CASE Spawn
  BY <1>4 DEF Spawn
<1>5. CASE StartFails
  BY <1>5 DEF StartFails, Detached
<1>6. CASE Stop
  BY <1>6 DEF Stop, Detached
<1>7. CASE Halt
  BY <1>7 DEF Halt, Halted
<1>8. CASE Reboot
  BY <1>8 DEF Reboot, Halted
<1>9. CASE Redetach
  BY <1>9 DEF Redetach, Detached
<1>10. CASE Restart
  BY <1>10 DEF Restart, Attached
<1>11. CASE Kill
  BY <1>11 DEF Kill
<1>12. ASSUME NEW r \in Reader, ReadLoop(r) PROVE Listed'
  <2>1. CASE Select(r)
    BY <2>1 DEF Select, Goto
  <2>2. CASE Read(r)
    BY <2>2 DEF Read, Goto
  <2>3. CASE EndOfFile(r)
    BY <2>3 DEF EndOfFile, Goto
  <2>4. CASE Store(r)
    BY <2>4 DEF Store, Goto
  <2>5. CASE Log(r)
    BY <2>5 DEF Log, Continue, Goto
  <2>6. ASSUME NEW d \in Client, Send(r, d) PROVE Listed'
    <3>1. rpc[r] = "send" /\ d \in targets[r] /\ cpc[d] \notin {"out", "check", "add"}
      BY <2>6 DEF Send
    <3>2. targets' = [targets EXCEPT ![r] = targets[r] \ {d}]
      BY <2>6 DEF Send, Continue
    <3>3. /\ rpc' \in {[rpc EXCEPT ![r] = "send"], [rpc EXCEPT ![r] = "select"]}
          /\ (targets[r] \ {d} # {} => rpc' = [rpc EXCEPT ![r] = "send"])
      BY <2>6 DEF Send, Continue, Goto
    <3>4. \A q \in Reader : targets'[q] # {} => rpc'[q] \in {"log", "send"}
      BY <3>1, <3>2, <3>3
    <3>5. UNCHANGED <<cpc, connections, history, unsent>> /\ \A c \in Client \ {d} : received'[c] = received[c]
      BY <2>6 DEF Send
    <3>6. \A q \in Reader : targets'[q] \subseteq targets[q]
      BY <3>2
    <3> QED BY <3>1, <3>4, <3>5, <3>6
  <2>7. CASE ReadFails(r)
    BY <2>7 DEF ReadFails, Goto
  <2> QED
    BY <1>12, <2>1, <2>2, <2>3, <2>4, <2>5, <2>6, <2>7 DEF ReadLoop, Loop
<1>13. ASSUME NEW d \in Client, Serve(d) PROVE Listed'
  <2>1. ASSUME NEW t \in Token, Present(d, t) PROVE Listed'
    BY <2>1 DEF Present
  <2>2. CASE AddConn(d)
    BY <2>2 DEF AddConn
  <2>3. CASE ReadRing(d)
    BY <2>3 DEF ReadRing
  <2>4. CASE SendHistory(d)
    BY <2>4 DEF SendHistory
  <2>5. CASE Leave(d)
    BY <2>5 DEF Leave
  <2>6. CASE Check(d)
    <3>1. /\ cpc[d] = "check" /\ cpc'[d] \in {"add", "closed"}
          /\ \A c \in Client \ {d} : cpc'[c] = cpc[c]
          /\ UNCHANGED <<targets, rpc, connections, received, history, unsent>>
      BY <2>6, CheckSteps
    <3> QED BY <3>1
  <2>7. CASE SendCell(d)
    BY <2>7 DEF SendCell
  <2> QED
    BY <1>13, <2>1, <2>2, <2>3, <2>4, <2>5, <2>6, <2>7 DEF Serve
<1>14. ASSUME NEW t \in Token, IssueToken(t) PROVE Listed'
  BY <1>14 DEF IssueToken
<1>15. ASSUME NEW t \in Token, Expire(t) PROVE Listed'
  BY <1>15 DEF Expire
<1>16. CASE Exit
  BY <1>16 DEF Exit
<1> QED
  BY <1>1, <1>2, <1>3, <1>4, <1>5, <1>6, <1>7, <1>8, <1>9, <1>10,
     <1>11, <1>12, <1>13, <1>14, <1>15, <1>16 DEF Next, Operate

\* A step that is no client's.
LEMMA SuffixStays ==
    ASSUME NEW c \in Client, Suffix(c),
           received'[c] = received[c], cpc'[c] = cpc[c], history'[c] = history[c],
           unsent'[c] = unsent[c],
           UNCHANGED <<ring, stored, torn>>,
           \A r \in Reader : c \in targets'[r] <=> c \in targets[r],
           \A r \in Reader : c \in targets[r] => held'[r] = held[r]
    PROVE  Suffix(c)'
<1>1. Seen(c)' = Seen(c)
  BY DEF Seen, Due, Units
<1>2. Least' = Least
  BY DEF Least
<1>3. Rest(c)' = Rest(c)
  BY DEF Rest, Units
<1>4. \A n : Ends(stored, n)' = Ends(stored, n)
  BY DEF Ends
<1> QED
  BY <1>1, <1>2, <1>3, <1>4 DEF Suffix

\* What is about to be sent becomes what was sent.
LEMMA SendKeeps ==
    ASSUME TypeInv, Listed, NEW c \in Client, Suffix(c), NEW r \in Reader, NEW d \in Client, Send(r, d)
    PROVE  Suffix(c)'
<1> USE DEF TypeInv, TypeOK, output, buffer, logging
<1>1. CASE cpc[c] = "closed"
  <2>1. cpc'[c] = "closed"
    BY <1>1 DEF Send
  <2> QED BY <2>1 DEF Suffix
<1>2. CASE c # d
  <2>1. targets' = [targets EXCEPT ![r] = targets[r] \ {d}]
    BY DEF Send, Continue
  <2>2. \A q \in Reader : c \in targets[q] => held'[q] = held[q]
    BY <1>2 DEF Send, Continue
  <2>3. received'[c] = received[c]
    BY <1>2 DEF Send
  <2>4. UNCHANGED <<cpc, history, unsent, ring, stored, torn>>
    BY DEF Send
  <2> QED BY <1>2, <2>1, <2>2, <2>3, <2>4, SuffixStays
<1>3. CASE c = d /\ cpc[c] # "closed"
  <2>1. /\ targets' = [targets EXCEPT ![r] = targets[r] \ {c}] /\ c \in targets[r]
        /\ UNCHANGED <<cpc, history, unsent, ring, stored, torn>>
    BY <1>3 DEF Send, Continue
  <2>2. \A q \in Reader \ {r} : held'[q] = held[q] /\ targets'[q] = targets[q]
    BY <2>1 DEF Send, Continue
  <2>3. received'[c] = received[c] \cup Units(held[r])
    BY <1>3 DEF Send
  <2>4. Units(held[r]) \subseteq Unit
    BY DEF Units
  <2>5. Due(c) = Due(c)' \cup Units(held[r])
    <3>1. \A q \in Reader \ {r} : Units(held'[q]) = Units(held[q])
      BY <2>2
    <3>2. c \notin targets'[r]
      BY <2>1
    <3>3. ASSUME NEW u \in Unit PROVE u \in Due(c) <=> u \in Due(c)' \/ u \in Units(held[r])
      <4>1. u \in Due(c) <=> \E q \in Reader : c \in targets[q] /\ u \in Units(held[q])
        BY DEF Due
      <4>2. u \in Due(c)' <=> \E q \in Reader : c \in targets'[q] /\ u \in Units(held'[q])
        BY DEF Due, Units
      <4> QED BY <2>1, <2>2, <3>1, <3>2, <4>1, <4>2
    <3>4. Due(c) \subseteq Unit /\ Due(c)' \subseteq Unit
      BY DEF Due
    <3> QED BY <2>4, <3>3, <3>4
  <2>6. Seen(c)' = Seen(c)
    BY <2>3, <2>5 DEF Seen
  <2>7. Least' = Least /\ Rest(c)' = Rest(c)
        /\ \A n : Ends(stored, n)' = Ends(stored, n)
    BY <2>1 DEF Least, Units, Rest, Ends
  <2> QED BY <2>1, <2>6, <2>7 DEF Suffix
<1> QED
  BY <1>1, <1>2, <1>3

\* A write of a reader makes the output, and what every client on the list has
\* or is about to get, longer by the same units.
LEMMA StoreExtends ==
    ASSUME TypeInv, RingInv, Listed, NEW c \in Client, Suffix(c), NEW r \in Reader, Store(r)
    PROVE  Suffix(c)'
<1> DEFINE h == held[r]
<1>1. /\ stored \in Seq(Unit) /\ h \in Seq(Unit) /\ Len(h) \in Nat /\ Len(stored) \in Nat
      /\ stored' = stored \o h /\ Len(stored') = Len(stored) + Len(h)
  <2>1. stored \in Seq(Unit) /\ h \in Seq(Unit) /\ stored' = stored \o h
    BY DEF Store, TypeInv, TypeOK
  <2> QED BY <2>1
<1>2. /\ UNCHANGED <<cpc, history, unsent, received, held>>
      /\ targets' = [targets EXCEPT ![r] = connections] /\ targets[r] = {}
  BY DEF Store, clients, sending, Listed, TypeInv, TypeOK
<1>3. CASE c \notin connections
  <2>1. cpc'[c] \notin {"readring", "send", "open"}
    BY <1>2, <1>3 DEF Listed
  <2> QED BY <2>1 DEF Suffix
<1>4. CASE c \in connections
  <2>1. Due(c)' = Due(c) \cup Units(h)
    <3>1. Units(h) \subseteq Unit
      BY <1>1 DEF Units
    <3>2. /\ \A q \in Reader \ {r} : targets'[q] = targets[q] /\ held'[q] = held[q]
          /\ c \in targets'[r] /\ c \notin targets[r] /\ held'[r] = h
      BY <1>2, <1>4 DEF TypeInv, TypeOK
    <3>3. ASSUME NEW u \in Unit PROVE u \in Due(c)' <=> u \in Due(c) \/ u \in Units(h)
      <4>1. u \in Due(c) <=> \E q \in Reader : c \in targets[q] /\ u \in Units(held[q])
        BY DEF Due
      <4>2. u \in Due(c)' <=> \E q \in Reader : c \in targets'[q] /\ u \in Units(held'[q])
        BY DEF Due, Units
      <4>3. \A q \in Reader : Units(held'[q]) = Units(held[q])
        BY <1>2
      <4> HIDE DEF h
      <4> QED BY <3>2, <4>1, <4>2, <4>3 DEF h
    <3>4. Due(c) \subseteq Unit /\ Due(c)' \subseteq Unit
      BY DEF Due
    <3> QED BY <3>1, <3>3, <3>4
  <2>2. Seen(c)' = Seen(c) \cup Units(h)
    BY <1>2, <2>1 DEF Seen
  <2> HIDE DEF h
  <2>3. \A n \in 0 .. Len(stored) :
            n + Len(h) \in 0 .. Len(stored') /\ Ends(stored', n + Len(h)) = Ends(stored, n) \cup Units(h)
    BY <1>1, TailGrows
  <2>4. Least \in 0 .. Len(stored)
    BY <1>1, Numbers DEF Least
  <2>5. Least' \in 0 .. Len(stored') /\ \A n \in Least .. Len(stored) : n + Len(h) \in Least' .. Len(stored')
    BY <1>1, Numbers DEF Least
  <2>6. ASSUME cpc[c] = "readring"
        PROVE  \E n \in 0 .. Len(stored') : Seen(c)' = Ends(stored', n)
    <3>1. PICK n \in 0 .. Len(stored) : Seen(c) = Ends(stored, n)
      BY <2>6 DEF Suffix
    <3> QED BY <2>2, <2>3, <3>1
  <2>7. ASSUME c \notin torn' PROVE c \notin torn /\ Rest(c)' = Rest(c)
    <3>1. c \notin torn /\ \A j \in 1 .. Len(held[r]) : ~(Slot(j) > RingSize - unsent[c])
      BY <2>7 DEF Store, Overtaken
    <3>2. unsent[c] \in 0 .. RingSize /\ unsent'[c] = unsent[c] /\ history'[c] = history[c]
      BY <1>2 DEF TypeInv, TypeOK
    <3>3. ASSUME NEW i \in RingSize - unsent[c] + 1 .. RingSize PROVE ring'[i] = ring[i]
      <4>1. i \in 1 .. RingSize /\ i > RingSize - unsent[c]
        BY <3>2, <3>3, Numbers
      <4>2. ~\E j \in 1 .. Len(held[r]) : Slot(j) = i
        BY <3>1, <4>1
      <4> QED BY <4>1, <4>2 DEF Store
    <3>4. {ring'[i] : i \in RingSize - unsent[c] + 1 .. RingSize}
             = {ring[i] : i \in RingSize - unsent[c] + 1 .. RingSize}
      BY <3>3
    <3> QED BY <3>1, <3>2, <3>4 DEF Rest, Units
  <2>8. ASSUME cpc[c] = "send", c \notin torn'
        PROVE  \E n \in Least' .. Len(stored') : Rest(c)' \cup Seen(c)' = Ends(stored', n)
    <3>1. PICK n \in Least .. Len(stored) : Rest(c) \cup Seen(c) = Ends(stored, n)
      BY <2>7, <2>8 DEF Suffix
    <3>2. n \in 0 .. Len(stored)
      BY <1>1, <2>4
    <3>3. Ends(stored', n + Len(h)) = Rest(c)' \cup Seen(c)'
      BY <2>2, <2>3, <2>7, <2>8, <3>1, <3>2
    <3> QED BY <2>5, <3>3
  <2>9. ASSUME cpc[c] = "open", c \notin torn'
        PROVE  \E n \in Least' .. Len(stored') : Seen(c)' = Ends(stored', n)
    <3>1. PICK n \in Least .. Len(stored) : Seen(c) = Ends(stored, n)
      BY <2>7, <2>9 DEF Suffix
    <3>2. n \in 0 .. Len(stored)
      BY <1>1, <2>4
    <3>3. Ends(stored', n + Len(h)) = Seen(c)'
      BY <2>2, <2>3, <3>1, <3>2
    <3> QED BY <2>5, <3>3
  <2>11. \A n : Ends(stored, n)' = Ends(stored', n)
    BY DEF Ends
  <2> QED BY <1>2, <2>6, <2>8, <2>9, <2>11 DEF Suffix
<1> QED
  BY <1>3, <1>4

\* A client gets on the list before the ring is read: nothing is missing ...
LEMMA AddConnStarts ==
    ASSUME TypeInv, Listed, NEW c \in Client, AddConn(c)
    PROVE  Suffix(c)'
<1>1. cpc'[c] = "readring" /\ UNCHANGED <<received, targets, held, stored>>
  BY DEF AddConn, TypeInv, TypeOK, readers, buffer, sending, elsewhere
<1>2. received[c] = {} /\ \A r \in Reader : c \notin targets[r]
  BY DEF AddConn, Listed
<1>3. Seen(c)' = {}
  BY <1>1, <1>2 DEF Seen, Due
<1>4. 0 \in 0 .. Len(stored) /\ Ends(stored, 0) = {}
  <2>1. Len(stored) \in Nat
    BY DEF TypeInv, TypeOK
  <2>2. Len(stored) - 0 + 1 .. Len(stored) = {}
    BY <2>1
  <2> QED BY <2>1, <2>2 DEF Ends
<1>5. Len(stored') = Len(stored) /\ Ends(stored', 0) = Ends(stored, 0)
  BY <1>1
<1>6. \E n \in 0 .. Len(stored') : Seen(c)' = Ends(stored', n)
  BY <1>3, <1>4, <1>5
<1> QED
  BY <1>1, <1>6 DEF Suffix, Ends

\* ... and what it was sent before, the ring has too, or the ring is the newer
\* part of.
LEMMA ReadRingCovers ==
    ASSUME TypeInv, RingInv, Listed, NEW c \in Client, Suffix(c), ReadRing(c)
    PROVE  Suffix(c)'
<1>1. /\ cpc[c] = "readring" /\ cpc'[c] = "send"
      /\ UNCHANGED <<received, targets, held, ring, stored, torn>>
      /\ history[c] = <<>> /\ unsent[c] = 0
  BY DEF ReadRing, Listed, TypeInv, TypeOK, readers, buffer, elsewhere
<1>2. PICK m \in 0 .. Len(stored) : Seen(c) = Ends(stored, m)
  BY <1>1 DEF Suffix
<1>3. Seen(c)' = Seen(c) /\ Least' = Least /\ Len(stored') = Len(stored)
      /\ \A n : Ends(stored, n)' = Ends(stored, n)
  BY <1>1 DEF Seen, Due, Least, Units, Ends
<1>4. /\ Least \in 0 .. Len(stored) /\ Units(LastOf(stored, RingSize)) = Ends(stored, Least)
      /\ wrapped => Units(ring) = Ends(stored, Least)
  BY RingUnits
<1>5. stored \in Seq(Unit) /\ Len(stored) \in Nat /\ ring \in [1 .. RingSize -> Cell]
      /\ history \in [Client -> Seq(Cell)] /\ unsent \in [Client -> 0 .. RingSize]
  BY DEF TypeInv, TypeOK
<1>6. Rest(c)' = Ends(stored, Least)
  <2>1. CASE wrapped /\ position = 0
    <3>1. history'[c] = <<>> /\ unsent'[c] = RingSize
      BY <1>1, <1>5, <2>1 DEF ReadRing
    <3>2. RingSize - RingSize + 1 = 1 /\ DOMAIN ring = 1 .. RingSize
      BY <1>5, Numbers
    <3>3. Units(ring) = {ring[i] : i \in RingSize - RingSize + 1 .. RingSize}
      BY <3>2 DEF Units
    <3>4. Units(history'[c]) = {}
      BY <3>1 DEF Units
    <3>5. Rest(c)' = Units(history'[c]) \cup {ring[i] : i \in RingSize - RingSize + 1 .. RingSize}
      BY <1>1, <3>1 DEF Rest, Units
    <3> QED BY <1>4, <2>1, <3>3, <3>4, <3>5
  <2>2. CASE ~(wrapped /\ position = 0)
    <3>1. history'[c] = LastOf(stored, RingSize) /\ unsent'[c] = 0
      BY <1>1, <1>5, <2>2, RingTail DEF ReadRing, RingIsTail
    <3>2. RingSize - 0 + 1 .. RingSize = {}
      BY Numbers
    <3>3. Rest(c)' = Units(history'[c]) \cup {ring'[i] : i \in RingSize - 0 + 1 .. RingSize}
      BY <3>1 DEF Rest, Units
    <3> QED BY <1>4, <3>1, <3>2, <3>3
  <2> QED BY <2>1, <2>2
<1>7. PICK n \in Least .. Len(stored) : Ends(stored, Least) \cup Ends(stored, m) = Ends(stored, n)
  <2>1. CASE m <= Least
    <3>1. Ends(stored, m) \cup Ends(stored, Least) = Ends(stored, Least)
      BY <1>4, <1>5, <2>1, EndsJoin
    <3>2. Least \in Least .. Len(stored)
      BY <1>4, <1>5
    <3> QED BY <3>1, <3>2
  <2>2. CASE Least <= m
    <3>1. Ends(stored, Least) \cup Ends(stored, m) = Ends(stored, m)
      BY <1>4, <1>5, <2>2, EndsJoin
    <3>2. m \in Least .. Len(stored)
      BY <1>4, <1>5, <2>2
    <3> QED BY <3>1, <3>2
  <2> QED BY <1>4, <1>5, <2>1, <2>2
<1>8. n \in Least' .. Len(stored') /\ Rest(c)' \cup Seen(c)' = Ends(stored, n)'
  BY <1>2, <1>3, <1>6, <1>7
<1> QED
  BY <1>1, <1>8 DEF Suffix

\* A cell of the ring that is sent was left and is received.
LEMMA SendCellKeeps ==
    ASSUME TypeInv, NEW c \in Client, Suffix(c), SendCell(c)
    PROVE  Suffix(c)'
<1> DEFINE k == RingSize - unsent[c] + 1
<1>1. /\ cpc[c] = "send" /\ unsent[c] \in 1 .. RingSize
      /\ UNCHANGED <<cpc, history, targets, held, ring, stored, torn>>
      /\ received'[c] = received[c] \cup {ring[k]} /\ unsent'[c] = unsent[c] - 1
  BY Numbers DEF SendCell, TypeInv, TypeOK, readers, buffer, elsewhere
<1>2. k \in 1 .. RingSize /\ RingSize - unsent'[c] + 1 = k + 1
  BY <1>1, Numbers
<1>3. k .. RingSize = {k} \cup (k + 1 .. RingSize)
  BY <1>2, Numbers
<1>4. {ring[i] : i \in k .. RingSize} = {ring[k]} \cup {ring[i] : i \in k + 1 .. RingSize}
  BY <1>3
<1>5. Rest(c) = Units(history[c]) \cup {ring[i] : i \in k .. RingSize}
  BY DEF Rest
<1>6. Rest(c)' = Units(history[c]) \cup {ring[i] : i \in k + 1 .. RingSize}
  BY <1>1, <1>2 DEF Rest, Units
<1> HIDE DEF k
<1>7. Due(c)' = Due(c) /\ Least' = Least /\ \A n : Ends(stored, n)' = Ends(stored, n)
  BY <1>1 DEF Due, Units, Least, Ends
<1>8. Seen(c)' = Seen(c) \cup {ring[k]}
  BY <1>1, <1>7 DEF Seen
<1>9. Rest(c)' \cup Seen(c)' = Rest(c) \cup Seen(c)
  BY <1>4, <1>5, <1>6, <1>8
<1> QED
  BY <1>1, <1>7, <1>9 DEF Suffix

\* With the last of it nothing is left.
LEMMA SendHistoryCovers ==
    ASSUME TypeInv, NEW c \in Client, Suffix(c), SendHistory(c)
    PROVE  Suffix(c)'
<1>1. /\ cpc[c] = "send" /\ cpc'[c] = "open" /\ unsent[c] = 0
      /\ UNCHANGED <<targets, held, stored, torn>>
      /\ received'[c] = received[c] \cup Units(history[c])
  BY DEF SendHistory, TypeInv, TypeOK, readers, buffer, elsewhere
<1>2. Rest(c) = Units(history[c])
  <2>1. RingSize - 0 + 1 .. RingSize = {}
    BY Numbers
  <2> QED BY <1>1, <2>1 DEF Rest
<1>3. Due(c)' = Due(c) /\ Least' = Least /\ \A n : Ends(stored, n)' = Ends(stored, n)
  BY <1>1 DEF Due, Units, Least, Ends
<1>4. Seen(c)' = Rest(c) \cup Seen(c)
  BY <1>1, <1>2, <1>3 DEF Seen
<1> QED
  BY <1>1, <1>3, <1>4 DEF Suffix

LEMMA SuffixStep ==
    ASSUME TypeInv, RingInv, Listed, NEW c \in Client, Suffix(c), [Next]_vars
    PROVE  Suffix(c)'
<1> USE DEF output, buffer, logging, readers, clients, api, sending, elsewhere
<1>1. CASE UNCHANGED vars
  BY <1>1, SuffixStays DEF vars
<1>2. CASE Emit
  BY <1>2, SuffixStays DEF Emit
<1>3. CASE Start
  BY <1>3, SuffixStays DEF Start, Attached
<1>4. CASE Spawn
  BY <1>4, SuffixStays DEF Spawn
<1>5. CASE StartFails
  BY <1>5, SuffixStays DEF StartFails, Detached
<1>6. CASE Stop
  BY <1>6, SuffixStays DEF Stop, Detached
<1>7. CASE Halt
  BY <1>7, SuffixStays DEF Halt, Halted
<1>8. CASE Reboot
  BY <1>8, SuffixStays DEF Reboot, Halted
<1>9. CASE Redetach
  BY <1>9, SuffixStays DEF Redetach, Detached
<1>10. CASE Restart
  BY <1>10, SuffixStays DEF Restart, Attached
<1>11. CASE Kill
  <2>1. cpc'[c] = "out"
    BY <1>11 DEF Kill
  <2> QED BY <2>1 DEF Suffix
<1>12. ASSUME NEW r \in Reader, ReadLoop(r) PROVE Suffix(c)'
  <2>1. CASE Select(r)
    BY <2>1, SuffixStays DEF Select, Goto
  <2>2. CASE Read(r)
    <3>1. targets[r] = {} /\ \A q \in Reader \ {r} : held'[q] = held[q]
      BY <2>2 DEF Read, Listed, TypeInv, TypeOK
    <3> QED BY <2>2, <3>1, SuffixStays DEF Read
  <2>3. CASE EndOfFile(r)
    BY <2>3, SuffixStays DEF EndOfFile, Goto
  <2>4. CASE Store(r)
    BY <2>4, StoreExtends
  <2>5. CASE Log(r)
    <3>1. /\ targets' = targets
          /\ \A q \in Reader : (q = r /\ targets[q] = {}) \/ held'[q] = held[q]
      BY <2>5 DEF Log, Continue, TypeInv, TypeOK
    <3> QED BY <2>5, <3>1, SuffixStays DEF Log
  <2>6. ASSUME NEW d \in Client, Send(r, d) PROVE Suffix(c)'
    BY <2>6, SendKeeps
  <2>7. CASE ReadFails(r)
    BY <2>7, SuffixStays DEF ReadFails, Goto
  <2> QED
    BY <1>12, <2>1, <2>2, <2>3, <2>4, <2>5, <2>6, <2>7 DEF ReadLoop, Loop
<1>13. ASSUME NEW d \in Client, Serve(d) PROVE Suffix(c)'
  <2>1. ASSUME NEW t \in Token, Present(d, t) PROVE Suffix(c)'
    <3>1. CASE d = c
      <4>1. cpc'[c] = "check"
        BY <2>1, <3>1 DEF Present, TypeInv, TypeOK
      <4> QED BY <4>1 DEF Suffix
    <3>2. CASE d # c
      <4>1. cpc'[c] = cpc[c]
        BY <2>1, <3>2 DEF Present
      <4> QED BY <2>1, <4>1, SuffixStays DEF Present
    <3> QED BY <3>1, <3>2
  <2>2. CASE AddConn(d)
    <3>1. CASE d = c
      BY <2>2, <3>1, AddConnStarts
    <3>2. CASE d # c
      <4>1. cpc'[c] = cpc[c]
        BY <2>2, <3>2 DEF AddConn
      <4> QED BY <2>2, <4>1, SuffixStays DEF AddConn
    <3> QED BY <3>1, <3>2
  <2>3. CASE ReadRing(d)
    <3>1. CASE d = c
      BY <2>3, <3>1, ReadRingCovers
    <3>2. CASE d # c
      <4>1. cpc'[c] = cpc[c] /\ history'[c] = history[c] /\ unsent'[c] = unsent[c]
        BY <2>3, <3>2 DEF ReadRing, TypeInv, TypeOK
      <4> QED BY <2>3, <4>1, SuffixStays DEF ReadRing
    <3> QED BY <3>1, <3>2
  <2>4. CASE SendHistory(d)
    <3>1. CASE d = c
      BY <2>4, <3>1, SendHistoryCovers
    <3>2. CASE d # c
      <4>1. cpc'[c] = cpc[c] /\ history'[c] = history[c] /\ received'[c] = received[c]
        BY <2>4, <3>2 DEF SendHistory
      <4> QED BY <2>4, <4>1, SuffixStays DEF SendHistory
    <3> QED BY <3>1, <3>2
  <2>5. CASE Leave(d)
    <3>1. CASE d = c
      <4>1. cpc'[c] = "closed"
        BY <2>5, <3>1 DEF Leave, TypeInv, TypeOK
      <4> QED BY <4>1 DEF Suffix
    <3>2. CASE d # c
      <4>1. cpc'[c] = cpc[c] /\ received'[c] = received[c]
        BY <2>5, <3>2 DEF Leave
      <4> QED BY <2>5, <4>1, SuffixStays DEF Leave
    <3> QED BY <3>1, <3>2
  <2>6. CASE Check(d)
    <3>1. CASE d = c
      <4>1. cpc'[c] \in {"add", "closed"}
        BY <2>6, <3>1, CheckSteps DEF TypeInv, TypeOK
      <4> QED BY <4>1 DEF Suffix
    <3>2. CASE d # c
      <4>1. cpc'[c] = cpc[c]
        <5>1. \/ cpc' = [cpc EXCEPT ![d] = "add"]
              \/ cpc' = [cpc EXCEPT ![d] = "closed"]
          BY <2>6, CheckSteps
        <5> QED BY <3>2, <5>1 DEF TypeInv, TypeOK
      <4> QED BY <2>6, <4>1, CheckSteps, SuffixStays
    <3> QED BY <3>1, <3>2
  <2>7. CASE SendCell(d)
    <3>1. CASE d = c
      BY <2>7, <3>1, SendCellKeeps
    <3>2. CASE d # c
      <4>1. unsent'[c] = unsent[c] /\ received'[c] = received[c]
        BY <2>7, <3>2 DEF SendCell
      <4> QED BY <2>7, <4>1, SuffixStays DEF SendCell
    <3> QED BY <3>1, <3>2
  <2> QED
    BY <1>13, <2>1, <2>2, <2>3, <2>4, <2>5, <2>6, <2>7 DEF Serve
<1>14. ASSUME NEW t \in Token, IssueToken(t) PROVE Suffix(c)'
  BY <1>14, SuffixStays DEF IssueToken
<1>15. ASSUME NEW t \in Token, Expire(t) PROVE Suffix(c)'
  BY <1>15, SuffixStays DEF Expire
<1>16. CASE Exit
  BY <1>16, SuffixStays DEF Exit
<1> QED
  BY <1>1, <1>2, <1>3, <1>4, <1>5, <1>6, <1>7, <1>8, <1>9, <1>10,
     <1>11, <1>12, <1>13, <1>14, <1>15, <1>16 DEF Next, Operate

\* A client that has its history, and that no reader is about to write to, was
\* sent an end of the output that is a ring long at least, without a gap, unless
\* its history was the ring itself and a cell of it was overwritten before it was
\* sent: for any number of clients that come and go, and of readers that write
\* beside each other and beside the history (Console.AddConn, ReadRing, write).
THEOREM ClientsSeeSuffix == Spec => []ClientSeesSuffix
<1>1. Init => ClientInv
  <2> SUFFICES ASSUME Init PROVE ClientInv
    OBVIOUS
  <2>1. Listed /\ \A c \in Client : Suffix(c)
    BY DEF Init, Listed, Suffix
  <2>2. RingInv
    BY Numbers DEF Init, RingInv
  <2> QED BY <2>1, <2>2, TypeInit DEF ClientInv
<1>2. ClientInv /\ [Next]_vars => ClientInv'
  BY TypeStep, RingStep, ListedStep, SuffixStep DEF ClientInv
<1>3. ClientInv => ClientSeesSuffix
  <2> SUFFICES ASSUME ClientInv, NEW c \in Client, cpc[c] = "open", c \notin torn,
                      \A r \in Reader : c \notin targets[r]
               PROVE  \E n \in 0 .. Len(stored) :
                         n >= Len(LastOf(stored, RingSize)) /\ received[c] = Units(LastOf(stored, n))
    BY DEF ClientSeesSuffix
  <2>1. PICK n \in Least .. Len(stored) : Seen(c) = Ends(stored, n)
    BY DEF ClientInv, Suffix
  <2>2. Seen(c) = received[c]
    BY DEF Seen, Due
  <2>3. Least \in 0 .. Len(stored) /\ Len(LastOf(stored, RingSize)) = Least
    BY RingUnits DEF ClientInv
  <2>4. stored \in Seq(Unit) /\ Len(stored) \in Nat
    BY DEF ClientInv, TypeInv, TypeOK
  <2>5. n \in 0 .. Len(stored) /\ n >= Least
    BY <2>1, <2>3, <2>4
  <2>6. Units(LastOf(stored, n)) = Ends(stored, n)
    BY <2>4, <2>5, TailUnits
  <2> QED BY <2>1, <2>2, <2>3, <2>5, <2>6
<1> QED
  BY <1>1, <1>2, <1>3, PTL DEF Spec
=============================================================================
