------------------------ MODULE CommandBufferProofs -------------------------
(***************************************************************************)
(* What holds of command buffers of any size, for any commands and any     *)
(* order of calls: a submission executes what was recorded, a draw uses    *)
(* what was bound there, and CommandBuffer implements CommandQueue.        *)
(***************************************************************************)
EXTENDS CommandBuffer, FiniteSetTheorems, SequenceTheorems, TLAPS

(***************************************************************************)
(* The inductive invariant. That the memory holds the log is inductive     *)
(* together with the facts that say where cursors are: a reader stands at  *)
(* the start of a logged command or at the end, all others at 0, and a     *)
(* buffer that is freed has an empty log.                                  *)
(***************************************************************************)
AtCommand == executing => \E k \in 0..Len(log[Current]) : read_cursor[Current] = EndOf(Current, k)

OthersRewound == \A b \in CommandBuffers : (executing /\ b = Current) \/ read_cursor[b] = 0

LogInOrder ==
  \A b \in CommandBuffers : \A k \in 1..Len(log[b]) :
    /\ log[b][k].at < data_cursor[b]
    /\ \A j \in 1..(k - 1) : log[b][j].at < log[b][k].at

FreedEmpty == \A b \in CommandBuffers \ Live : log[b] = << >> /\ data_cursor[b] = 0

SubmittedLive == submitted \in Seq(Live) /\ (executing => submitted # << >>)

IndInv ==
  /\ TypeOK
  /\ DataIsLog
  /\ AtCommand
  /\ OthersRewound
  /\ LogInOrder
  /\ FreedEmpty
  /\ SubmittedLive

-----------------------------------------------------------------------------
(* How commands lie in memory.                                             *)

(* A command is a key, then its structure, then the bytes behind it. *)
LEMMA EncodingShape ==
  ASSUME NEW c \in Commands
  PROVE  /\ Encoding(c) \in Seq(Cells)
         /\ Len(Encoding(c)) = IF c.op = "RenderPassEnd" THEN 1 ELSE 2 + Len(c.bytes)
         /\ Encoding(c)[1] = Key(c.op)
         /\ c.op # "RenderPassEnd" =>
              /\ Encoding(c)[2] = Struct(c)
              /\ \A i \in 1..Len(c.bytes) : Encoding(c)[2 + i] = Byte(c.bytes[i])
<1>1. c \in [op : Keys, args : Args, bytes : Seq(Bytes)]
  BY CommandsAssumption
<1>2. c.op \in Keys /\ c.bytes \in Seq(Bytes) /\ Len(c.bytes) \in Nat
  BY <1>1
<1> DEFINE tail == [i \in 1..Len(c.bytes) |-> Byte(c.bytes[i])]
<1>3. tail \in Seq(Cells) /\ Len(tail) = Len(c.bytes)
  <2>1. \A i \in 1..Len(c.bytes) : Byte(c.bytes[i]) \in Cells
    BY <1>2 DEF Cells
  <2>2. QED
    BY <1>2, <2>1
<1>4. Key(c.op) \in Cells /\ Struct(c) \in Cells
  BY <1>2 DEF Cells
<1>5. CASE c.op = "RenderPassEnd"
  <2>1. c.bytes = << >>
    BY <1>5, CommandsAssumption
  <2>2. tail = << >>
    BY <2>1, <1>3
  <2>3. Encoding(c) = <<Key(c.op)>>
    BY <1>5, <1>4, <2>1, <2>2 DEF Encoding
  <2>4. QED
    BY <1>4, <1>5, <2>3
<1>6. CASE c.op # "RenderPassEnd"
  <2> DEFINE front == <<Key(c.op)>> \o <<Struct(c)>>
  <2>1. Encoding(c) = front \o tail
    BY <1>6 DEF Encoding
  <2>2. front \in Seq(Cells) /\ Len(front) = 2 /\ front[1] = Key(c.op) /\ front[2] = Struct(c)
    BY <1>4
  <2> HIDE DEF tail, front
  <2>3. /\ Encoding(c) \in Seq(Cells)
        /\ Len(Encoding(c)) = 2 + Len(tail)
        /\ Encoding(c)[1] = Key(c.op)
        /\ Encoding(c)[2] = Struct(c)
        /\ \A i \in 1..Len(tail) : Encoding(c)[2 + i] = tail[i]
    <3>a. front \in Seq(Cells) /\ tail \in Seq(Cells)
      BY <2>2, <1>3
    <3>b. /\ front \o tail \in Seq(Cells)
          /\ Len(front \o tail) = Len(front) + Len(tail)
          /\ \A i \in 1..(Len(front) + Len(tail)) :
               (front \o tail)[i] = IF i <= Len(front) THEN front[i] ELSE tail[i - Len(front)]
      BY <3>a, ConcatProperties, Zenon
    <3>1. /\ Encoding(c) \in Seq(Cells)
          /\ Len(Encoding(c)) = 2 + Len(tail)
          /\ \A i \in 1..(2 + Len(tail)) :
               Encoding(c)[i] = IF i <= 2 THEN front[i] ELSE tail[i - 2]
      BY <2>1, <2>2, <3>b, Zenon
    <3>2. Len(tail) \in Nat
      BY <1>3
    <3>3. QED
      BY <3>1, <3>2, <2>2
  <2>4. \A i \in 1..Len(c.bytes) : tail[i] = Byte(c.bytes[i])
    BY DEF tail
  <2>5. QED
    BY <1>3, <1>6, <2>3, <2>4
<1>7. QED
  BY <1>5, <1>6

-----------------------------------------------------------------------------
(* Recording.                                                              *)

LogEntries == [at : Nat, cmd : Commands]

(* What the type invariant says of one buffer. *)
LEMMA BufferTypes ==
  ASSUME TypeOK, NEW b \in CommandBuffers
  PROVE  /\ DataSize \in Nat /\ DataSize > 0
         /\ data_cursor[b] \in Nat /\ data_cursor[b] < DataSize
         /\ read_cursor[b] \in Nat /\ read_cursor[b] <= data_cursor[b]
         /\ log[b] \in Seq(LogEntries) /\ Len(log[b]) \in Nat
         /\ data[b] = NoData \/ data[b] \in [0..(DataSize - 1) -> Cells]
<1>1. DataSize \in Nat /\ DataSize > 0
  BY BoundsAssumption
<1>2. data_cursor[b] \in 0..(DataSize - 1)
  BY DEF TypeOK
<1>3. read_cursor[b] \in 0..data_cursor[b]
  BY DEF TypeOK
<1>4. log[b] \in Seq(LogEntries)
  BY DEF TypeOK, LogEntries
<1>5. data[b] \in [0..(DataSize - 1) -> Cells] \cup {NoData}
  BY DEF TypeOK
<1>6. data_cursor[b] \in Nat /\ data_cursor[b] < DataSize
  BY <1>1, <1>2
<1>7. read_cursor[b] \in Nat /\ read_cursor[b] <= data_cursor[b]
  BY <1>3, <1>6
<1>8. Len(log[b]) \in Nat
  BY <1>4
<1>9. QED
  BY <1>1, <1>4, <1>5, <1>6, <1>7, <1>8

(* Where the commands of a buffer end, and that they lie below its cursor. *)
LEMMA EndsInBuffer ==
  ASSUME IndInv, NEW b \in Live, NEW k \in 0..Len(log[b])
  PROVE  EndOf(b, k) \in Nat /\ EndOf(b, k) <= data_cursor[b]
<1>0. b \in CommandBuffers
  BY DEF Live
<1>1. /\ data_cursor[b] \in Nat
      /\ log[b] \in Seq(LogEntries)
      /\ Len(log[b]) \in Nat
  BY <1>0, BufferTypes DEF IndInv
<1>2. CASE k = Len(log[b])
  BY <1>1, <1>2 DEF EndOf
<1>3. CASE k # Len(log[b])
  <2>1. k + 1 \in 1..Len(log[b])
    BY <1>1, <1>3
  <2>2. log[b][k + 1] \in LogEntries
    BY <1>1, <2>1
  <2>3. log[b][k + 1].at < data_cursor[b]
    BY <1>0, <2>1 DEF IndInv, LogInOrder
  <2>4. log[b][k + 1].at \in Nat
    BY <2>2 DEF LogEntries
  <2>5. QED
    BY <1>1, <1>3, <2>3, <2>4 DEF EndOf
<1>4. QED
  BY <1>2, <1>3

(* Nothing about the log depends on the cursors that read.                 *)
LEMMA LogUntouched ==
  ASSUME IndInv, UNCHANGED <<data, data_cursor, log>>
  PROVE  DataIsLog' /\ LogInOrder' /\ FreedEmpty'
BY DEF IndInv, DataIsLog, LogInOrder, FreedEmpty, EndOf, Live

(* Nor do the other buffers' logs when one is reset. *)
LEMMA LogReset ==
  ASSUME IndInv, NEW b \in CommandBuffers, Reset(b),
         \A a \in CommandBuffers \ {b} : data'[a] = data[a]
  PROVE  DataIsLog' /\ LogInOrder' /\ FreedEmpty'
<1>1. \A a \in CommandBuffers \ {b} : log'[a] = log[a] /\ data_cursor'[a] = data_cursor[a]
  BY DEF IndInv, TypeOK, Reset
<1>2. log'[b] = << >> /\ data_cursor'[b] = 0
  BY DEF IndInv, TypeOK, Reset
<1>3. \A a \in CommandBuffers \ {b} : a \in Live' <=> a \in Live
  BY DEF Live
<1>4. DataIsLog'
  <2>1. SUFFICES ASSUME NEW a \in CommandBuffers, a \in Live'
                 PROVE  /\ EndOf(a, 0)' = 0
                        /\ \A k \in 1..Len(log'[a]) :
                             LET e == Encoding(log'[a][k].cmd)
                             IN  /\ EndOf(a, k)' = log'[a][k].at + Len(e)
                                 /\ \A i \in 1..Len(e) : data'[a][log'[a][k].at + i - 1] = e[i]
    BY DEF DataIsLog, Live
  <2>2. CASE a = b
    <3>1. Len(log'[a]) = 0
      BY <1>2, <2>2
    <3>2. EndOf(a, 0)' = 0
      BY <1>2, <2>2, <3>1 DEF EndOf
    <3>3. QED
      BY <3>1, <3>2
  <2>3. CASE a # b
    <3>1. a \in Live /\ log'[a] = log[a] /\ data_cursor'[a] = data_cursor[a] /\ data'[a] = data[a]
      BY <1>1, <1>3, <2>1, <2>3
    <3>2. \A k : EndOf(a, k)' = EndOf(a, k)
      BY <3>1 DEF EndOf
    <3>3. QED
      BY <3>1, <3>2 DEF IndInv, DataIsLog
  <2>4. QED
    BY <2>2, <2>3
<1>5. LogInOrder'
  <2>1. \A k \in 1..Len(log'[b]) : FALSE
    BY <1>2
  <2>2. QED
    BY <1>1, <2>1 DEF IndInv, LogInOrder
<1>6. FreedEmpty'
  BY <1>1, <1>2, <1>3 DEF IndInv, FreedEmpty
<1>7. QED
  BY <1>4, <1>5, <1>6

(* What Bound leaves in a table. *)
LEMMA BoundCells ==
  ASSUME NEW S, NEW size \in Nat, NEW table \in [0..(size - 1) -> S],
         NEW first \in Nat, NEW items \in Seq(S), first + Len(items) <= size
  PROVE  /\ Bound(table, first, items) \in [0..(size - 1) -> S]
         /\ \A i \in 1..Len(items) : Bound(table, first, items)[first + i - 1] = items[i]
         /\ \A i \in 0..(first - 1) : Bound(table, first, items)[i] = table[i]
<1>1. Len(items) \in Nat /\ DOMAIN table = 0..(size - 1)
  OBVIOUS
<1>2. \A i \in first..(first + Len(items) - 1) : items[i - first + 1] \in S
  <2>1. TAKE i \in first..(first + Len(items) - 1)
  <2>2. i - first + 1 \in 1..Len(items)
    BY <1>1
  <2>3. QED
    BY <2>2
<1>3. Bound(table, first, items) \in [0..(size - 1) -> S]
  BY <1>1, <1>2 DEF Bound
<1>4. ASSUME NEW i \in 1..Len(items)
      PROVE  Bound(table, first, items)[first + i - 1] = items[i]
  <2>1. /\ first + i - 1 \in 0..(size - 1)
        /\ first + i - 1 \in first..(first + Len(items) - 1)
        /\ (first + i - 1) - first + 1 = i
    BY <1>1
  <2>2. QED
    BY <1>1, <2>1 DEF Bound
<1>5. ASSUME NEW i \in 0..(first - 1)
      PROVE  Bound(table, first, items)[i] = table[i]
  <2>1. i \in 0..(size - 1) /\ i \notin first..(first + Len(items) - 1)
    BY <1>1
  <2>2. QED
    BY <1>1, <2>1 DEF Bound
<1>6. QED
  BY <1>3, <1>4, <1>5

(* A recorded command is appended to the log and to the memory alike.      *)
LEMMA LogExtended ==
  ASSUME IndInv, NEW b \in CommandBuffers, NEW c \in Commands, vkCmd(b, c), Fits(b, c)
  PROVE  /\ DataIsLog' /\ LogInOrder' /\ FreedEmpty'
         /\ data' \in [CommandBuffers -> [0..(DataSize - 1) -> Cells] \cup {NoData}]
         /\ data_cursor' \in [CommandBuffers -> 0..(DataSize - 1)]
         /\ \A a \in CommandBuffers : data_cursor[a] <= data_cursor'[a]
         /\ log' \in [CommandBuffers -> Seq(LogEntries)]
         /\ Live' = Live
<1> DEFINE n == Len(log[b])
           at == data_cursor[b]
           code == Encoding(c)
           entry == [at |-> at, cmd |-> c]
<1>1. /\ b \in Live
      /\ data' = [data EXCEPT ![b] = Bound(@, at, code)]
      /\ data_cursor' = [data_cursor EXCEPT ![b] = @ + Len(code)]
      /\ log' = [log EXCEPT ![b] = Append(@, entry)]
  BY DEF vkCmd
<1>2. /\ log[b] \in Seq(LogEntries) /\ n \in Nat
      /\ at \in Nat /\ at < DataSize
      /\ data[b] \in [0..(DataSize - 1) -> Cells]
      /\ DataSize \in Nat
  BY <1>1, BufferTypes DEF IndInv, Live
<1>3. entry \in LogEntries
  BY <1>2 DEF LogEntries
<1>4. /\ data \in [CommandBuffers -> [0..(DataSize - 1) -> Cells] \cup {NoData}]
      /\ data_cursor \in [CommandBuffers -> 0..(DataSize - 1)]
      /\ log \in [CommandBuffers -> Seq(LogEntries)]
  BY DEF IndInv, TypeOK, LogEntries
<1>5. code \in Seq(Cells) /\ Len(code) \in Nat \ {0}
  <2>1. c.bytes \in Seq(Bytes)
    BY CommandsAssumption
  <2>2. Len(c.bytes) \in Nat
    BY <2>1
  <2>3. QED
    BY <2>2, EncodingShape
<1>6. at + Len(code) < DataSize
  BY DEF Fits
<1> HIDE DEF code
<1>7. /\ data'[b] = Bound(data[b], at, code)
      /\ \A a \in CommandBuffers \ {b} : data'[a] = data[a]
  BY <1>1, <1>4, Zenon DEF code
<1>8. /\ data'[b] \in [0..(DataSize - 1) -> Cells]
      /\ \A i \in 1..Len(code) : data'[b][at + i - 1] = code[i]
      /\ \A i \in 0..(at - 1) : data'[b][i] = data[b][i]
  <2>1. at + Len(code) <= DataSize
    BY <1>2, <1>5, <1>6
  <2>2. /\ Bound(data[b], at, code) \in [0..(DataSize - 1) -> Cells]
        /\ \A i \in 1..Len(code) : Bound(data[b], at, code)[at + i - 1] = code[i]
        /\ \A i \in 0..(at - 1) : Bound(data[b], at, code)[i] = data[b][i]
    <3> HIDE DEF at
    <3>1. /\ DataSize \in Nat /\ data[b] \in [0..(DataSize - 1) -> Cells]
          /\ at \in Nat /\ code \in Seq(Cells)
      BY <1>2, <1>5
    <3>2. Bound(data[b], at, code) \in [0..(DataSize - 1) -> Cells]
      BY <3>1, <2>1, BoundCells
    <3>3. \A i \in 1..Len(code) : Bound(data[b], at, code)[at + i - 1] = code[i]
      BY <3>1, <2>1, BoundCells
    <3>4. \A i \in 0..(at - 1) : Bound(data[b], at, code)[i] = data[b][i]
      BY <3>1, <2>1, BoundCells
    <3>5. QED
      BY <3>2, <3>3, <3>4
  <2>3. QED
    BY <1>7, <2>2, Zenon
<1>9. data' \in [CommandBuffers -> [0..(DataSize - 1) -> Cells] \cup {NoData}]
  BY <1>4, <1>1, <1>7, <1>8
<1>10. data'[b] # NoData
  <2>1. 0 \in DOMAIN data'[b]
    BY <1>2, <1>8
  <2>2. DOMAIN NoData = {}
    BY DEF NoData
  <2>3. QED
    BY <2>1, <2>2
<1>11. Live' = Live
  BY <1>1, <1>7, <1>10 DEF Live
<1>12. /\ data_cursor'[b] = at + Len(code)
      /\ \A a \in CommandBuffers \ {b} : data_cursor'[a] = data_cursor[a]
  BY <1>1, <1>4
<1>13. data_cursor' \in [CommandBuffers -> 0..(DataSize - 1)]
  <2>1. at + Len(code) \in 0..(DataSize - 1)
    BY <1>2, <1>5, <1>6
  <2>2. QED
    BY <1>4, <1>1, <1>12, <2>1
<1>14. /\ log'[b] = Append(log[b], entry)
       /\ \A a \in CommandBuffers \ {b} : log'[a] = log[a]
  BY <1>1, <1>4, Zenon
<1>15. /\ Len(log'[b]) = n + 1
       /\ log'[b][n + 1] = entry
       /\ \A k \in 1..n : log'[b][k] = log[b][k]
       /\ log'[b] \in Seq(LogEntries)
  <2> HIDE DEF entry
  <2>0. log[b] \in Seq(LogEntries) /\ entry \in LogEntries
    BY <1>2, <1>3
  <2>1. /\ Append(log[b], entry) \in Seq(LogEntries)
        /\ Len(Append(log[b], entry)) = n + 1
        /\ \A k \in 1..n : Append(log[b], entry)[k] = log[b][k]
        /\ Append(log[b], entry)[n + 1] = entry
    BY <2>0, AppendProperties, ZenonT(30)
  <2>2. QED
    BY <1>14, <2>1, Zenon
<1>16. log' \in [CommandBuffers -> Seq(LogEntries)]
  BY <1>4, <1>1, <1>15
<1>17. LogInOrder'
  <2>1. SUFFICES ASSUME NEW a \in CommandBuffers, NEW k \in 1..Len(log'[a])
                 PROVE  /\ log'[a][k].at < data_cursor'[a]
                        /\ \A j \in 1..(k - 1) : log'[a][j].at < log'[a][k].at
    BY DEF LogInOrder
  <2>2. CASE a # b
    <3>1. log'[a] = log[a] /\ data_cursor'[a] = data_cursor[a]
      BY <2>2, <1>12, <1>14
    <3>2. QED
      BY <3>1 DEF IndInv, LogInOrder
  <2>3. CASE a = b /\ k = n + 1
    <3>1. \A j \in 1..n : log[b][j].at < at
      BY <1>2 DEF IndInv, LogInOrder
    <3>2. at < at + Len(code)
      BY <1>2, <1>5
    <3>3. log'[b][n + 1].at = at
      BY <1>15
    <3>4. \A j \in 1..n : log'[b][j].at < at
      BY <1>15, <3>1
    <3>5. (n + 1) - 1 = n
      BY <1>2
    <3>6. QED
      BY <2>3, <1>12, <3>2, <3>3, <3>4, <3>5
  <2>4. CASE a = b /\ k # n + 1
    <3>1. k \in 1..n
      BY <1>2, <1>15, <2>4
    <3>2. log[b][k].at < at /\ \A j \in 1..(k - 1) : log[b][j].at < log[b][k].at
      BY <1>2, <3>1 DEF IndInv, LogInOrder
    <3>3. \A j \in 1..(k - 1) : j \in 1..n
      BY <1>2, <3>1
    <3>4. \A j \in 1..k : log'[b][j] = log[b][j]
      BY <1>2, <1>15, <3>1, <3>3
    <3>5. log[b][k].at \in Nat
      <4>1. log[b][k] \in LogEntries
        BY <1>2, <3>1
      <4>2. QED
        BY <4>1 DEF LogEntries
    <3>6. log[b][k].at < at + Len(code)
      BY <1>2, <1>5, <3>2, <3>5
    <3>7. log'[b][k] = log[b][k] /\ \A j \in 1..(k - 1) : log'[b][j] = log[b][j]
      BY <1>15, <3>1, <3>3
    <3>8. QED
      BY <2>4, <1>12, <3>2, <3>6, <3>7
  <2>5. QED
    BY <2>2, <2>3, <2>4
<1>18. FreedEmpty'
  BY <1>1, <1>11, <1>12, <1>14 DEF IndInv, FreedEmpty
<1>19. DataIsLog'
  <2>1. SUFFICES ASSUME NEW a \in Live, NEW k \in 0..Len(log'[a])
                 PROVE  /\ k = 0 => EndOf(a, k)' = 0
                        /\ k # 0 => LET e == Encoding(log'[a][k].cmd)
                                    IN  /\ EndOf(a, k)' = log'[a][k].at + Len(e)
                                        /\ \A i \in 1..Len(e) :
                                             data'[a][log'[a][k].at + i - 1] = e[i]
    <3>1. \A a \in Live : Len(log'[a]) \in Nat
      BY <1>16 DEF Live
    <3>2. \A a \in Live : 0 \in 0..Len(log'[a]) /\ \A k \in 1..Len(log'[a]) : k \in 0..Len(log'[a]) /\ k # 0
      BY <3>1
    <3>3. QED
      BY <1>11, <3>2 DEF DataIsLog
  <2>2. CASE a # b
    <3>1. /\ data'[a] = data[a] /\ data_cursor'[a] = data_cursor[a] /\ log'[a] = log[a]
          /\ a \in CommandBuffers
      BY <2>2, <1>7, <1>12, <1>14 DEF Live
    <3>2. EndOf(a, k)' = EndOf(a, k)
      BY <3>1 DEF EndOf
    <3>3. Len(log[a]) \in Nat
      BY <3>1, BufferTypes DEF IndInv
    <3>4. k = 0 \/ k \in 1..Len(log[a])
      BY <3>1, <3>3
    <3>5. QED
      BY <3>1, <3>2, <3>4 DEF IndInv, DataIsLog
  <2>3. CASE a = b /\ k \in 0..n
    <3>1. EndOf(b, k)' = EndOf(b, k)
      <4>1. CASE k = n
        BY <4>1, <1>2, <1>15 DEF EndOf
      <4>2. CASE k # n
        <5>1. k + 1 \in 1..n /\ k # n + 1
          BY <2>3, <4>2, <1>2
        <5>2. QED
          BY <4>2, <5>1, <1>15 DEF EndOf
      <4>3. QED
        BY <4>1, <4>2
    <3>2. CASE k = 0
      <4>1. EndOf(b, k) = 0
        BY <1>1, <3>2 DEF IndInv, DataIsLog
      <4>2. QED
        BY <2>3, <3>1, <3>2, <4>1
    <3>3. CASE k # 0
      <4> DEFINE e == Encoding(log[b][k].cmd)
                 start == log[b][k].at
      <4>1. k \in 1..n
        BY <1>2, <2>3, <3>3
      <4>2. /\ EndOf(b, k) = start + Len(e)
            /\ \A i \in 1..Len(e) : data[b][start + i - 1] = e[i]
        BY <1>1, <4>1 DEF IndInv, DataIsLog
      <4>3. log[b][k] \in LogEntries
        BY <1>2, <4>1
      <4>4. start \in Nat /\ log[b][k].cmd \in Commands
        BY <4>3 DEF LogEntries
      <4>5. e \in Seq(Cells) /\ Len(e) \in Nat
        BY <4>4, EncodingShape
      <4>6. EndOf(b, k) <= at
        BY <1>1, <2>3, EndsInBuffer
      <4>7. log'[b][k] = log[b][k]
        BY <1>15, <4>1
      <4> HIDE DEF e, start, at
      <4>8. \A i \in 1..Len(e) : start + i - 1 \in 0..(at - 1)
        BY <1>2, <4>2, <4>4, <4>5, <4>6
      <4>9. \A i \in 1..Len(e) : data'[b][start + i - 1] = e[i]
        BY <1>8, <4>2, <4>8
      <4>10. QED
        BY <2>3, <3>1, <3>3, <4>2, <4>7, <4>9 DEF e, start
    <3>4. QED
      BY <3>2, <3>3
  <2>4. CASE a = b /\ k = n + 1
    <3>1. Len(log'[b]) = k
      BY <1>15, <2>4
    <3>2. EndOf(b, k)' = at + Len(code)
      BY <1>12, <3>1 DEF EndOf
    <3>3. log'[b][k].at = at /\ Encoding(log'[b][k].cmd) = code
      BY <1>15, <2>4 DEF code
    <3>4. k # 0
      BY <1>2, <2>4
    <3>5. QED
      BY <1>8, <2>4, <3>2, <3>3, <3>4
  <2>5. a = b => k \in 0..n \/ k = n + 1
    BY <1>2, <1>15
  <2>6. QED
    BY <2>2, <2>3, <2>4, <2>5
<1>20. \A a \in CommandBuffers : data_cursor[a] <= data_cursor'[a]
  <2>1. \A a \in CommandBuffers : data_cursor[a] \in Nat
    BY BufferTypes DEF IndInv
  <2>2. at <= at + Len(code)
    BY <1>2, <1>5
  <2>3. QED
    BY <1>12, <2>1, <2>2
<1>21. QED
  BY <1>20, <1>9, <1>11, <1>13, <1>16, <1>17, <1>18, <1>19

-----------------------------------------------------------------------------
(* Executing.                                                              *)

(* Bytes written behind a structure are read as they were.                 *)
LEMMA BytesRead ==
  ASSUME NEW S, NEW s \in Seq(S)
  PROVE  [i \in 1..Len(s) |-> s[i]] = s
OBVIOUS

(* What the reader finds where a logged command starts is that command.    *)
LEMMA ReadsCommand ==
  ASSUME IndInv, executing, has_items,
         NEW k \in 0..Len(log[Current]), read_cursor[Current] = EndOf(Current, k)
  PROVE  /\ k + 1 \in 1..Len(log[Current])
         /\ log[Current][k + 1].at = read_cursor[Current]
         /\ log[Current][k + 1].cmd \in Commands
         /\ IsCommand
         /\ CommandRead.op = log[Current][k + 1].cmd.op
         /\ log[Current][k + 1].cmd.op # "UpdateBuffer" =>
              /\ CommandRead = log[Current][k + 1].cmd
              /\ read_cursor[Current] + SizeRead = EndOf(Current, k + 1)
<1> DEFINE b == Current
           c == log[b][k + 1].cmd
           code == Encoding(c)
<1>1. submitted \in Seq(Live) /\ submitted # << >>
  BY DEF IndInv, SubmittedLive
<1>2. b \in Live /\ b \in CommandBuffers
  <2>1. b \in Live
    BY <1>1 DEF Current
  <2>2. QED
    BY <2>1 DEF Live
<1>3. /\ read_cursor[b] \in Nat /\ data_cursor[b] \in Nat
      /\ log[b] \in Seq(LogEntries) /\ Len(log[b]) \in Nat
  BY <1>2, BufferTypes DEF IndInv
<1>4. k # Len(log[b])
  BY <1>3 DEF has_items, EndOf
<1>5. k + 1 \in 1..Len(log[b])
  BY <1>3, <1>4
<1>6. log[b][k + 1].at = read_cursor[b]
  BY <1>4 DEF EndOf
<1>7. c \in Commands
  <2>1. log[b][k + 1] \in LogEntries
    BY <1>3, <1>5
  <2>2. QED
    BY <2>1 DEF LogEntries
<1>8. /\ EndOf(b, k + 1) = read_cursor[b] + Len(code)
      /\ \A i \in 1..Len(code) : data[b][read_cursor[b] + i - 1] = code[i]
  BY <1>2, <1>5, <1>6 DEF IndInv, DataIsLog
<1>9. /\ c.op \in Keys /\ c.bytes \in Seq(Bytes) /\ Len(c.bytes) \in Nat
      /\ c = [op |-> c.op, args |-> c.args, bytes |-> c.bytes]
      /\ c.op \notin {"PushConstants", "UpdateBuffer"} => c.bytes = << >>
      /\ c.op = "RenderPassEnd" => c.args = Null
  <2>1. c \in [op : Keys, args : Args, bytes : Seq(Bytes)]
    BY <1>7, CommandsAssumption
  <2>2. QED
    BY <1>7, <2>1, CommandsAssumption
<1>10. /\ Len(code) = IF c.op = "RenderPassEnd" THEN 1 ELSE 2 + Len(c.bytes)
       /\ code[1] = Key(c.op)
       /\ c.op # "RenderPassEnd" =>
            /\ code[2] = Struct(c)
            /\ \A i \in 1..Len(c.bytes) : code[2 + i] = Byte(c.bytes[i])
  BY <1>7, EncodingShape
<1> HIDE DEF code, c
<1>11. Ahead(0) = Key(c.op)
  <2>1. 1 \in 1..Len(code) /\ read_cursor[b] + 1 - 1 = read_cursor[b] + 0
    BY <1>3, <1>9, <1>10
  <2>2. data[b][read_cursor[b] + 0] = code[1]
    BY <1>8, <2>1
  <2>3. QED
    BY <2>2, <1>10 DEF Ahead
<1>12. c.op # "RenderPassEnd" =>
         Ahead(1) = Struct(c) /\ \A i \in 1..Len(c.bytes) : Ahead(1 + i) = Byte(c.bytes[i])
  <2>1. SUFFICES ASSUME c.op # "RenderPassEnd"
                 PROVE  Ahead(1) = Struct(c)
                        /\ \A i \in 1..Len(c.bytes) : Ahead(1 + i) = Byte(c.bytes[i])
    OBVIOUS
  <2>2. Ahead(1) = Struct(c)
    <3>1. 2 \in 1..Len(code) /\ read_cursor[b] + 2 - 1 = read_cursor[b] + 1
      BY <2>1, <1>3, <1>9, <1>10
    <3>2. data[b][read_cursor[b] + 1] = code[2]
      BY <1>8, <3>1
    <3>3. QED
      BY <3>2, <2>1, <1>10 DEF Ahead
  <2>3. ASSUME NEW i \in 1..Len(c.bytes)
        PROVE  Ahead(1 + i) = Byte(c.bytes[i])
    <3>1. 2 + i \in 1..Len(code) /\ read_cursor[b] + (2 + i) - 1 = read_cursor[b] + (1 + i)
      BY <2>1, <1>3, <1>9, <1>10
    <3>2. data[b][read_cursor[b] + (1 + i)] = code[2 + i]
      BY <1>8, <3>1
    <3>3. QED
      BY <3>2, <2>1, <1>10 DEF Ahead
  <2>4. QED
    BY <2>2, <2>3
<1>13. /\ Ahead(0).kind = "key" /\ Ahead(0).op = c.op
       /\ c.op # "RenderPassEnd" =>
            /\ Ahead(1).kind = "struct" /\ Ahead(1).op = c.op
            /\ Ahead(1).args = c.args /\ Ahead(1).size = Len(c.bytes)
            /\ \A i \in 1..Len(c.bytes) : Ahead(1 + i).kind = "byte" /\ Ahead(1 + i).value = c.bytes[i]
  <2>1. Ahead(0).kind = "key" /\ Ahead(0).op = c.op
    BY <1>11 DEF Key
  <2>2. c.op # "RenderPassEnd" =>
          /\ Ahead(1).kind = "struct" /\ Ahead(1).op = c.op
          /\ Ahead(1).args = c.args /\ Ahead(1).size = Len(c.bytes)
    BY <1>12 DEF Struct
  <2>3. \A v : Byte(v).kind = "byte" /\ Byte(v).value = v
    BY DEF Byte
  <2>4. c.op # "RenderPassEnd" =>
          \A i \in 1..Len(c.bytes) : Ahead(1 + i).kind = "byte" /\ Ahead(1 + i).value = c.bytes[i]
    BY <1>12, <2>3
  <2>5. QED
    BY <2>1, <2>2, <2>4
<1>14. IsCommand
  BY <1>13 DEF IsCommand
<1>15. CommandRead.op = c.op
  BY <1>13 DEF CommandRead
<1>16. ASSUME c.op # "UpdateBuffer"
       PROVE  CommandRead = c /\ SizeRead = Len(code)
  <2>1. CASE c.op = "RenderPassEnd"
    <3>1. CommandRead = [op |-> c.op, args |-> Null, bytes |-> << >>]
      BY <2>1, <1>13 DEF CommandRead
    <3>2. SizeRead = 1
      BY <2>1, <1>13 DEF SizeRead
    <3>3. QED
      BY <2>1, <3>1, <3>2, <1>9, <1>10
  <2>2. CASE c.op = "PushConstants"
    <3>1. \A i \in 1..Len(c.bytes) : Ahead(1 + i).value = c.bytes[i]
      BY <2>2, <1>13
    <3>2. [i \in 1..Len(c.bytes) |-> Ahead(1 + i).value] = c.bytes
      <4>1. [i \in 1..Len(c.bytes) |-> c.bytes[i]] = c.bytes
        BY <1>9, BytesRead
      <4>2. QED
        BY <3>1, <4>1
    <3>3. CommandRead = [op |-> c.op, args |-> c.args, bytes |-> c.bytes]
      BY <2>2, <3>2, <1>13 DEF CommandRead
    <3>4. CommandRead = c
      BY <3>3, <1>9
    <3>5. SizeRead = 2 + Len(c.bytes)
      BY <2>2, <3>4, <1>13 DEF SizeRead
    <3>6. QED
      BY <2>2, <3>4, <3>5, <1>10
  <2>3. CASE c.op \notin {"RenderPassEnd", "PushConstants"}
    <3>1. c.bytes = << >>
      BY <1>9, <1>16, <2>3
    <3>2. CommandRead = [op |-> c.op, args |-> c.args, bytes |-> << >>]
      BY <2>3, <1>13 DEF CommandRead
    <3>3. CommandRead = c
      BY <3>1, <3>2, <1>9
    <3>4. SizeRead = 2 + Len(c.bytes)
      BY <2>3, <3>3, <1>13 DEF SizeRead
    <3>5. QED
      BY <2>3, <3>3, <3>4, <1>10
  <2>4. QED
    BY <2>1, <2>2, <2>3
<1>17. QED
  BY <1>5, <1>6, <1>7, <1>8, <1>14, <1>15, <1>16 DEF c

(* A command changes entries of the state, and leaves no entry out.        *)
LEMMA ApplyKeepsEntries ==
  ASSUME NEW s, NEW c
  PROVE  DOMAIN Apply(s, c) = DOMAIN s
BY DEF Apply

-----------------------------------------------------------------------------
(* The invariant is inductive: it holds initially, and each action keeps   *)
(* it.                                                                     *)

(* Nothing is allocated at first. *)
LEMMA InitIndInv == Init => IndInv
<1>1. SUFFICES ASSUME Init PROVE IndInv
  OBVIOUS
<1>2. Live = {} /\ \A b \in CommandBuffers : log[b] = << >> /\ data_cursor[b] = 0 /\ read_cursor[b] = 0
  BY <1>1 DEF Init, Live
<1>3. DataSize \in Nat \ {0}
  BY BoundsAssumption
<1>4. TypeOK
  <2>1. 0 \in 0..(DataSize - 1) /\ 0 \in 0..0
    BY <1>3
  <2>2. << >> \in Seq([at : Nat, cmd : Commands]) /\ << >> \in Seq(CommandBuffers) /\ 0 \in Nat
    OBVIOUS
  <2>3. QED
    BY <1>1, <2>1, <2>2 DEF Init, TypeOK
<1>5. DataIsLog /\ FreedEmpty
  BY <1>2 DEF DataIsLog, FreedEmpty
<1>6. LogInOrder
  BY <1>2 DEF LogInOrder
<1>7. AtCommand /\ OthersRewound /\ SubmittedLive
  BY <1>1, <1>2 DEF Init, AtCommand, OthersRewound, SubmittedLive
<1>8. QED
  BY <1>4, <1>5, <1>6, <1>7 DEF IndInv

(* Between calls nothing is executing and every buffer is rewound. *)
LEMMA WhenIdle ==
  ASSUME IndInv, Idle
  PROVE  ~executing /\ submitted = << >> /\ \A b \in CommandBuffers : read_cursor[b] = 0
BY DEF IndInv, Idle, SubmittedLive, OthersRewound

(* A step in which nothing changes keeps the invariant. *)
LEMMA StutterIndInv ==
  ASSUME IndInv, UNCHANGED vars
  PROVE  IndInv'
<1>1. /\ data' = data /\ data_cursor' = data_cursor /\ read_cursor' = read_cursor /\ log' = log
      /\ submitted' = submitted /\ executing' = executing /\ gpu' = gpu /\ dead' = dead
  BY DEF vars
<1>2. DataIsLog' /\ LogInOrder' /\ FreedEmpty'
  BY <1>1, LogUntouched
<1>3. TypeOK'
  BY <1>1 DEF IndInv, TypeOK
<1>4. AtCommand'
  BY <1>1 DEF IndInv, AtCommand, Current, EndOf
<1>5. OthersRewound' /\ SubmittedLive'
  BY <1>1 DEF IndInv, OthersRewound, SubmittedLive, Current, Live
<1>6. QED
  BY <1>2, <1>3, <1>4, <1>5 DEF IndInv

(* vkCmd*: the command is written behind the last one, or does not fit. *)
LEMMA RecordIndInv ==
  ASSUME IndInv, NEW b \in CommandBuffers, NEW c \in Commands, vkCmd(b, c)
  PROVE  IndInv'
<1>1. Idle /\ UNCHANGED <<read_cursor, submitted, executing, gpu>>
  BY DEF vkCmd
<1>2. ~executing /\ submitted = << >> /\ \A a \in CommandBuffers : read_cursor[a] = 0
  BY <1>1, WhenIdle
<1>3. AtCommand' /\ OthersRewound' /\ SubmittedLive'
  BY <1>1, <1>2 DEF AtCommand, OthersRewound, SubmittedLive
<1>4. CASE Fits(b, c)
  <2>1. /\ DataIsLog' /\ LogInOrder' /\ FreedEmpty'
        /\ data' \in [CommandBuffers -> [0..(DataSize - 1) -> Cells] \cup {NoData}]
        /\ data_cursor' \in [CommandBuffers -> 0..(DataSize - 1)]
        /\ log' \in [CommandBuffers -> Seq(LogEntries)]
    BY <1>4, LogExtended
  <2>2. dead' = dead
    BY <1>4 DEF vkCmd
  <2>3. \A a \in CommandBuffers : read_cursor'[a] \in 0..data_cursor'[a]
    <3>1. TAKE a \in CommandBuffers
    <3>2. data_cursor'[a] \in 0..(DataSize - 1) /\ DataSize \in Nat
      BY <2>1, BoundsAssumption
    <3>3. QED
      BY <1>1, <1>2, <3>2
  <2>4. TypeOK'
    BY <1>1, <2>1, <2>2, <2>3 DEF IndInv, TypeOK, LogEntries
  <2>5. QED
    BY <1>3, <2>1, <2>4 DEF IndInv
<1>5. CASE ~Fits(b, c)
  <2>1. UNCHANGED <<data, data_cursor, log>> /\ dead' = TRUE
    BY <1>5 DEF vkCmd
  <2>2. DataIsLog' /\ LogInOrder' /\ FreedEmpty'
    BY <2>1, LogUntouched
  <2>3. TypeOK'
    BY <1>1, <2>1 DEF IndInv, TypeOK
  <2>4. QED
    BY <1>3, <2>2, <2>3 DEF IndInv
<1>6. QED
  BY <1>4, <1>5

(* Common to beginning, allocating and freeing a buffer. *)
LEMMA ResetIndInv ==
  ASSUME IndInv, NEW b \in CommandBuffers, Idle, Reset(b),
         data' \in [CommandBuffers -> [0..(DataSize - 1) -> Cells] \cup {NoData}],
         \A a \in CommandBuffers \ {b} : data'[a] = data[a],
         UNCHANGED <<submitted, executing, gpu, dead>>
  PROVE  IndInv'
<1>1. ~executing /\ submitted = << >> /\ \A a \in CommandBuffers : read_cursor[a] = 0
  BY WhenIdle
<1>2. DataIsLog' /\ LogInOrder' /\ FreedEmpty'
  BY LogReset
<1>3. \A a \in CommandBuffers : read_cursor'[a] = 0
  BY <1>1 DEF Reset, IndInv, TypeOK
<1>4. AtCommand' /\ OthersRewound' /\ SubmittedLive'
  BY <1>1, <1>3 DEF AtCommand, OthersRewound, SubmittedLive
<1>5. data_cursor' \in [CommandBuffers -> 0..(DataSize - 1)]
  <2>1. 0 \in 0..(DataSize - 1)
    BY BoundsAssumption
  <2>2. QED
    BY <2>1 DEF Reset, IndInv, TypeOK
<1>6. \A a \in CommandBuffers : read_cursor'[a] \in 0..data_cursor'[a]
  <2>1. TAKE a \in CommandBuffers
  <2>2. data_cursor'[a] \in 0..(DataSize - 1) /\ DataSize \in Nat
    BY <1>5, BoundsAssumption
  <2>3. QED
    BY <1>3, <2>2
<1>7. log' \in [CommandBuffers -> Seq([at : Nat, cmd : Commands])]
  <2>1. log \in [CommandBuffers -> Seq([at : Nat, cmd : Commands])]
    BY DEF IndInv, TypeOK
  <2>2. << >> \in Seq([at : Nat, cmd : Commands])
    OBVIOUS
  <2>3. QED
    BY <2>1, <2>2 DEF Reset
<1>8. read_cursor' \in [CommandBuffers -> Nat]
  <2>1. read_cursor' = [read_cursor EXCEPT ![b] = 0] /\ read_cursor \in [CommandBuffers -> Nat]
    BY DEF Reset, IndInv, TypeOK
  <2>2. QED
    BY <2>1
<1>9. TypeOK'
  BY <1>5, <1>6, <1>7, <1>8 DEF IndInv, TypeOK
<1>10. QED
  BY <1>2, <1>4, <1>9 DEF IndInv

(* vkBeginCommandBuffer: the memory stays, both cursors go back to 0. *)
LEMMA BeginIndInv ==
  ASSUME IndInv, NEW b \in CommandBuffers, vkBeginCommandBuffer(b)
  PROVE  IndInv'
<1>1. data' \in [CommandBuffers -> [0..(DataSize - 1) -> Cells] \cup {NoData}]
  BY DEF vkBeginCommandBuffer, IndInv, TypeOK
<1>2. QED
  BY <1>1, ResetIndInv DEF vkBeginCommandBuffer

(* vkAllocateCommandBuffers: memory nothing was recorded in yet. *)
LEMMA AllocateIndInv ==
  ASSUME IndInv, NEW b \in CommandBuffers, vkAllocateCommandBuffers(b)
  PROVE  IndInv'
<1> DEFINE fresh == [i \in 0..(DataSize - 1) |-> Unwritten]
<1>1. fresh \in [0..(DataSize - 1) -> Cells]
  BY DEF Cells
<1>2. data' = [data EXCEPT ![b] = fresh]
  BY DEF vkAllocateCommandBuffers
<1> HIDE DEF fresh
<1>3. /\ data' \in [CommandBuffers -> [0..(DataSize - 1) -> Cells] \cup {NoData}]
      /\ \A a \in CommandBuffers \ {b} : data'[a] = data[a]
  BY <1>1, <1>2 DEF IndInv, TypeOK
<1>4. QED
  BY <1>3, ResetIndInv DEF vkAllocateCommandBuffers

(* vkFreeCommandBuffers: the memory is given back. *)
LEMMA FreeIndInv ==
  ASSUME IndInv, NEW b \in CommandBuffers, vkFreeCommandBuffers(b)
  PROVE  IndInv'
<1>1. data' = [data EXCEPT ![b] = NoData]
  BY DEF vkFreeCommandBuffers
<1>2. /\ data' \in [CommandBuffers -> [0..(DataSize - 1) -> Cells] \cup {NoData}]
      /\ \A a \in CommandBuffers \ {b} : data'[a] = data[a]
  BY <1>1 DEF IndInv, TypeOK
<1>3. QED
  BY <1>2, ResetIndInv DEF vkFreeCommandBuffers

(* vkQueueSubmit: each buffer that is submitted has memory. *)
LEMMA SubmitIndInv ==
  ASSUME IndInv, vkQueueSubmit
  PROVE  IndInv'
<1>1. Idle /\ UNCHANGED <<data, data_cursor, read_cursor, log, executing, gpu, dead>>
  BY DEF vkQueueSubmit
<1>2. ~executing /\ \A a \in CommandBuffers : read_cursor[a] = 0
  BY <1>1, WhenIdle
<1>3. submitted' \in Seq(Live) /\ submitted' \in Seq(CommandBuffers)
  <2>1. PICK n \in 1..MaxSubmit : submitted' \in [1..n -> Live]
    BY DEF vkQueueSubmit
  <2>2. n \in Nat
    BY BoundsAssumption
  <2>3. Live \subseteq CommandBuffers
    BY DEF Live
  <2>4. QED
    BY <2>1, <2>2, <2>3
<1>4. DataIsLog' /\ LogInOrder' /\ FreedEmpty'
  BY <1>1, LogUntouched
<1>5. TypeOK'
  BY <1>1, <1>3 DEF IndInv, TypeOK
<1>6. Live' = Live
  BY <1>1 DEF Live
<1>7. AtCommand' /\ OthersRewound' /\ SubmittedLive'
  BY <1>1, <1>2, <1>3, <1>6 DEF AtCommand, OthersRewound, SubmittedLive
<1>8. QED
  BY <1>4, <1>5, <1>7 DEF IndInv

(* Before the first command of a buffer, the reader is at 0. *)
LEMMA StartIndInv ==
  ASSUME IndInv, Start
  PROVE  IndInv'
<1>1. /\ UNCHANGED <<data, data_cursor, read_cursor, log, submitted, dead>>
      /\ submitted # << >> /\ ~executing /\ executing' = TRUE /\ gpu' = FreshState
  BY DEF Start
<1>2. DataIsLog' /\ LogInOrder' /\ FreedEmpty'
  BY <1>1, LogUntouched
<1>3. TypeOK'
  BY <1>1 DEF IndInv, TypeOK
<1>4. \A a \in CommandBuffers : read_cursor[a] = 0
  BY <1>1 DEF IndInv, OthersRewound
<1>5. Current \in Live /\ Current \in CommandBuffers /\ Current' = Current
  <2>1. Current \in Live /\ Current' = Current
    BY <1>1 DEF IndInv, SubmittedLive, Current
  <2>2. QED
    BY <2>1 DEF Live
<1>6. AtCommand'
  <2>1. EndOf(Current, 0) = 0 /\ read_cursor[Current] = 0
    BY <1>4, <1>5 DEF IndInv, DataIsLog
  <2>2. 0 \in 0..Len(log[Current])
    BY <1>5, BufferTypes DEF IndInv
  <2>3. \E k \in 0..Len(log[Current]) : read_cursor[Current] = EndOf(Current, k)
    BY <2>1, <2>2
  <2>4. QED
    BY <1>1, <1>5, <2>3 DEF AtCommand, EndOf
<1>7. OthersRewound' /\ SubmittedLive'
  <2>1. Live' = Live
    BY <1>1 DEF Live
  <2>2. QED
    BY <1>1, <1>4, <2>1 DEF IndInv, OthersRewound, SubmittedLive
<1>8. QED
  BY <1>2, <1>3, <1>6, <1>7 DEF IndInv

(* A buffer that was executed is rewound, for the next submission. *)
LEMMA FinishIndInv ==
  ASSUME IndInv, Finish
  PROVE  IndInv'
<1>1. /\ UNCHANGED <<data, data_cursor, log, gpu, dead>>
      /\ submitted' = Tail(submitted) /\ executing /\ executing' = FALSE
      /\ read_cursor' = [read_cursor EXCEPT ![Current] = 0]
  BY DEF Finish
<1>2. DataIsLog' /\ LogInOrder' /\ FreedEmpty'
  BY <1>1, LogUntouched
<1>3. submitted \in Seq(Live) /\ submitted # << >> /\ Live \subseteq CommandBuffers
  BY <1>1 DEF IndInv, SubmittedLive, Live
<1>4. Tail(submitted) \in Seq(Live) /\ Tail(submitted) \in Seq(CommandBuffers)
  BY <1>3
<1>5. \A a \in CommandBuffers : read_cursor'[a] = 0
  <2>1. TAKE a \in CommandBuffers
  <2>2. a \in DOMAIN read_cursor
    BY DEF IndInv, TypeOK
  <2>3. a # Current => read_cursor[a] = 0
    BY DEF IndInv, OthersRewound
  <2>4. QED
    BY <1>1, <2>2, <2>3
<1>6. \A a \in CommandBuffers : read_cursor'[a] \in 0..data_cursor'[a]
  <2>1. TAKE a \in CommandBuffers
  <2>2. data_cursor'[a] \in Nat
    BY <1>1, BufferTypes DEF IndInv
  <2>3. QED
    BY <1>5, <2>2
<1>7. TypeOK'
  BY <1>1, <1>4, <1>6 DEF IndInv, TypeOK
<1>8. Live' = Live
  BY <1>1 DEF Live
<1>9. AtCommand' /\ OthersRewound' /\ SubmittedLive'
  BY <1>1, <1>4, <1>5, <1>8 DEF AtCommand, OthersRewound, SubmittedLive
<1>10. QED
  BY <1>2, <1>7, <1>9 DEF IndInv

(* A turn of the loop ends the program or executes the next command of the *)
(* log. UpdateBuffer, whose bytes are not read, ends the program.          *)
LEMMA ExecuteReads ==
  ASSUME IndInv, Execute, NEW k \in 0..Len(log[Current]), read_cursor[Current] = EndOf(Current, k)
  PROVE  LET c == log[Current][k + 1].cmd
         IN  /\ k + 1 \in 1..Len(log[Current])
             /\ \/ Aborts(gpu, c) /\ dead' = TRUE /\ UNCHANGED <<gpu, effect, read_cursor>>
                \/ /\ ~Aborts(gpu, c)
                   /\ gpu' = Apply(gpu, c)
                   /\ effect' = Effect(gpu', c)
                   /\ read_cursor' = [read_cursor EXCEPT ![Current] = EndOf(Current, k + 1)]
                   /\ dead' = dead
<1>1. /\ executing /\ has_items
      /\ IF /\ IsCommand
            /\ read_cursor[Current] + SizeRead <= data_cursor[Current]
            /\ ~Aborts(gpu, CommandRead)
           THEN /\ gpu' = Apply(gpu, CommandRead)
                /\ effect' = Effect(gpu', CommandRead)
                /\ read_cursor' = [read_cursor EXCEPT ![Current] = @ + SizeRead]
                /\ UNCHANGED dead
           ELSE dead' = TRUE /\ UNCHANGED <<gpu, effect, read_cursor>>
  BY DEF Execute
<1> DEFINE c == log[Current][k + 1].cmd
<1>2. /\ k + 1 \in 1..Len(log[Current])
      /\ log[Current][k + 1].at = read_cursor[Current]
      /\ IsCommand
      /\ CommandRead.op = c.op
      /\ c.op # "UpdateBuffer" =>
           CommandRead = c /\ read_cursor[Current] + SizeRead = EndOf(Current, k + 1)
  BY <1>1, ReadsCommand
<1>3. CASE c.op = "UpdateBuffer"
  <2>1. Aborts(gpu, CommandRead) /\ Aborts(gpu, c)
    BY <1>2, <1>3 DEF Aborts, NotExecuted
  <2>2. QED
    BY <1>1, <1>2, <2>1
<1>4. CASE c.op # "UpdateBuffer"
  <2>1. CommandRead = c /\ read_cursor[Current] + SizeRead = EndOf(Current, k + 1)
    BY <1>2, <1>4
  <2>2. EndOf(Current, k + 1) <= data_cursor[Current]
    <3>1. Current \in Live
      BY <1>1 DEF IndInv, SubmittedLive, Current
    <3>2. k + 1 \in 0..Len(log[Current])
      BY <1>2
    <3>3. QED
      BY <3>1, <3>2, EndsInBuffer
  <2>3. CASE Aborts(gpu, c)
    BY <1>1, <1>2, <2>1, <2>3
  <2>4. CASE ~Aborts(gpu, c)
    <3>1. /\ gpu' = Apply(gpu, c) /\ effect' = Effect(gpu', c)
          /\ read_cursor' = [read_cursor EXCEPT ![Current] = EndOf(Current, k + 1)]
          /\ dead' = dead
      BY <1>1, <1>2, <2>1, <2>2, <2>4
    <3>2. QED
      BY <1>2, <2>4, <3>1
  <2>5. QED
    BY <2>3, <2>4
<1>5. QED
  BY <1>3, <1>4

(* The reader takes one whole command of its buffer. *)
LEMMA ExecuteIndInv ==
  ASSUME IndInv, Execute
  PROVE  IndInv'
<1>1. executing /\ UNCHANGED <<data, data_cursor, log, submitted, executing>>
  BY DEF Execute
<1>2. PICK k \in 0..Len(log[Current]) : read_cursor[Current] = EndOf(Current, k)
  BY <1>1 DEF IndInv, AtCommand
<1>3. CASE dead' = TRUE /\ UNCHANGED <<gpu, effect, read_cursor>>
  <2>1. DataIsLog' /\ LogInOrder' /\ FreedEmpty'
    BY <1>1, LogUntouched
  <2>2. TypeOK'
    BY <1>1, <1>3 DEF IndInv, TypeOK
  <2>3. AtCommand'
    BY <1>1, <1>3 DEF IndInv, AtCommand, Current, EndOf
  <2>4. OthersRewound' /\ SubmittedLive'
    BY <1>1, <1>3 DEF IndInv, OthersRewound, SubmittedLive, Current, Live
  <2>5. QED
    BY <2>1, <2>2, <2>3, <2>4 DEF IndInv
<1>4. CASE /\ k + 1 \in 1..Len(log[Current])
           /\ gpu' = Apply(gpu, log[Current][k + 1].cmd)
           /\ read_cursor' = [read_cursor EXCEPT ![Current] = EndOf(Current, k + 1)]
           /\ dead' = dead
  <2>1. k + 1 \in 1..Len(log[Current])
    BY <1>4
  <2>2. DataIsLog' /\ LogInOrder' /\ FreedEmpty'
    BY <1>1, LogUntouched
  <2>3. Current \in Live /\ Current \in CommandBuffers /\ Current' = Current
    <3>1. Current \in Live /\ Current' = Current
      BY <1>1 DEF IndInv, SubmittedLive, Current
    <3>2. QED
      BY <3>1 DEF Live
  <2>4. k + 1 \in 0..Len(log[Current])
    BY <2>1
  <2>5. EndOf(Current, k + 1) \in Nat /\ EndOf(Current, k + 1) <= data_cursor[Current]
    BY <2>3, <2>4, EndsInBuffer
  <2>6. data_cursor[Current] \in Nat
    BY <2>3, BufferTypes DEF IndInv
  <2>7. read_cursor' [Current] = EndOf(Current, k + 1)
    BY <1>4, <2>3 DEF IndInv, TypeOK
  <2>8. \A a \in CommandBuffers : a # Current => read_cursor'[a] = read_cursor[a]
    BY <1>4 DEF IndInv, TypeOK
  <2>9. \A a \in CommandBuffers : read_cursor'[a] \in 0..data_cursor'[a]
    <3>1. EndOf(Current, k + 1) \in 0..data_cursor[Current]
      BY <2>5, <2>6
    <3>2. QED
      BY <1>1, <2>7, <2>8, <3>1 DEF IndInv, TypeOK
  <2>10. DOMAIN gpu' = DOMAIN FreshState
    BY <1>4, ApplyKeepsEntries DEF IndInv, TypeOK
  <2>11. TypeOK'
    <3>1. read_cursor' \in [CommandBuffers -> Nat]
      BY <1>4, <2>5 DEF IndInv, TypeOK
    <3>2. QED
      BY <1>1, <1>4, <2>9, <2>10, <3>1 DEF IndInv, TypeOK
  <2>12. AtCommand'
    <3>1. \E j \in 0..Len(log[Current]) : read_cursor'[Current] = EndOf(Current, j)
      BY <2>4, <2>7
    <3>2. QED
      BY <1>1, <2>3, <3>1 DEF AtCommand, EndOf
  <2>13. OthersRewound' /\ SubmittedLive'
    <3>1. Live' = Live
      BY <1>1 DEF Live
    <3>2. QED
      BY <1>1, <2>3, <2>8, <3>1 DEF IndInv, OthersRewound, SubmittedLive
  <2>14. QED
    BY <2>2, <2>11, <2>12, <2>13 DEF IndInv
<1>5. QED
  BY <1>2, <1>3, <1>4, ExecuteReads

(* No step breaks the invariant. *)
LEMMA NextIndInv == IndInv /\ [Next]_vars => IndInv'
<1>1. SUFFICES ASSUME IndInv, [Next]_vars PROVE IndInv'
  OBVIOUS
<1>2. ASSUME NEW b \in CommandBuffers, NEW c \in Commands, vkCmd(b, c) PROVE IndInv'
  BY <1>1, <1>2, RecordIndInv
<1>3. ASSUME NEW b \in CommandBuffers, vkBeginCommandBuffer(b) PROVE IndInv'
  BY <1>1, <1>3, BeginIndInv
<1>4. ASSUME NEW b \in CommandBuffers, vkAllocateCommandBuffers(b) PROVE IndInv'
  BY <1>1, <1>4, AllocateIndInv
<1>5. ASSUME NEW b \in CommandBuffers, vkFreeCommandBuffers(b) PROVE IndInv'
  BY <1>1, <1>5, FreeIndInv
<1>6. CASE vkQueueSubmit
  BY <1>1, <1>6, SubmitIndInv
<1>7. CASE Start
  BY <1>1, <1>7, StartIndInv
<1>8. CASE Execute
  BY <1>1, <1>8, ExecuteIndInv
<1>9. CASE Finish
  BY <1>1, <1>9, FinishIndInv
<1>10. CASE UNCHANGED vars
  BY <1>1, <1>10, StutterIndInv
<1>11. QED
  BY <1>1, <1>2, <1>3, <1>4, <1>5, <1>6, <1>7, <1>8, <1>9, <1>10 DEF Next

-----------------------------------------------------------------------------
(* What holds of every run.                                                *)

(* So it holds throughout. *)
LEMMA InvariantHolds == Spec => []IndInv
BY InitIndInv, NextIndInv, PTL DEF Spec

(* The cursors stay in the memory of their buffer, the reader never passes *)
(* the writer, and the memory only holds what was recorded.                *)
THEOREM TypeCorrect == Spec => []TypeOK
<1>1. IndInv => TypeOK
  BY DEF IndInv
<1>2. QED
  BY <1>1, InvariantHolds, PTL

(* Whatever was in a buffer's memory, up to its cursor it holds the        *)
(* commands recorded since it was begun.                                   *)
THEOREM MemoryHoldsLog == Spec => []DataIsLog
<1>1. IndInv => DataIsLog
  BY DEF IndInv
<1>2. QED
  BY <1>1, InvariantHolds, PTL

(* Between calls every reader is back at the start: a buffer that was      *)
(* executed executes in full again.                                        *)
THEOREM BuffersRewound == Spec => []RewoundWhenIdle
<1>1. IndInv => RewoundWhenIdle
  BY WhenIdle DEF RewoundWhenIdle
<1>2. QED
  BY <1>1, InvariantHolds, PTL

-----------------------------------------------------------------------------
(***************************************************************************)
(* A draw uses what was bound in its own command buffer. The invariant     *)
(* follows the state from the start of a buffer on: every entry is null or *)
(* was put there by a command of this buffer that was executed, and a      *)
(* framebuffer comes with a render pass. That a draw which meets a null    *)
(* pointer ends the program does the rest.                                 *)
(***************************************************************************)

(* The structures that the reader has passed, by key. *)
ArgsRead == [op \in Keys |-> ExecutedBefore(op)]

OwnPipeline(s, R) ==
  s.graphics_pipeline = Null \/ \E a \in R["BindPipeline"] : s.graphics_pipeline = a.pipeline

OwnIndices(s, R) == s.index_buffer = Null \/ s.index_buffer \in R["BindIndexBuffer"]

OwnFramebuffer(s, R) ==
  s.render_pass = Null \/ \E a \in R["RenderPassBegin"] : s.framebuffer = a.framebuffer

OwnDescriptors(s, R) ==
  \A i \in DOMAIN s.descriptor_sets :
    \/ s.descriptor_sets[i] = Null
    \/ \E a \in R["BindDescriptorSets"] :
         s.descriptor_sets[i] = a.pDescriptorSets[i - a.firstSet + 1]

OwnBindings(s, R) ==
  OwnPipeline(s, R) /\ OwnIndices(s, R) /\ OwnFramebuffer(s, R) /\ OwnDescriptors(s, R)

BindingInv ==
  /\ IndInv
  /\ executing => OwnBindings(gpu, ArgsRead)
  /\ DrawsUseOwnBindings

-----------------------------------------------------------------------------
(* What commands do to the state.                                          *)

Entries == {"graphics_pipeline", "compute_pipeline", "render_pass", "framebuffer", "render_area",
            "descriptor_sets", "index_buffer", "vertex_buffers", "viewports", "push_constants"}

(* A fresh state has nothing bound, so that nothing in it is another's. *)
LEMMA FreshIsOwn ==
  ASSUME NEW R
  PROVE  OwnBindings(FreshState, R) /\ DOMAIN FreshState = Entries
BY DEF FreshState, OwnBindings, OwnPipeline, OwnIndices, OwnFramebuffer, OwnDescriptors, Entries

(* A command that is executed puts nothing but its own arguments in the    *)
(* state.                                                                  *)
LEMMA ApplyIsOwn ==
  ASSUME NEW s, NEW c, NEW R, NEW Q, DOMAIN s = Entries, c.op \in Executed, ~Aborts(s, c),
         OwnBindings(s, R), \A op \in Keys : R[op] \subseteq Q[op], c.args \in Q[c.op]
  PROVE  OwnBindings(Apply(s, c), Q)
<1> DEFINE t == Apply(s, c)
<1>1. /\ R["BindPipeline"] \subseteq Q["BindPipeline"]
      /\ R["BindIndexBuffer"] \subseteq Q["BindIndexBuffer"]
      /\ R["RenderPassBegin"] \subseteq Q["RenderPassBegin"]
      /\ R["BindDescriptorSets"] \subseteq Q["BindDescriptorSets"]
  BY DEF Keys, Executed
<1>2. OwnBindings(s, Q)
  BY <1>1 DEF OwnBindings, OwnPipeline, OwnIndices, OwnFramebuffer, OwnDescriptors
<1>3. OwnPipeline(t, Q)
  <2>1. CASE c.op = "BindPipeline" /\ c.args.pipelineBindPoint = "GRAPHICS"
    <3>1. t.graphics_pipeline = c.args.pipeline
      BY <2>1 DEF Apply, Entries
    <3>2. QED
      BY <2>1, <3>1 DEF OwnPipeline
  <2>2. CASE ~(c.op = "BindPipeline" /\ c.args.pipelineBindPoint = "GRAPHICS")
    <3>1. t.graphics_pipeline = s.graphics_pipeline
      BY <2>2 DEF Apply, Entries
    <3>2. QED
      BY <1>2, <3>1 DEF OwnBindings, OwnPipeline
  <2>3. QED
    BY <2>1, <2>2
<1>4. OwnIndices(t, Q)
  <2>1. CASE c.op = "BindIndexBuffer"
    <3>1. t.index_buffer = c.args
      BY <2>1 DEF Apply, Entries
    <3>2. QED
      BY <2>1, <3>1 DEF OwnIndices
  <2>2. CASE c.op # "BindIndexBuffer"
    <3>1. t.index_buffer = s.index_buffer
      BY <2>2 DEF Apply, Entries
    <3>2. QED
      BY <1>2, <3>1 DEF OwnBindings, OwnIndices
  <2>3. QED
    BY <2>1, <2>2
<1>5. OwnFramebuffer(t, Q)
  <2>1. CASE c.op = "RenderPassBegin"
    <3>1. t.framebuffer = c.args.framebuffer
      BY <2>1 DEF Apply, Entries
    <3>2. QED
      BY <2>1, <3>1 DEF OwnFramebuffer
  <2>2. CASE c.op = "RenderPassEnd"
    <3>1. t.render_pass = Null
      BY <2>2 DEF Apply, Entries
    <3>2. QED
      BY <3>1 DEF OwnFramebuffer
  <2>3. CASE c.op \notin {"RenderPassBegin", "RenderPassEnd"}
    <3>1. t.render_pass = s.render_pass /\ t.framebuffer = s.framebuffer
      BY <2>3 DEF Apply, Entries
    <3>2. QED
      BY <1>2, <3>1 DEF OwnBindings, OwnFramebuffer
  <2>4. QED
    BY <2>1, <2>2, <2>3
<1>6. OwnDescriptors(t, Q)
  <2>1. CASE c.op = "BindDescriptorSets"
    <3> DEFINE bound == Bound(s.descriptor_sets, c.args.firstSet, c.args.pDescriptorSets)
    <3>1. t.descriptor_sets = bound
      BY <2>1 DEF Apply, Entries
    <3>2. \A i \in DOMAIN bound : /\ i \in DOMAIN s.descriptor_sets
                                  /\ \/ bound[i] = s.descriptor_sets[i]
                                     \/ bound[i] = c.args.pDescriptorSets[i - c.args.firstSet + 1]
      BY DEF Bound
    <3> HIDE DEF bound
    <3>3. QED
      BY <1>2, <2>1, <3>1, <3>2 DEF OwnBindings, OwnDescriptors
  <2>2. CASE c.op # "BindDescriptorSets"
    <3>1. t.descriptor_sets = s.descriptor_sets
      BY <2>2 DEF Apply, Entries
    <3>2. QED
      BY <1>2, <3>1 DEF OwnBindings, OwnDescriptors
  <2>3. QED
    BY <2>1, <2>2
<1>7. QED
  BY <1>3, <1>4, <1>5, <1>6 DEF OwnBindings

-----------------------------------------------------------------------------
(* The invariant.                                                          *)

(* Passing a command adds it to those that were executed.                  *)
LEMMA ReaderAdds ==
  ASSUME IndInv, Execute, NEW k \in 0..Len(log[Current]), read_cursor[Current] = EndOf(Current, k),
         k + 1 \in 1..Len(log[Current]),
         read_cursor' = [read_cursor EXCEPT ![Current] = EndOf(Current, k + 1)]
  PROVE  LET c == log[Current][k + 1].cmd
         IN  /\ \A op \in Keys : ArgsRead[op] \subseteq ArgsRead'[op]
             /\ c.op \in Keys /\ c.args \in ArgsRead'[c.op]
<1> DEFINE b == Current
           c == log[b][k + 1].cmd
<1>1. executing /\ Current' = Current /\ log' = log
  BY DEF Execute, Current
<1>2. b \in Live /\ b \in CommandBuffers
  BY <1>1 DEF IndInv, SubmittedLive, Current, Live
<1>3. log[b] \in Seq(LogEntries)
  BY <1>2, BufferTypes DEF IndInv
<1>4. \A j \in 1..Len(log[b]) : log[b][j].at \in Nat /\ log[b][j].cmd \in Commands
  <2>1. \A j \in 1..Len(log[b]) : log[b][j] \in LogEntries
    BY <1>3
  <2>2. QED
    BY <2>1 DEF LogEntries
<1>5. c \in Commands /\ c.op \in Keys
  BY <1>4, CommandsAssumption
<1>6. log[b][k + 1].at = EndOf(b, k)
  <2>1. Len(log[b]) \in Nat /\ k # Len(log[b])
    BY <1>3
  <2>2. QED
    BY <2>1 DEF EndOf
<1>7. EndOf(b, k) < EndOf(b, k + 1) /\ EndOf(b, k) \in Nat /\ EndOf(b, k + 1) \in Nat
  <2>1. EndOf(b, k) \in Nat /\ EndOf(b, k + 1) \in Nat
    <3>1. k + 1 \in 0..Len(log[b])
      OBVIOUS
    <3>2. QED
      BY <1>2, <3>1, EndsInBuffer
  <2>2. EndOf(b, k + 1) = log[b][k + 1].at + Len(Encoding(c))
    BY <1>2 DEF IndInv, DataIsLog
  <2>3. Len(Encoding(c)) \in Nat \ {0}
    <3>1. c.bytes \in Seq(Bytes)
      BY <1>5, CommandsAssumption
    <3>2. Len(c.bytes) \in Nat
      BY <3>1
    <3>3. QED
      BY <1>5, <3>2, EncodingShape
  <2>4. QED
    BY <1>6, <2>1, <2>2, <2>3
<1>8. read_cursor'[b] = EndOf(b, k + 1)
  BY <1>2 DEF IndInv, TypeOK
<1>9. \A op : ExecutedBefore(op)' =
        {log[b][j].cmd.args : j \in {i \in 1..Len(log[b]) : log[b][i].at < EndOf(b, k + 1)
                                                              /\ log[b][i].cmd.op = op}}
  BY <1>1, <1>8 DEF ExecutedBefore
<1>10. \A op : ExecutedBefore(op) =
        {log[b][j].cmd.args : j \in {i \in 1..Len(log[b]) : log[b][i].at < EndOf(b, k)
                                                              /\ log[b][i].cmd.op = op}}
  BY DEF ExecutedBefore
<1>11. \A op : ExecutedBefore(op) \subseteq ExecutedBefore(op)'
  <2>1. \A i \in 1..Len(log[b]) : log[b][i].at < EndOf(b, k) => log[b][i].at < EndOf(b, k + 1)
    BY <1>4, <1>7
  <2>2. QED
    BY <1>9, <1>10, <2>1
<1>12. \A op : op = c.op => c.args \in ExecutedBefore(op)'
  BY <1>6, <1>7, <1>9
<1>13. \A op \in Keys : ArgsRead[op] = ExecutedBefore(op) /\ ArgsRead'[op] = ExecutedBefore(op)'
  BY DEF ArgsRead
<1>14. QED
  BY <1>5, <1>11, <1>12, <1>13

(* A draw that is executed finds a pipeline, indices and a render pass.    *)
LEMMA DrawIsOwn ==
  ASSUME NEW s, NEW c, NEW R, c.op = "DrawIndexed", ~Aborts(s, c), OwnBindings(s, R)
  PROVE  /\ \E a \in R["BindPipeline"] : s.graphics_pipeline = a.pipeline
         /\ s.index_buffer \in R["BindIndexBuffer"]
         /\ \E a \in R["RenderPassBegin"] : s.framebuffer = a.framebuffer
         /\ OwnDescriptors(s, R)
BY DEF Aborts, OwnBindings, OwnPipeline, OwnIndices, OwnFramebuffer

(* A turn of the loop keeps the bindings the buffer's own. *)
LEMMA ExecuteBinds ==
  ASSUME BindingInv, Execute, IndInv'
  PROVE  BindingInv'
<1>1. executing /\ UNCHANGED <<data, data_cursor, log, submitted, executing>>
  BY DEF Execute
<1>2. PICK k \in 0..Len(log[Current]) : read_cursor[Current] = EndOf(Current, k)
  BY <1>1 DEF BindingInv, IndInv, AtCommand
<1> DEFINE c == log[Current][k + 1].cmd
<1>3. CASE UNCHANGED <<gpu, effect, read_cursor>>
  <2>1. \A op : ExecutedBefore(op)' = ExecutedBefore(op)
    BY <1>1, <1>3 DEF ExecutedBefore, Current
  <2>2. ArgsRead' = ArgsRead
    BY <2>1 DEF ArgsRead
  <2>3. DrawsUseOwnBindings'
    BY <1>3, <2>1 DEF BindingInv, DrawsUseOwnBindings
  <2>4. QED
    BY <1>1, <1>3, <2>2, <2>3 DEF BindingInv
<1>4. CASE /\ k + 1 \in 1..Len(log[Current])
           /\ ~Aborts(gpu, c)
           /\ gpu' = Apply(gpu, c)
           /\ effect' = Effect(gpu', c)
           /\ read_cursor' = [read_cursor EXCEPT ![Current] = EndOf(Current, k + 1)]
  <2>1. /\ \A op \in Keys : ArgsRead[op] \subseteq ArgsRead'[op]
        /\ c.op \in Keys /\ c.args \in ArgsRead'[c.op]
    BY <1>2, <1>4, ReaderAdds DEF BindingInv
  <2>2. c.op \in Executed
    BY <1>4, <2>1 DEF Aborts, Keys
  <2>3. DOMAIN gpu = Entries
    BY FreshIsOwn DEF BindingInv, IndInv, TypeOK
  <2>4. OwnBindings(gpu', ArgsRead')
    BY <1>1, <1>4, <2>1, <2>2, <2>3, ApplyIsOwn DEF BindingInv
  <2>5. DrawsUseOwnBindings'
    <3>1. CASE c.op = "DrawIndexed"
      <4>1. gpu' = gpu
        BY <1>4, <3>1 DEF Apply
      <4>2. ~Aborts(gpu', c)
        BY <1>4, <4>1
      <4>3. effect' = <<c, gpu'>>
        BY <1>4, <3>1 DEF Effect
      <4>4. /\ \E a \in ArgsRead'["BindPipeline"] : gpu'.graphics_pipeline = a.pipeline
            /\ gpu'.index_buffer \in ArgsRead'["BindIndexBuffer"]
            /\ \E a \in ArgsRead'["RenderPassBegin"] : gpu'.framebuffer = a.framebuffer
            /\ OwnDescriptors(gpu', ArgsRead')
        BY <2>4, <3>1, <4>2, DrawIsOwn
      <4>5. /\ ArgsRead'["BindPipeline"] = ExecutedBefore("BindPipeline")'
            /\ ArgsRead'["BindIndexBuffer"] = ExecutedBefore("BindIndexBuffer")'
            /\ ArgsRead'["RenderPassBegin"] = ExecutedBefore("RenderPassBegin")'
            /\ ArgsRead'["BindDescriptorSets"] = ExecutedBefore("BindDescriptorSets")'
        BY DEF ArgsRead, Keys, Executed
      <4>6. effect'[2] = gpu'
        BY <4>3
      <4>7. QED
        BY <4>4, <4>5, <4>6 DEF DrawsUseOwnBindings, OwnDescriptors
    <3>2. CASE c.op # "DrawIndexed"
      <4>1. effect' = NoEffect \/ effect' = <<c, gpu'>>
        BY <1>4 DEF Effect
      <4>2. effect' # NoEffect => effect'[1].op # "DrawIndexed"
        BY <3>2, <4>1
      <4>3. QED
        BY <4>2 DEF DrawsUseOwnBindings
    <3>3. QED
      BY <3>1, <3>2
  <2>6. QED
    BY <2>4, <2>5 DEF BindingInv
<1>5. QED
  BY <1>2, <1>3, <1>4, ExecuteReads DEF BindingInv

(* No step brings another buffer's bindings into the GPU state. *)
LEMMA NextBindingInv == BindingInv /\ [Next]_vars => BindingInv'
<1>1. SUFFICES ASSUME BindingInv, [Next]_vars PROVE BindingInv'
  OBVIOUS
<1>2. IndInv'
  BY <1>1, NextIndInv DEF BindingInv
<1>3. ASSUME effect' = NoEffect, executing' => OwnBindings(gpu, ArgsRead)'
      PROVE  BindingInv'
  BY <1>2, <1>3 DEF BindingInv, DrawsUseOwnBindings
<1>4. ASSUME Idle, effect' = NoEffect, executing' = executing
      PROVE  BindingInv'
  <2>1. ~executing
    BY <1>1, <1>4, WhenIdle DEF BindingInv
  <2>2. QED
    BY <1>3, <1>4, <2>1
<1>5. ASSUME NEW b \in CommandBuffers, NEW c \in Commands, vkCmd(b, c) PROVE BindingInv'
  BY <1>4, <1>5 DEF vkCmd
<1>6. ASSUME NEW b \in CommandBuffers, vkBeginCommandBuffer(b) PROVE BindingInv'
  BY <1>4, <1>6 DEF vkBeginCommandBuffer
<1>7. ASSUME NEW b \in CommandBuffers, vkAllocateCommandBuffers(b) PROVE BindingInv'
  BY <1>4, <1>7 DEF vkAllocateCommandBuffers
<1>8. ASSUME NEW b \in CommandBuffers, vkFreeCommandBuffers(b) PROVE BindingInv'
  BY <1>4, <1>8 DEF vkFreeCommandBuffers
<1>9. CASE vkQueueSubmit
  BY <1>4, <1>9 DEF vkQueueSubmit
<1>10. CASE Start
  <2>1. OwnBindings(gpu, ArgsRead)'
    BY <1>10, FreshIsOwn DEF Start
  <2>2. QED
    BY <1>3, <1>10, <2>1 DEF Start
<1>11. CASE Execute
  BY <1>1, <1>2, <1>11, ExecuteBinds
<1>12. CASE Finish
  BY <1>3, <1>12 DEF Finish
<1>13. CASE UNCHANGED vars
  <2>1. \A op : ExecutedBefore(op)' = ExecutedBefore(op)
    BY <1>13 DEF vars, ExecutedBefore, Current
  <2>2. ArgsRead' = ArgsRead
    BY <2>1 DEF ArgsRead
  <2>3. QED
    BY <1>1, <1>2, <1>13, <2>1, <2>2 DEF vars, BindingInv, DrawsUseOwnBindings
<1>14. QED
  BY <1>1, <1>5, <1>6, <1>7, <1>8, <1>9, <1>10, <1>11, <1>12, <1>13 DEF Next

-----------------------------------------------------------------------------

(* A draw uses a pipeline, an index buffer, a framebuffer and descriptor   *)
(* sets that commands of its own buffer bound before it: submitting one    *)
(* buffer after another, or one twice, leaves nothing behind.              *)
THEOREM DrawsAreOwn == Spec => []DrawsUseOwnBindings
<1>1. Init => BindingInv
  BY InitIndInv DEF Init, BindingInv, DrawsUseOwnBindings
<1>2. BindingInv => DrawsUseOwnBindings
  BY DEF BindingInv
<1>3. QED
  BY <1>1, <1>2, NextBindingInv, PTL DEF Spec

-----------------------------------------------------------------------------
(* CommandQueue: every step of CommandBuffer is one of its steps or none   *)
(* of its variables changes. The invariant says where the reader stands,   *)
(* and with it how many commands are done.                                 *)

RecordedAll == [b \in CommandBuffers |-> Recorded(b)]

(* What is recorded in a buffer is a sequence of commands. *)
LEMMA RecordedCommands ==
  ASSUME IndInv, NEW b \in CommandBuffers
  PROVE  /\ Recorded(b) \in Seq(Commands)
         /\ Len(Recorded(b)) = Len(log[b])
         /\ \A k \in 1..Len(log[b]) : Recorded(b)[k] = log[b][k].cmd
<1>1. log[b] \in Seq(LogEntries) /\ Len(log[b]) \in Nat
  BY BufferTypes DEF IndInv
<1>2. \A k \in 1..Len(log[b]) : log[b][k].cmd \in Commands
  <2>1. \A k \in 1..Len(log[b]) : log[b][k] \in LogEntries
    BY <1>1
  <2>2. QED
    BY <2>1 DEF LogEntries
<1>3. QED
  BY <1>1, <1>2 DEF Recorded

(* Nothing that leaves the log alone changes what is recorded. *)
LEMMA SameLogRecorded ==
  ASSUME UNCHANGED log
  PROVE  UNCHANGED RecordedAll
BY DEF RecordedAll, Recorded

(* The commands that lie below the end of the k-th are the first k. *)
LEMMA DoneBelowEnd ==
  ASSUME IndInv, executing, NEW k \in 0..Len(log[Current]), read_cursor[Current] = EndOf(Current, k)
  PROVE  Done = k
<1> DEFINE b == Current
           below == {j \in 1..Len(log[b]) : log[b][j].at < read_cursor[b]}
<1>1. b \in Live /\ b \in CommandBuffers
  <2>1. b \in Live
    BY DEF IndInv, SubmittedLive, Current
  <2>2. QED
    BY <2>1 DEF Live
<1>2. Len(log[b]) \in Nat /\ log[b] \in Seq(LogEntries)
  BY <1>1, BufferTypes DEF IndInv
<1>3. \A j \in 1..Len(log[b]) : log[b][j].at \in Nat
  <2>1. \A j \in 1..Len(log[b]) : log[b][j] \in LogEntries
    BY <1>2
  <2>2. QED
    BY <2>1 DEF LogEntries
<1>4. \A j \in 1..Len(log[b]) : log[b][j].at < read_cursor[b] <=> j <= k
  <2>1. SUFFICES ASSUME NEW j \in 1..Len(log[b])
                 PROVE  log[b][j].at < read_cursor[b] <=> j <= k
    OBVIOUS
  <2>2. /\ log[b][j].at < data_cursor[b]
        /\ \A i \in 1..(j - 1) : log[b][i].at < log[b][j].at
    BY <1>1 DEF IndInv, LogInOrder
  <2>3. CASE k = Len(log[b])
    <3>1. read_cursor[b] = data_cursor[b]
      BY <2>3 DEF EndOf
    <3>2. j <= k
      BY <1>2, <2>3
    <3>3. QED
      BY <2>2, <3>1, <3>2
  <2>4. CASE k # Len(log[b])
    <3>1. read_cursor[b] = log[b][k + 1].at /\ k + 1 \in 1..Len(log[b])
      BY <1>2, <2>4 DEF EndOf
    <3>2. \A i \in 1..k : log[b][i].at < log[b][k + 1].at
      <4>1. \A i \in 1..((k + 1) - 1) : log[b][i].at < log[b][k + 1].at
        BY <1>1, <3>1 DEF IndInv, LogInOrder
      <4>2. QED
        BY <4>1
    <3>3. CASE j <= k
      BY <1>2, <3>1, <3>2, <3>3
    <3>4. CASE j = k + 1
      <4>1. ~(log[b][j].at < read_cursor[b]) /\ ~(j <= k)
        BY <1>3, <3>1, <3>4
      <4>2. QED
        BY <4>1
    <3>5. CASE j > k + 1
      <4>1. k + 1 \in 1..(j - 1)
        BY <3>1, <3>5
      <4>2. read_cursor[b] < log[b][j].at
        BY <2>2, <3>1, <4>1
      <4>3. ~(log[b][j].at < read_cursor[b])
        BY <1>3, <3>1, <4>2
      <4>4. QED
        BY <3>5, <4>3
    <3>6. QED
      BY <3>3, <3>4, <3>5
  <2>5. QED
    BY <2>3, <2>4
<1>5. below = 1..k
  BY <1>2, <1>4
<1>6. Cardinality(1..k) = k
  BY FS_Interval
<1>7. QED
  BY <1>5, <1>6 DEF Done

(* That holds in every state, and so in the next. *)
DoneIsReader ==
  IndInv /\ executing =>
    \A k \in 0..Len(log[Current]) : read_cursor[Current] = EndOf(Current, k) => Done = k

(* How many commands are done is where the reader stands ... *)
LEMMA DoneFollowsReader == DoneIsReader
BY DoneBelowEnd DEF DoneIsReader

(* ... and so it is in the next state. *)
LEMMA DoneFollowsReaderNext == DoneIsReader'
BY DoneFollowsReader, PTL

(* While nothing executes, none is done. *)
LEMMA DoneWhenIdle == ~executing => Done = -1
BY DEF Done

-----------------------------------------------------------------------------
(* The initial states, and each action.                                    *)

(* CommandQueue has the commands of GpuState under a name of its own. *)
LEMMA QueueSameCommands ==
  /\ Queue!FreshState = FreshState
  /\ Queue!NoEffect = NoEffect
  /\ \A s, c : Queue!Aborts(s, c) <=> Aborts(s, c)
  /\ \A s, c : Queue!Apply(s, c) = Apply(s, c)
  /\ \A s, c : Queue!Effect(s, c) = Effect(s, c)
<1>1. Queue!FreshState = FreshState
  BY DEF Queue!FreshState, FreshState
<1>2. Queue!NoEffect = NoEffect
  BY DEF Queue!NoEffect, NoEffect
<1>3. \A s, c : Queue!Aborts(s, c) <=> Aborts(s, c)
  BY DEF Queue!Aborts, Aborts, Queue!NotExecuted, NotExecuted
<1>4. \A s, c : Queue!Apply(s, c) = Apply(s, c)
  <2>1. \A t, first, items : Queue!Bound(t, first, items) = Bound(t, first, items)
    BY DEF Queue!Bound, Bound
  <2>2. QED
    BY <2>1 DEF Queue!Apply, Apply
<1>5. \A s, c : Queue!Effect(s, c) = Effect(s, c)
  BY <1>2 DEF Queue!Effect, Effect
<1>6. QED
  BY <1>1, <1>2, <1>3, <1>4, <1>5

(* The queue is empty at first. *)
LEMMA InitMaps == Init => Queue!QueueInit
<1>1. SUFFICES ASSUME Init PROVE Queue!QueueInit
  OBVIOUS
<1>2. [b \in CommandBuffers |-> Recorded(b)] = [b \in CommandBuffers |-> << >>]
  <2>1. \A b \in CommandBuffers : log[b] = << >>
    BY <1>1 DEF Init
  <2>2. \A b \in CommandBuffers : Recorded(b) = << >>
    BY <2>1 DEF Recorded
  <2>3. QED
    BY <2>2
<1>3. Done = -1
  BY <1>1, DoneWhenIdle DEF Init
<1>4. Queue!FreshState = FreshState /\ Queue!NoEffect = NoEffect
  BY QueueSameCommands
<1>5. QED
  BY <1>1, <1>2, <1>3, <1>4 DEF Init, Queue!QueueInit, Queue!NotStarted

(* A recorded command is appended to what was recorded. *)
LEMMA RecordMaps ==
  ASSUME IndInv, IndInv', NEW b \in CommandBuffers, NEW c \in Commands, vkCmd(b, c)
  PROVE  Queue!Record(b, c)
<1>1. Idle /\ effect' = NoEffect /\ UNCHANGED <<read_cursor, submitted, executing, gpu>>
  BY DEF vkCmd
<1>2. ~dead /\ submitted = << >> /\ UNCHANGED Done
  <2>1. ~executing /\ ~executing'
    BY <1>1, WhenIdle
  <2>2. QED
    BY <1>1, <2>1 DEF Idle, Done
<1>3. CASE Fits(b, c)
  <2>1. /\ log' = [log EXCEPT ![b] = Append(@, [at |-> data_cursor[b], cmd |-> c])]
        /\ dead' = dead
    BY <1>3 DEF vkCmd
  <2>2. log \in [CommandBuffers -> Seq(LogEntries)]
    BY DEF IndInv, TypeOK, LogEntries
  <2> DEFINE entry == [at |-> data_cursor[b], cmd |-> c]
  <2>3. entry \in LogEntries
    BY BufferTypes DEF LogEntries, IndInv
  <2>4. entry.cmd = c
    OBVIOUS
  <2> HIDE DEF entry
  <2>5. /\ log'[b] = Append(log[b], entry)
        /\ \A a \in CommandBuffers \ {b} : log'[a] = log[a]
    BY <2>1, <2>2, Zenon DEF entry
  <2>6. /\ Len(log'[b]) = Len(log[b]) + 1
        /\ log'[b][Len(log[b]) + 1] = entry
        /\ \A k \in 1..Len(log[b]) : log'[b][k] = log[b][k]
    <3>1. log[b] \in Seq(LogEntries)
      BY <2>2
    <3>2. /\ Len(Append(log[b], entry)) = Len(log[b]) + 1
          /\ Append(log[b], entry)[Len(log[b]) + 1] = entry
          /\ \A k \in 1..Len(log[b]) : Append(log[b], entry)[k] = log[b][k]
      BY <3>1, <2>3, AppendProperties, ZenonT(30)
    <3>3. QED
      BY <2>5, <3>2, Zenon
  <2>7. Len(log[b]) \in Nat
    BY BufferTypes DEF IndInv
  <2>8. Recorded(b) \in Seq(Commands) /\ Len(Recorded(b)) = Len(log[b])
    BY RecordedCommands
  <2>9. Recorded(b)' = Append(Recorded(b), c)
    <3>1. Recorded(b)' = [k \in 1..(Len(log[b]) + 1) |-> log'[b][k].cmd]
      BY <2>6 DEF Recorded
    <3>2. /\ Append(Recorded(b), c) \in Seq(Commands)
          /\ Len(Append(Recorded(b), c)) = Len(Recorded(b)) + 1
          /\ \A k \in 1..Len(Recorded(b)) : Append(Recorded(b), c)[k] = Recorded(b)[k]
          /\ Append(Recorded(b), c)[Len(Recorded(b)) + 1] = c
      <4>1. Recorded(b) \in Seq(Commands) /\ c \in Commands
        BY <2>8
      <4>2. /\ Append(Recorded(b), c) \in Seq(Commands)
            /\ Len(Append(Recorded(b), c)) = Len(Recorded(b)) + 1
        BY <4>1, AppendProperties
      <4>3. \A k \in 1..Len(Recorded(b)) : Append(Recorded(b), c)[k] = Recorded(b)[k]
        BY <4>1, AppendProperties
      <4>4. Append(Recorded(b), c)[Len(Recorded(b)) + 1] = c
        BY <4>1, AppendProperties
      <4>5. QED
        BY <4>2, <4>3, <4>4
    <3>3. \A k \in 1..(Len(log[b]) + 1) : log'[b][k].cmd = Append(Recorded(b), c)[k]
      <4>1. TAKE k \in 1..(Len(log[b]) + 1)
      <4>2. CASE k = Len(log[b]) + 1
        BY <4>2, <2>4, <2>6, <2>8, <3>2
      <4>3. CASE k # Len(log[b]) + 1
        <5>1. k \in 1..Len(log[b])
          BY <4>3, <2>7
        <5>2. Recorded(b)[k] = log[b][k].cmd
          BY <5>1, RecordedCommands
        <5>3. QED
          BY <5>1, <5>2, <2>6, <2>8, <3>2
      <4>4. QED
        BY <4>2, <4>3
    <3> DEFINE both == Append(Recorded(b), c)
    <3>4. both = [k \in 1..Len(both) |-> both[k]]
      <4> HIDE DEF both
      <4>1. QED
        BY <3>2, BytesRead DEF both
    <3>5. QED
      BY <2>8, <3>1, <3>2, <3>3, <3>4
  <2>10. \A a \in CommandBuffers \ {b} : Recorded(a)' = Recorded(a)
    BY <2>5 DEF Recorded
  <2>11. [a \in CommandBuffers |-> Recorded(a)]'
           = [[a \in CommandBuffers |-> Recorded(a)] EXCEPT ![b] = Append(@, c)]
    BY <2>9, <2>10
  <2>12. QED
    BY <1>1, <1>2, <2>1, <2>11 DEF Queue!Record, Queue!NoEffect, NoEffect
<1>4. CASE ~Fits(b, c)
  <2>1. dead' = TRUE /\ UNCHANGED log
    BY <1>4 DEF vkCmd
  <2>2. UNCHANGED [a \in CommandBuffers |-> Recorded(a)]
    BY <2>1, SameLogRecorded DEF RecordedAll
  <2>3. QED
    BY <1>1, <1>2, <2>1, <2>2 DEF Queue!Record, Queue!NoEffect, NoEffect
<1>5. QED
  BY <1>3, <1>4

(* A buffer that is begun, allocated or freed has nothing recorded. *)
LEMMA ResetMaps ==
  ASSUME IndInv, NEW b \in CommandBuffers, Idle, Reset(b), effect' = NoEffect,
         UNCHANGED <<submitted, executing, gpu, dead>>
  PROVE  Queue!Forget(b)
<1>1. ~dead /\ submitted = << >> /\ UNCHANGED Done
  <2>1. ~executing /\ ~executing'
    BY WhenIdle
  <2>2. QED
    BY <2>1 DEF Idle, Done
<1>2. log' = [log EXCEPT ![b] = << >>] /\ log \in [CommandBuffers -> Seq(LogEntries)]
  BY DEF Reset, IndInv, TypeOK, LogEntries
<1>3. log'[b] = << >> /\ \A a \in CommandBuffers \ {b} : log'[a] = log[a]
  BY <1>2
<1>4. Recorded(b)' = << >>
  BY <1>3 DEF Recorded
<1>5. \A a \in CommandBuffers \ {b} : Recorded(a)' = Recorded(a)
  BY <1>3 DEF Recorded
<1>6. [a \in CommandBuffers |-> Recorded(a)]'
        = [[a \in CommandBuffers |-> Recorded(a)] EXCEPT ![b] = << >>]
  BY <1>4, <1>5
<1>7. QED
  BY <1>1, <1>6 DEF Queue!Forget, Queue!NoEffect, NoEffect

(* vkQueueSubmit adds the recordings to the queue. *)
LEMMA SubmitMaps ==
  ASSUME IndInv, IndInv', vkQueueSubmit
  PROVE  Queue!Submit
<1>1. /\ Idle /\ effect' = NoEffect
      /\ UNCHANGED <<data, data_cursor, read_cursor, log, executing, gpu, dead>>
  BY DEF vkQueueSubmit
<1>2. ~dead /\ submitted = << >> /\ UNCHANGED Done
  <2>1. ~executing /\ ~executing'
    BY <1>1, WhenIdle
  <2>2. QED
    BY <1>1, <2>1 DEF Idle, Done
<1>3. submitted' \in Seq(CommandBuffers)
  BY DEF IndInv, TypeOK
<1>4. UNCHANGED [a \in CommandBuffers |-> Recorded(a)]
  BY <1>1, SameLogRecorded DEF RecordedAll
<1>5. QED
  BY <1>1, <1>2, <1>3, <1>4 DEF Queue!Submit, Queue!NoEffect, NoEffect

(* The next reader starts with nothing done, because its buffer is rewound. *)
LEMMA StartMaps ==
  ASSUME IndInv, IndInv', Start
  PROVE  Queue!StartNext
<1>1. /\ ~dead /\ submitted # << >> /\ ~executing /\ executing' /\ gpu' = FreshState
      /\ effect' = NoEffect
      /\ UNCHANGED <<data, data_cursor, read_cursor, log, submitted, dead>>
  BY DEF Start
<1>2. Done = -1
  BY <1>1, DoneWhenIdle
<1>3. Current \in Live /\ Current \in CommandBuffers /\ Current' = Current
  <2>1. Current \in Live /\ Current' = Current
    BY <1>1 DEF IndInv, SubmittedLive, Current
  <2>2. QED
    BY <2>1 DEF Live
<1>4. (read_cursor[Current] = 0)' /\ EndOf(Current, 0)' = 0
  <2>1. read_cursor[Current] = 0
    BY <1>1, <1>3 DEF IndInv, OthersRewound
  <2>2. EndOf(Current, 0) = 0
    BY <1>3 DEF IndInv, DataIsLog
  <2>3. EndOf(Current, 0)' = EndOf(Current, 0)
    BY <1>1, <1>3 DEF EndOf
  <2>4. QED
    BY <1>1, <1>3, <2>1, <2>2, <2>3
<1>5. Done' = 0
  <2>1. Len(log[Current]) \in Nat
    BY <1>3, BufferTypes DEF IndInv
  <2>2. 0 \in 0..Len(log'[Current'])
    BY <1>1, <1>3, <2>1
  <2>3. QED
    BY <1>1, <1>4, <2>2, DoneFollowsReaderNext DEF DoneIsReader
<1>6. UNCHANGED [a \in CommandBuffers |-> Recorded(a)]
  BY <1>1, SameLogRecorded DEF RecordedAll
<1>7. QED
  BY <1>1, <1>2, <1>5, <1>6, QueueSameCommands DEF Queue!StartNext, Queue!NotStarted

(* A turn of the loop executes the command that comes after those done, or *)
(* ends the program because that command aborts.                           *)
LEMMA ExecuteMaps ==
  ASSUME IndInv, IndInv', Execute
  PROVE  Queue!ExecuteNext
<1>1. /\ ~dead /\ executing /\ executing'
      /\ UNCHANGED <<data, data_cursor, log, submitted, executing>>
  BY DEF Execute
<1>2. submitted # << >> /\ Current \in Live /\ Current \in CommandBuffers /\ Current' = Current
  <2>1. submitted # << >> /\ Current \in Live /\ Current' = Current
    BY <1>1 DEF IndInv, SubmittedLive, Current
  <2>2. QED
    BY <2>1 DEF Live
<1>3. PICK k \in 0..Len(log[Current]) : read_cursor[Current] = EndOf(Current, k)
  BY <1>1 DEF IndInv, AtCommand
<1>4. Done = k
  BY <1>1, <1>3, DoneBelowEnd
<1>5. k \in Nat /\ k # -1
  OBVIOUS
<1> DEFINE c == log[Current][k + 1].cmd
<1>6. /\ k + 1 \in 1..Len(log[Current])
      /\ \/ Aborts(gpu, c) /\ dead' = TRUE /\ UNCHANGED <<gpu, effect, read_cursor>>
         \/ /\ ~Aborts(gpu, c)
            /\ gpu' = Apply(gpu, c)
            /\ effect' = Effect(gpu', c)
            /\ read_cursor' = [read_cursor EXCEPT ![Current] = EndOf(Current, k + 1)]
            /\ dead' = dead
  BY <1>3, ExecuteReads
<1>7. UNCHANGED [b \in CommandBuffers |-> Recorded(b)]
  BY <1>1, SameLogRecorded DEF RecordedAll
<1> DEFINE all == [b \in CommandBuffers |-> Recorded(b)]
<1>8. /\ Len(all[Head(submitted)]) = Len(log[Current])
      /\ all[Head(submitted)][k + 1] = c
  BY <1>2, <1>6, RecordedCommands DEF Current
<1>9. k < Len(log[Current])
  <2>1. Len(log[Current]) \in Nat
    BY <1>2, BufferTypes DEF IndInv
  <2>2. QED
    BY <1>6, <2>1
<1> HIDE DEF c, all
<1>10. /\ ~dead /\ submitted # << >> /\ Done # Queue!NotStarted
       /\ Done < Len(all[Head(submitted)])
       /\ all[Head(submitted)][Done + 1] = c
       /\ UNCHANGED <<all, submitted>>
  BY <1>1, <1>2, <1>4, <1>5, <1>7, <1>8, <1>9 DEF Queue!NotStarted, all
<1>11. CASE Aborts(gpu, c)
  <2>1. dead' = TRUE /\ UNCHANGED <<gpu, effect, read_cursor>>
    BY <1>6, <1>11
  <2>2. Done' = Done
    BY <1>1, <1>2, <2>1 DEF Done
  <2>3. Queue!Aborts(gpu, c)
    BY <1>11, QueueSameCommands
  <2>4. QED
    BY <1>10, <2>1, <2>2, <2>3 DEF Queue!ExecuteNext, all
<1>12. CASE ~Aborts(gpu, c)
  <2>1. /\ gpu' = Apply(gpu, c) /\ effect' = Effect(gpu', c) /\ dead' = dead
        /\ read_cursor' = [read_cursor EXCEPT ![Current] = EndOf(Current, k + 1)]
    BY <1>6, <1>12
  <2>2. Done' = Done + 1
    <3>1. (read_cursor[Current])' = EndOf(Current, k + 1)
      BY <1>2, <2>1 DEF IndInv, TypeOK
    <3>2. (read_cursor[Current] = EndOf(Current, k + 1))'
      BY <1>1, <1>2, <3>1 DEF EndOf
    <3>3. (k + 1 \in 0..Len(log[Current]))'
      BY <1>1, <1>2, <1>6
    <3>4. (Done = k + 1)'
      BY <1>1, <3>2, <3>3, DoneFollowsReaderNext DEF DoneIsReader
    <3>5. QED
      BY <1>4, <3>4
  <2>3. ~Queue!Aborts(gpu, c) /\ gpu' = Queue!Apply(gpu, c) /\ effect' = Queue!Effect(gpu', c)
    BY <1>12, <2>1, QueueSameCommands
  <2>4. QED
    BY <1>10, <2>1, <2>2, <2>3 DEF Queue!ExecuteNext, all
<1>13. QED
  BY <1>11, <1>12

(* A reader that has reached the end of its buffer has done every command. *)
LEMMA FinishMaps ==
  ASSUME IndInv, IndInv', Finish
  PROVE  Queue!FinishOne
<1>1. /\ ~dead /\ executing /\ ~executing' /\ ~has_items
      /\ submitted' = Tail(submitted) /\ effect' = NoEffect
      /\ UNCHANGED <<data, data_cursor, log, gpu, dead>>
  BY DEF Finish
<1>2. submitted # << >> /\ Current \in Live /\ Current \in CommandBuffers
  <2>1. submitted # << >> /\ Current \in Live
    BY <1>1 DEF IndInv, SubmittedLive, Current
  <2>2. QED
    BY <2>1 DEF Live
<1>3. PICK k \in 0..Len(log[Current]) : read_cursor[Current] = EndOf(Current, k)
  BY <1>1 DEF IndInv, AtCommand
<1>4. Done = k
  BY <1>1, <1>3, DoneBelowEnd
<1>5. k = Len(log[Current])
  <2>1. /\ read_cursor[Current] \in Nat /\ data_cursor[Current] \in Nat
        /\ Len(log[Current]) \in Nat
    BY <1>2, BufferTypes DEF IndInv
  <2>2. data_cursor[Current] <= EndOf(Current, k)
    BY <1>1, <1>3, <2>1 DEF has_items
  <2>3. SUFFICES ASSUME k # Len(log[Current]) PROVE FALSE
    OBVIOUS
  <2>4. k + 1 \in 1..Len(log[Current])
    BY <2>1, <2>3
  <2>5. log[Current][k + 1].at < data_cursor[Current]
    BY <1>2, <2>4 DEF IndInv, LogInOrder
  <2>6. EndOf(Current, k) = log[Current][k + 1].at
    BY <2>3 DEF EndOf
  <2>7. QED
    BY <1>3, <2>1, <2>2, <2>5, <2>6
<1>6. UNCHANGED [b \in CommandBuffers |-> Recorded(b)]
  BY <1>1, SameLogRecorded DEF RecordedAll
<1> DEFINE all == [b \in CommandBuffers |-> Recorded(b)]
<1>7. Len(all[Head(submitted)]) = k
  BY <1>2, <1>5, RecordedCommands DEF Current
<1>8. Done' = -1 /\ k # -1
  BY <1>1 DEF Done
<1> HIDE DEF all
<1>9. /\ Done = Len(all[Head(submitted)]) /\ Done # Queue!NotStarted
      /\ Done' = Queue!NotStarted /\ UNCHANGED <<all, gpu, dead>>
  BY <1>1, <1>4, <1>6, <1>7, <1>8 DEF Queue!NotStarted, all
<1>10. QED
  BY <1>1, <1>2, <1>9 DEF Queue!FinishOne, Queue!NoEffect, NoEffect, all

(* A step in which nothing changes changes nothing of the queue. *)
LEMMA StutterMaps ==
  ASSUME UNCHANGED vars
  PROVE  UNCHANGED Queue!queueVars
<1>1. /\ log' = log /\ submitted' = submitted /\ executing' = executing /\ gpu' = gpu
      /\ effect' = effect /\ dead' = dead /\ read_cursor' = read_cursor
  BY DEF vars
<1>2. UNCHANGED [b \in CommandBuffers |-> Recorded(b)]
  BY <1>1, SameLogRecorded DEF RecordedAll
<1>3. UNCHANGED Done
  BY <1>1 DEF Done, Current
<1>4. QED
  BY <1>1, <1>2, <1>3 DEF Queue!queueVars

(* Each step is one of the queue, or none. *)
LEMMA NextMaps == IndInv /\ IndInv' /\ [Next]_vars => [Queue!QueueNext]_Queue!queueVars
<1>1. SUFFICES ASSUME IndInv, IndInv', [Next]_vars
               PROVE  [Queue!QueueNext]_Queue!queueVars
  OBVIOUS
<1>2. ASSUME NEW b \in CommandBuffers, NEW c \in Commands, vkCmd(b, c) PROVE Queue!QueueNext
  BY <1>1, <1>2, RecordMaps DEF Queue!QueueNext
<1>3. ASSUME NEW b \in CommandBuffers, vkBeginCommandBuffer(b) PROVE Queue!QueueNext
  BY <1>1, <1>3, ResetMaps DEF Queue!QueueNext, vkBeginCommandBuffer
<1>4. ASSUME NEW b \in CommandBuffers, vkAllocateCommandBuffers(b) PROVE Queue!QueueNext
  BY <1>1, <1>4, ResetMaps DEF Queue!QueueNext, vkAllocateCommandBuffers
<1>5. ASSUME NEW b \in CommandBuffers, vkFreeCommandBuffers(b) PROVE Queue!QueueNext
  BY <1>1, <1>5, ResetMaps DEF Queue!QueueNext, vkFreeCommandBuffers
<1>6. CASE vkQueueSubmit
  BY <1>1, <1>6, SubmitMaps DEF Queue!QueueNext
<1>7. CASE Start
  BY <1>1, <1>7, StartMaps DEF Queue!QueueNext
<1>8. CASE Execute
  BY <1>1, <1>8, ExecuteMaps DEF Queue!QueueNext
<1>9. CASE Finish
  BY <1>1, <1>9, FinishMaps DEF Queue!QueueNext
<1>10. CASE UNCHANGED vars
  BY <1>10, StutterMaps
<1>11. QED
  BY <1>1, <1>2, <1>3, <1>4, <1>5, <1>6, <1>7, <1>8, <1>9, <1>10 DEF Next

-----------------------------------------------------------------------------

(* vkQueueSubmit executes the commands recorded in the buffers it is       *)
(* given, each once, in order and from a fresh state, whatever was in      *)
(* their memory and however often they were submitted before.              *)
THEOREM SubmissionReplaysCommands == Spec => ReplaysCommands
<1>1. Init => Queue!QueueInit
  BY InitMaps
<1>2. IndInv /\ IndInv' /\ [Next]_vars => [Queue!QueueNext]_Queue!queueVars
  BY NextMaps
<1>3. QED
  BY <1>1, <1>2, InvariantHolds, PTL DEF Spec, ReplaysCommands, Queue!QueueSpec
=============================================================================
