------------------------ MODULE NetworkDownloadProofs ------------------------
(***************************************************************************)
(* Safety of the download, proved for every file length, every ring size   *)
(* and every set of faults, for downloads that start on a channel whose    *)
(* drive and MM2S engine are idle (Reuse is FALSE; with TRUE the           *)
(* properties do not hold, as the README tells).                           *)
(***************************************************************************)
EXTENDS NetworkDownload, SequenceTheorems, TLAPS

States == {"FREE", "READING", "READY", "SENDING"}
ReaderHolds == {"issue", "bell", "drain", "reading"}
SenderHolds == {"start", "route", "prepare", "rs", "xfer", "cleanup", "result"}
Filled == {"READY", "SENDING"}

ControlOK ==
    /\ nslots \in Nat \ {0} /\ downloads \in Nat
    /\ tstate \in {"IDLE", "RUNNING", "ERROR"}
    /\ proc \in {"none", "alive", "exit0", "exit1", "killed"}
    /\ answer \in {"none", "RETRYING", "SUCCESS", "FAILED"}
    /\ wpc \in {"gone", "boot", "open", "run"}
    /\ rpc \in {"done", "head", "acquire", "turn"} \cup ReaderHolds
    /\ spc \in {"done", "wait"} \cup SenderHolds
    /\ mm2s \in {"halted", "running", "stuck", "error"}

CountersOK ==
    /\ rchunk \in 0 .. Chunks /\ schunk \in 0 .. Chunks
    /\ send_rc \in {0, -1, -2} /\ error_rc \in {0, -1, -2}

DataOK ==
    /\ slot \in [Ring -> [state : States, chunk : Nat]]
    /\ ddr \in [Ring -> Nat \X Nat]
    /\ cq \in Seq([cid : Nat, ok : BOOLEAN])
    /\ moving \in Ring \cup {Nothing}
    /\ sent \in Seq(Nat \X Nat)

TypeOK == ControlOK /\ CountersOK /\ DataOK

\* The parent and the worker agree on whether there is a worker.
ProcessInv ==
    /\ tstate = "RUNNING" => pid
    /\ proc = "alive" => tstate = "RUNNING"
    /\ wpc # "gone" => proc = "alive"
    /\ answer = "SUCCESS" => proc # "alive"
    /\ proc \in {"none", "exit0", "exit1"} => spc = "done"
    /\ wpc \in {"boot", "open"} =>
         /\ rpc = "done" /\ spc = "done" /\ error_rc = 0 /\ ~producer_done
         /\ schunk = 0 /\ rchunk = 0 /\ send_rc = 0 /\ sent = <<>>
         /\ nvme = {} /\ cq = <<>> /\ moving = Nothing /\ mm2s \in {"halted", "error"}

\* The chunks between the sender and the reader are in their slots, whole.
WindowInv ==
    /\ schunk <= rchunk
    /\ \A k \in schunk .. rchunk - 1 :
         slot[SlotOf(k)].state \in Filled /\ slot[SlotOf(k)].chunk = k
    /\ \A s \in Ring : slot[s].state \in Filled =>
         /\ slot[s].chunk \in schunk .. rchunk - 1
         /\ SlotOf(slot[s].chunk) = s
         /\ ddr[s] = <<downloads, slot[s].chunk>>

\* The one read in flight, or its completion, is for the reader's slot.
Current == [slot |-> SlotOf(rchunk), data |-> <<downloads, rchunk>>, cid |-> rchunk + 1]
ReadInv ==
    /\ rpc = "acquire" => rchunk < Chunks
    /\ rpc \in ReaderHolds \/ nvme # {} \/ cq # <<>> =>
         /\ rchunk < Chunks
         /\ slot[SlotOf(rchunk)].state = "READING" /\ slot[SlotOf(rchunk)].chunk = rchunk
    /\ nvme # {} \/ cq # <<>> => rpc \in {"bell", "drain", "reading", "done"}
    /\ nvme \subseteq {Current}
    /\ cq # <<>> =>
         /\ nvme = {} /\ Len(cq) = 1
         /\ Head(cq).cid = rchunk + 1
         /\ Head(cq).ok => ddr[SlotOf(rchunk)] = <<downloads, rchunk>>

\* The engine moves the sender's slot, and only while the sender waits for it or
\* after it could not be halted.
SendInv ==
    /\ mm2s \in {"halted", "error"} => moving = Nothing
    /\ spc \in SenderHolds => schunk < rchunk
    /\ spc \in {"wait", "start", "route", "prepare"} => mm2s \in {"halted", "error"}
    /\ spc = "rs" => mm2s = "running" /\ moving = Nothing
    /\ spc = "result" /\ send_rc = 0 => mm2s \in {"halted", "error"}
    /\ spc \in {"result", "done"} /\ moving # Nothing => mm2s = "stuck"
    /\ spc = "done" /\ moving # Nothing => error_rc # 0
    /\ moving # Nothing =>
         /\ schunk < rchunk /\ moving = SlotOf(schunk) /\ Len(sent) = schunk
         /\ spc \in {"xfer", "cleanup", "result", "done"}
         /\ spc = "result" => send_rc # 0
         /\ ~cmplt
    /\ Serial =>
         /\ rpc # "turn" => spc \in {"wait", "done"}
         /\ rpc = "done" => spc = "done"
         /\ rpc \notin {"done", "turn"} => rchunk = schunk
         /\ rpc = "turn" => rchunk = schunk + 1
         /\ rpc # "done" => error_rc = 0
    /\ rpc # "done" => ~producer_done

\* How many chunks have been sent, seen from each place of the sender.
SentInv ==
    /\ Len(sent) \in {schunk, schunk + 1}
    /\ spc \in {"wait", "start", "route", "prepare", "rs"} => Len(sent) = schunk /\ send_rc = 0
    /\ spc \in {"rs", "xfer"} /\ cmplt => spc = "xfer" /\ Len(sent) = schunk + 1
    /\ spc \in {"cleanup", "result"} /\ send_rc = 0 => Len(sent) = schunk + 1
    /\ spc = "cleanup" /\ send_rc = 0 => moving = Nothing
    /\ spc = "done" /\ error_rc = 0 => Len(sent) = schunk
    /\ send_rc = -2 \/ error_rc = -2 => stop
    /\ proc = "exit0" /\ ~stop => Len(sent) = Chunks /\ moving = Nothing

ContentInv == \A i \in 1 .. Len(sent) : sent[i] = <<downloads, i - 1>>

IInv == TypeOK /\ ProcessInv /\ WindowInv /\ ReadInv /\ SendInv /\ SentInv /\ ContentInv

LoopStep == \E expired, late \in BOOLEAN : Loop(expired, late)

LEMMA SlotInRing ==
    ASSUME nslots \in Nat \ {0}, NEW k \in Nat
    PROVE  SlotOf(k) \in Ring
BY DEF SlotOf, Ring

LEMMA SingletonTail ==
    ASSUME NEW S, NEW q \in Seq(S), Len(q) = 1
    PROVE  Tail(q) = <<>>
<1>1. Tail(q) \in Seq(S) /\ Len(Tail(q)) = 0
  OBVIOUS
<1> QED
  BY <1>1, EmptySeq

LEMMA Singleton ==
    ASSUME NEW e
    PROVE  Len(<<e>>) = 1 /\ Head(<<e>>) = e
<1>1. <<e>> \in Seq({e}) /\ <<e>> # <<>> /\ Len(<<e>>) = 1
  OBVIOUS
<1> QED
  BY <1>1, HeadTailProperties

LEMMA RingFacts ==
    ASSUME TypeOK
    PROVE  /\ rchunk \in Nat /\ schunk \in Nat /\ nslots \in Nat \ {0}
           /\ SlotOf(rchunk) \in Ring /\ SlotOf(schunk) \in Ring
           /\ Nothing \notin Ring
<1>1. rchunk \in Nat /\ schunk \in Nat /\ nslots \in Nat \ {0}
  BY DownloadAssumption DEF TypeOK, ControlOK, CountersOK
<1> QED
  BY <1>1, SlotInRing DEF Ring, Nothing

LEMMA RingConstant ==
    ASSUME Next
    PROVE  nslots' = nslots
BY DEF Next, Hardware, NvmeCompletes, Mm2sSends, Mm2sFails, Worker, Boot, Open, Finish,
       Reader, ReadHead, Acquire, Issue, Bell, Drain, Reading, Sender, SendWait, SendStart,
       Route, Prepare, WriteTail, Xfer, Cleanup, Sent, InSend, Parent, Start, Stop, Tick,
       Overdue, Loop
-----------------------------------------------------------------------------
LEMMA ControlStep ==
    ASSUME ControlOK, Next
    PROVE  ControlOK'
<1> USE DEF ControlOK, ReaderHolds, SenderHolds, parentVars, readVars, sendVars, engineVars
<1>1. CASE NvmeCompletes
  BY <1>1 DEF NvmeCompletes
<1>11. CASE Mm2sSends \/ Mm2sFails
  BY <1>11 DEF Mm2sSends, Mm2sFails
<1>2. CASE Boot \/ Open \/ Finish
  BY <1>2 DEF Boot, Open, Finish, Exit
<1>3. CASE ReadHead
  BY <1>3 DEF ReadHead, ReaderFails
<1>4. CASE Acquire \/ Bell
  BY <1>4 DEF Acquire, Bell
<1>5. CASE Issue
  BY <1>5 DEF Issue, ReaderFails
<1>6. CASE Drain \/ Reading
  BY <1>6 DEF Drain, Reading, ReaderFails
<1>7. CASE SendWait \/ Sent
  BY <1>7 DEF SendWait, Sent, SenderFails
<1>8. CASE SendStart
  <2>1. spc' \in {"result", "route"}
    BY <1>8 DEF SendStart
  <2> QED
    BY <1>8, <2>1 DEF SendStart, InSend
<1>14. CASE Route
  BY <1>14 DEF Route, InSend
<1>13. CASE WriteTail \/ Xfer
  BY <1>13 DEF WriteTail, Xfer, InSend
<1>12. CASE Prepare \/ Cleanup
  BY <1>12 DEF Prepare, Cleanup, InSend, CannotHalt, Quiet
<1>9. CASE Start \/ Stop
  BY <1>9 DEF Start, Stop
<1>10. CASE LoopStep
  <2> PICK expired, late \in BOOLEAN : Loop(expired, late)
    BY <1>10 DEF LoopStep
  <2>1. CheckedState(expired) \in {"IDLE", "RUNNING", "ERROR"}
    BY DEF CheckedState
  <2>2. ServedAnswer(CheckedState(expired)) \in {"SUCCESS", "FAILED"}
    BY <2>1 DEF ServedAnswer
  <2>3. /\ tstate' \in {"IDLE", "RUNNING", "ERROR"}
        /\ answer' \in {"none", "RETRYING", "SUCCESS", "FAILED"}
    BY <2>1, <2>2 DEF Loop
  <2> QED
    BY <2>3 DEF Loop, workerVars
<1> QED
  BY <1>1, <1>2, <1>3, <1>4, <1>5, <1>6, <1>7, <1>8, <1>9, <1>10,
     <1>11, <1>12, <1>13, <1>14
     DEF Next, Hardware, Worker, Reader, Sender, Parent, Tick, Overdue, LoopStep

LEMMA CountersStep ==
    ASSUME IInv, Next
    PROVE  CountersOK'
<1> USE DownloadAssumption DEF CountersOK, parentVars, readVars, sendVars, pipeVars
<1> /\ rchunk \in Nat /\ schunk \in Nat /\ CountersOK /\ (rpc = "reading" => rchunk < Chunks)
    /\ (spc = "result" => schunk < rchunk)
  BY RingFacts DEF IInv, TypeOK, ReadInv, SendInv, ReaderHolds, SenderHolds
<1>1. CASE NvmeCompletes \/ Mm2sSends \/ Mm2sFails
  BY <1>1 DEF NvmeCompletes, Mm2sSends, Mm2sFails
<1>2. CASE Boot \/ Open \/ Finish
  BY <1>2 DEF Boot, Open, Finish
<1>3. CASE ReadHead \/ Acquire \/ Issue \/ Bell \/ Drain
  BY <1>3 DEF ReadHead, Acquire, Issue, Bell, Drain, ReaderFails
<1>4. CASE Reading
  BY <1>4 DEF Reading, ReaderFails
<1>5. CASE SendWait \/ SendStart \/ Route \/ Prepare \/ WriteTail \/ Xfer \/ Cleanup
  BY <1>5 DEF SendWait, SendStart, Route, Prepare, WriteTail, Xfer, Cleanup, InSend
<1>6. CASE Sent
  BY <1>6 DEF Sent, SenderFails
<1>7. CASE Start \/ Stop \/ LoopStep
  BY <1>7 DEF Start, Stop, LoopStep, Loop, workerVars
<1> QED
  BY <1>1, <1>2, <1>3, <1>4, <1>5, <1>6, <1>7
     DEF Next, Hardware, Worker, Reader, Sender, Parent, Tick, Overdue, LoopStep

LEMMA DataStep ==
    ASSUME IInv, Next
    PROVE  DataOK'
<1> USE DEF DataOK, parentVars, readVars, sendVars, pipeVars, nvmeVars, engineVars
<1>a. /\ rchunk \in Nat /\ schunk \in Nat /\ downloads \in Nat
      /\ SlotOf(rchunk) \in Ring /\ SlotOf(schunk) \in Ring /\ DataOK
  BY RingFacts DEF IInv, TypeOK, ControlOK
<1>b. Ring' = Ring
  BY RingConstant DEF Ring
<1>c. \A s \in Ring : slot[s] \in [state : States, chunk : Nat]
  BY <1>a
<1>d. [ddr EXCEPT ![SlotOf(rchunk)] = Torn] \in [Ring -> Nat \X Nat]
  BY <1>a DEF Torn
<1>e. cq # <<>> => Tail(cq) \in Seq([cid : Nat, ok : BOOLEAN])
  BY <1>a
<1>1. CASE NvmeCompletes
  <2> PICK r \in nvme, ok \in BOOLEAN :
        /\ ddr' = [ddr EXCEPT ![r.slot] = IF ok THEN r.data ELSE Torn]
        /\ cq' = Append(cq, [cid |-> r.cid, ok |-> ok])
    BY <1>1 DEF NvmeCompletes
  <2>1. r = Current
    BY DEF IInv, ReadInv
  <2>2. r.slot = SlotOf(rchunk) /\ r.data \in Nat \X Nat /\ r.cid \in Nat
    BY SMTT(30), <1>a, <2>1 DEF Current
  <2>3. ddr' \in [Ring -> Nat \X Nat]
    BY <1>a, <2>2 DEF Torn
  <2>4. cq' \in Seq([cid : Nat, ok : BOOLEAN])
    <3> DEFINE entry == [cid |-> r.cid, ok |-> ok]
    <3>1. entry \in [cid : Nat, ok : BOOLEAN]
      BY <2>2
    <3> HIDE DEF entry
    <3> QED
      BY <1>a, <3>1 DEF entry
  <2> QED
    BY <1>1, <1>a, <1>b, <2>3, <2>4 DEF NvmeCompletes
<1>2. CASE Mm2sSends
  <2>1. moving \in Ring
    BY <1>2, <1>a DEF Mm2sSends
  <2> QED
    BY <1>2, <1>a, <1>b, <2>1 DEF Mm2sSends
<1>3. CASE Mm2sFails \/ Boot \/ Open \/ Finish
  BY <1>3, <1>a, <1>b DEF Mm2sFails, Boot, Open, Finish
<1>4. CASE ReadHead \/ Bell
  BY <1>4, <1>a, <1>b DEF ReadHead, Bell
<1>5. CASE Acquire
  <2>1. [state |-> "READING", chunk |-> rchunk] \in [state : States, chunk : Nat]
    BY <1>a DEF States
  <2> QED
    BY <1>5, <1>a, <1>b, <2>1 DEF Acquire
<1>6. CASE Issue
  BY <1>6, <1>a, <1>b, <1>d DEF Issue
<1>7. CASE Drain
  <2>1. cq' \in Seq([cid : Nat, ok : BOOLEAN])
    BY <1>7, <1>a, <1>e DEF Drain
  <2> QED
    BY <1>7, <1>a, <1>b, <2>1 DEF Drain
<1>8. CASE Reading
  <2>2. [slot EXCEPT ![SlotOf(rchunk)].state = "READY"] \in [Ring -> [state : States, chunk : Nat]]
    BY <1>a, <1>c DEF States
  <2> QED
    BY <1>8, <1>a, <1>b, <1>e, <2>2 DEF Reading
<1>9. CASE SendWait \/ Sent
  <2>1. ASSUME NEW st \in States
        PROVE  [slot EXCEPT ![SlotOf(schunk)].state = st] \in [Ring -> [state : States, chunk : Nat]]
    BY <1>a, <1>c
  <2>2. "SENDING" \in States /\ "FREE" \in States
    BY DEF States
  <2> QED
    BY <1>9, <1>a, <1>b, <2>1, <2>2 DEF SendWait, Sent
<1>10. CASE SendStart \/ Route \/ Xfer
  BY <1>10, <1>a, <1>b DEF SendStart, Route, Xfer, InSend
<1>11. CASE Prepare \/ WriteTail \/ Cleanup
  BY <1>11, <1>a, <1>b DEF Prepare, WriteTail, Cleanup, InSend, Quiet, CannotHalt
<1>12. CASE Start
  <2>1. FreshSlots \in [Ring -> [state : States, chunk : Nat]]
    BY DEF FreshSlots, States
  <2> QED
    BY SMTT(30), <1>12, <1>a, <1>b, <2>1 DEF Start
<1>13. CASE Stop \/ LoopStep
  BY <1>13, <1>a, <1>b DEF Stop, LoopStep, Loop, workerVars
<1> QED
  BY <1>1, <1>2, <1>3, <1>4, <1>5, <1>6, <1>7, <1>8, <1>9, <1>10, <1>11, <1>12, <1>13
     DEF Next, Hardware, Worker, Reader, Sender, Parent, Tick, Overdue, LoopStep

LEMMA ProcessStep ==
    ASSUME IInv, ~Reuse, Next
    PROVE  ProcessInv'
<1> USE DEF IInv, TypeOK, ControlOK, ProcessInv, SenderHolds, ReaderHolds,
            parentVars, readVars, sendVars, pipeVars, nvmeVars, engineVars
<1>1. CASE NvmeCompletes \/ Mm2sSends \/ Mm2sFails
  BY <1>1 DEF NvmeCompletes, Mm2sSends, Mm2sFails
<1>2. CASE Boot \/ Open \/ Finish
  BY <1>2 DEF Boot, Open, Finish, Exit
<1>3. CASE ReadHead \/ Acquire \/ Issue
  BY <1>3 DEF ReadHead, Acquire, Issue, ReaderFails
<1>4. CASE Bell \/ Drain \/ Reading
  BY <1>4 DEF Bell, Drain, Reading, ReaderFails
<1>5. CASE SendWait \/ Sent
  BY <1>5 DEF SendWait, Sent, SenderFails
<1>6. CASE SendStart \/ Route \/ Prepare \/ WriteTail \/ Xfer \/ Cleanup
  BY <1>6 DEF SendStart, Route, Prepare, WriteTail, Xfer, Cleanup, InSend
<1>7. CASE Start
  BY <1>7 DEF Start, ChannelClean, SendInv
<1>8. CASE Stop
  BY <1>8 DEF Stop
<1>9. CASE LoopStep
  <2> PICK expired, late \in BOOLEAN : Loop(expired, late)
    BY <1>9 DEF LoopStep
  <2>1. CASE proc = "alive"
    BY <2>1 DEF Loop, CheckedState, ServedAnswer, workerVars
  <2>2. CASE proc # "alive"
    BY <2>2 DEF Loop, CheckedState, workerVars
  <2> QED
    BY <2>1, <2>2
<1> QED
  BY <1>1, <1>2, <1>3, <1>4, <1>5, <1>6, <1>7, <1>8, <1>9
     DEF Next, Hardware, Worker, Reader, Sender, Parent, Tick, Overdue, LoopStep

\* Reader and sender never work on one slot: its state tells whose it is.
LEMMA WindowStep ==
    ASSUME IInv, ~Reuse, Next
    PROVE  WindowInv'
<1> USE DEF parentVars, readVars, sendVars, pipeVars, nvmeVars, engineVars
<1>a. /\ rchunk \in Nat /\ schunk \in Nat /\ nslots \in Nat \ {0}
      /\ SlotOf(rchunk) \in Ring /\ SlotOf(schunk) \in Ring
      /\ DataOK /\ WindowInv
  BY RingFacts DEF IInv, TypeOK
<1>b. nslots' = nslots /\ Ring' = Ring
  BY RingConstant DEF Ring
<1>c. ASSUME slot' = slot, ddr' = ddr, schunk' = schunk, rchunk' = rchunk, downloads' = downloads
      PROVE  WindowInv'
  BY <1>a, <1>b, <1>c DEF WindowInv, SlotOf
<1>d. ASSUME NEW k \in schunk .. rchunk - 1 PROVE k \in Nat /\ SlotOf(k) \in Ring
  BY <1>a, <1>d, SlotInRing
<1>1. CASE NvmeCompletes
  <2> PICK r \in nvme, ok \in BOOLEAN : ddr' = [ddr EXCEPT ![r.slot] = IF ok THEN r.data ELSE Torn]
    BY <1>1 DEF NvmeCompletes
  <2>1. r.slot = SlotOf(rchunk) /\ slot[SlotOf(rchunk)].state = "READING"
    BY DEF IInv, ReadInv, Current
  <2>2. \A s \in Ring : slot[s].state \in Filled => ddr'[s] = ddr[s]
    BY <1>a, <2>1 DEF Filled, DataOK
  <2>3. slot' = slot /\ schunk' = schunk /\ rchunk' = rchunk /\ downloads' = downloads
    BY <1>1 DEF NvmeCompletes
  <2> QED
    BY <1>a, <1>b, <2>2, <2>3 DEF WindowInv, SlotOf
<1>2. CASE Mm2sSends \/ Mm2sFails \/ Boot \/ Open \/ Finish
  BY <1>2, <1>c DEF Mm2sSends, Mm2sFails, Boot, Open, Finish
<1>3. CASE ReadHead \/ Bell \/ Drain
  BY <1>3, <1>c DEF ReadHead, Bell, Drain
<1>4. CASE Acquire
  <2>1. CASE slot' = [slot EXCEPT ![SlotOf(rchunk)] = [state |-> "READING", chunk |-> rchunk]]
             /\ slot[SlotOf(rchunk)].state = "FREE"
    <3>1. \A s \in Ring : slot'[s] = IF s = SlotOf(rchunk) THEN [state |-> "READING", chunk |-> rchunk]
                                                           ELSE slot[s]
      BY <1>a, <2>1 DEF DataOK
    <3>2. \A k \in schunk .. rchunk - 1 : SlotOf(k) # SlotOf(rchunk)
      BY <1>a, <2>1 DEF WindowInv, Filled
    <3>3. ddr' = ddr /\ schunk' = schunk /\ rchunk' = rchunk /\ downloads' = downloads
      BY <1>4 DEF Acquire
    <3>4. \A k \in schunk .. rchunk - 1 : slot'[SlotOf(k)] = slot[SlotOf(k)]
      BY <1>d, <3>1, <3>2
    <3>5. \A s \in Ring : slot'[s].state \in Filled => slot'[s] = slot[s]
      BY <3>1 DEF Filled
    <3> QED
      BY <1>a, <1>b, <3>3, <3>4, <3>5 DEF WindowInv, SlotOf
  <2>2. CASE slot' = slot
    BY <1>4, <1>c, <2>2 DEF Acquire
  <2> QED
    BY <1>4, <2>1, <2>2 DEF Acquire
<1>5. CASE Issue
  <2>1. slot[SlotOf(rchunk)].state = "READING"
    BY <1>5 DEF Issue, IInv, ReadInv, ReaderHolds
  <2>2. \A s \in Ring : slot[s].state \in Filled => ddr'[s] = ddr[s]
    BY <1>5, <1>a, <2>1 DEF Issue, Filled, DataOK
  <2>3. slot' = slot /\ schunk' = schunk /\ rchunk' = rchunk /\ downloads' = downloads
    BY <1>5 DEF Issue
  <2> QED
    BY <1>a, <1>b, <2>2, <2>3 DEF WindowInv, SlotOf
<1>6. CASE Reading
  <2>1. CASE rchunk' = rchunk /\ slot' = slot
    BY <1>6, <1>c, <2>1 DEF Reading
  <2>2. CASE /\ cq # <<>> /\ Head(cq).ok /\ rchunk' = rchunk + 1
             /\ slot' = [slot EXCEPT ![SlotOf(rchunk)].state = "READY"]
    <3>1. /\ slot[SlotOf(rchunk)].state = "READING" /\ slot[SlotOf(rchunk)].chunk = rchunk
          /\ ddr[SlotOf(rchunk)] = <<downloads, rchunk>>
      BY <2>2 DEF IInv, ReadInv
    <3>2. \A s \in Ring : /\ s # SlotOf(rchunk) => slot'[s] = slot[s]
                          /\ s = SlotOf(rchunk) => slot'[s].state = "READY" /\ slot'[s].chunk = rchunk
      BY <1>a, <2>2, <3>1 DEF DataOK
    <3>3. \A k \in schunk .. rchunk - 1 : SlotOf(k) # SlotOf(rchunk)
      BY <1>a, <3>1 DEF WindowInv, Filled
    <3>4. ddr' = ddr /\ schunk' = schunk /\ downloads' = downloads
      BY <1>6 DEF Reading
    <3> QED
      BY <1>a, <1>b, <1>d, <2>2, <3>1, <3>2, <3>3, <3>4 DEF WindowInv, Filled, SlotOf
  <2> QED
    BY <1>6, <2>1, <2>2 DEF Reading
<1>7. CASE SendWait
  <2>1. CASE slot' = slot
    BY <1>7, <1>c, <2>1 DEF SendWait
  <2>2. CASE /\ slot' = [slot EXCEPT ![SlotOf(schunk)].state = "SENDING"]
             /\ slot[SlotOf(schunk)].state = "READY"
    <3>1. \A s \in Ring : slot'[s].chunk = slot[s].chunk
                          /\ (slot'[s].state \in Filled <=> slot[s].state \in Filled)
      BY <1>a, <2>2 DEF DataOK, Filled
    <3>2. ddr' = ddr /\ schunk' = schunk /\ rchunk' = rchunk /\ downloads' = downloads
      BY <1>7 DEF SendWait
    <3> QED
      BY <1>a, <1>b, <1>d, <3>1, <3>2 DEF WindowInv, SlotOf
  <2> QED
    BY <1>7, <2>1, <2>2 DEF SendWait
<1>8. CASE SendStart \/ Route \/ Prepare \/ WriteTail \/ Xfer \/ Cleanup
  BY <1>8, <1>c DEF SendStart, Route, Prepare, WriteTail, Xfer, Cleanup, InSend
<1>9. CASE Sent
  <2>1. CASE slot' = slot /\ schunk' = schunk
    BY <1>9, <1>c, <2>1 DEF Sent
  <2>2. CASE slot' = [slot EXCEPT ![SlotOf(schunk)].state = "FREE"] /\ schunk' = schunk + 1
    <3>1. schunk < rchunk
      BY <1>9 DEF Sent, IInv, SendInv, SenderHolds
    <3>2. \A s \in Ring : /\ s # SlotOf(schunk) => slot'[s] = slot[s]
                          /\ s = SlotOf(schunk) => slot'[s].state = "FREE"
      BY <1>a, <2>2 DEF DataOK
    <3>3. \A k \in schunk + 1 .. rchunk - 1 : SlotOf(k) # SlotOf(schunk)
      BY <1>a, <3>1 DEF WindowInv
    <3>4. ddr' = ddr /\ rchunk' = rchunk /\ downloads' = downloads
      BY <1>9 DEF Sent
    <3>5. \A k \in schunk + 1 .. rchunk - 1 : slot'[SlotOf(k)] = slot[SlotOf(k)]
      BY <1>a, <1>d, <3>2, <3>3
    <3>6. \A s \in Ring : slot'[s].state \in Filled =>
            slot'[s] = slot[s] /\ slot[s].chunk # schunk
      BY <1>a, <3>2 DEF Filled, WindowInv
    <3> QED
      BY <1>a, <1>b, <2>2, <3>1, <3>4, <3>5, <3>6 DEF WindowInv, SlotOf
  <2> QED
    BY <1>9, <2>1, <2>2 DEF Sent
<1>10. CASE Start
  BY <1>10, <1>b DEF Start, FreshSlots, WindowInv, Filled
<1>11. CASE Stop \/ LoopStep
  BY <1>11, <1>c DEF Stop, LoopStep, Loop, workerVars
<1> QED
  BY <1>1, <1>2, <1>3, <1>4, <1>5, <1>6, <1>7, <1>8, <1>9, <1>10, <1>11
     DEF Next, Hardware, Worker, Reader, Sender, Parent, Tick, Overdue, LoopStep

\* Only the reader changes its own slot while it holds it, and the drive holds
\* at most the command the reader issued.
LEMMA ReadStep ==
    ASSUME IInv, ~Reuse, Next
    PROVE  ReadInv'
<1> USE DEF parentVars, readVars, sendVars, pipeVars, nvmeVars, engineVars
<1>a. /\ rchunk \in Nat /\ schunk \in Nat /\ nslots \in Nat \ {0}
      /\ SlotOf(rchunk) \in Ring /\ SlotOf(schunk) \in Ring
      /\ ControlOK /\ DataOK /\ ReadInv /\ rchunk <= Chunks /\ Chunks \in Nat
  BY RingFacts, DownloadAssumption DEF IInv, TypeOK, CountersOK
<1>b. nslots' = nslots /\ Ring' = Ring
  BY RingConstant DEF Ring
<1>c. ASSUME slot' = slot, ddr' = ddr, rchunk' = rchunk, downloads' = downloads,
             nvme' = nvme, cq' = cq, rpc' \in {rpc, "done"}
      PROVE  ReadInv'
  BY <1>a, <1>b, <1>c DEF ReadInv, Current, SlotOf, ReaderHolds
<1>1. CASE NvmeCompletes
  <2> PICK r \in nvme, ok \in BOOLEAN :
        /\ nvme' = nvme \ {r}
        /\ ddr' = [ddr EXCEPT ![r.slot] = IF ok THEN r.data ELSE Torn]
        /\ cq' = Append(cq, [cid |-> r.cid, ok |-> ok])
    BY <1>1 DEF NvmeCompletes
  <2>1. /\ r = Current /\ nvme' = {} /\ cq = <<>>
        /\ r.slot = SlotOf(rchunk) /\ r.data = <<downloads, rchunk>> /\ r.cid = rchunk + 1
    BY <1>a DEF ReadInv, Current
  <2>2. cq' = <<[cid |-> rchunk + 1, ok |-> ok]>>
    BY <2>1
  <2>3. Len(cq') = 1 /\ Head(cq').cid = rchunk + 1 /\ Head(cq').ok = ok
    <3> DEFINE entry == [cid |-> rchunk + 1, ok |-> ok]
    <3>1. entry.cid = rchunk + 1 /\ entry.ok = ok /\ cq' = <<entry>>
      BY <2>2
    <3> HIDE DEF entry
    <3>2. Len(cq') = 1 /\ Head(cq') = entry
      BY <3>1, Singleton
    <3> QED
      BY <3>1, <3>2
  <2>4. ok => ddr'[SlotOf(rchunk)] = <<downloads, rchunk>>
    BY <1>a, <2>1 DEF DataOK
  <2>5. slot' = slot /\ rchunk' = rchunk /\ downloads' = downloads /\ rpc' = rpc
    BY <1>1 DEF NvmeCompletes
  <2> QED
    BY <1>a, <1>b, <2>1, <2>3, <2>4, <2>5 DEF ReadInv, SlotOf
<1>2. CASE Mm2sSends \/ Mm2sFails \/ Boot \/ Finish
  BY <1>2, <1>c DEF Mm2sSends, Mm2sFails, Boot, Finish
<1>3. CASE Open
  BY <1>3, <1>a, <1>b DEF Open, IInv, ProcessInv, ReadInv, ReaderHolds
<1>4. CASE ReadHead
  BY <1>4, <1>a, <1>b DEF ReadHead, ReaderFails, ReadInv, Current, SlotOf, ReaderHolds
<1>5. CASE Acquire
  <2>1. nvme = {} /\ cq = <<>> /\ rchunk < Chunks
    BY <1>5, <1>a DEF Acquire, ReadInv
  <2>2. rpc' = "issue" => slot'[SlotOf(rchunk)] = [state |-> "READING", chunk |-> rchunk]
    BY <1>5, <1>a DEF Acquire, DataOK
  <2>3. nvme' = nvme /\ cq' = cq /\ rchunk' = rchunk /\ rpc' \in {"issue", "acquire", "done"}
    BY <1>5 DEF Acquire
  <2> QED
    BY <1>a, <1>b, <2>1, <2>2, <2>3 DEF ReadInv, SlotOf, ReaderHolds
<1>6. CASE Issue
  BY <1>6, <1>a, <1>b DEF Issue, ReaderFails, ReadInv, Current, SlotOf, ReaderHolds
<1>7. CASE Bell
  BY <1>7, <1>a, <1>b DEF Bell, ReadInv, Current, SlotOf, ReaderHolds
<1>8. CASE Drain
  <2>1. cq' = <<>>
    BY <1>8, <1>a, SingletonTail DEF Drain, ReadInv, DataOK
  <2> QED
    BY <1>8, <1>a, <1>b, <2>1 DEF Drain, ReaderFails, ReadInv, Current, SlotOf, ReaderHolds
<1>9. CASE Reading
  <2>1. CASE cq' = cq /\ slot' = slot /\ rchunk' = rchunk /\ rpc' = "done"
    BY <1>9, <1>c, <2>1 DEF Reading
  <2>2. CASE cq # <<>> /\ cq' = Tail(cq)
    <3>1. cq' = <<>> /\ nvme = {} /\ nvme' = {}
      BY <1>9, <1>a, <2>2, SingletonTail DEF Reading, ReadInv, DataOK
    <3>2. rpc' \in {"done", "turn", "head"}
      BY <1>9, <2>2 DEF Reading, ReaderFails
    <3> QED
      BY <3>1, <3>2 DEF ReadInv, ReaderHolds
  <2> QED
    BY <1>9, <2>1, <2>2 DEF Reading, ReaderFails
<1>10. CASE SendWait \/ Sent
  <2>1. CASE /\ slot' = slot /\ rpc' \in {rpc, "done"}
    BY <1>10, <1>c, <2>1 DEF SendWait, Sent
  <2>2. CASE /\ rpc' = rpc \/ (rpc' = "head" /\ Serial /\ spc = "result")
             /\ \E st \in States : slot' = [slot EXCEPT ![SlotOf(schunk)].state = st]
             /\ spc = "wait" => slot[SlotOf(schunk)].state = "READY"
             /\ spc \in {"wait", "result"}
    <3>1. slot[SlotOf(schunk)].state \in Filled
      <4>1. CASE spc = "wait"
        BY <2>2, <4>1 DEF Filled
      <4>2. CASE spc = "result"
        BY <1>a, <4>2 DEF IInv, SendInv, SenderHolds, WindowInv
      <4> QED
        BY <2>2, <4>1, <4>2
    <3>2. slot[SlotOf(rchunk)].state = "READING" => slot'[SlotOf(rchunk)] = slot[SlotOf(rchunk)]
      BY <1>a, <2>2, <3>1 DEF DataOK, Filled
    <3>3. /\ nvme' = nvme /\ cq' = cq /\ ddr' = ddr /\ rchunk' = rchunk /\ downloads' = downloads
      BY <1>10 DEF SendWait, Sent
    <3>4. Serial /\ spc = "result" => rpc = "turn"
      BY DEF IInv, SendInv
    <3> QED
      BY <1>a, <1>b, <2>2, <3>2, <3>3, <3>4 DEF ReadInv, Current, SlotOf, ReaderHolds
  <2>3. "SENDING" \in States /\ "FREE" \in States
    BY DEF States
  <2>4. CASE SendWait
    BY <2>1, <2>2, <2>3, <2>4 DEF SendWait
  <2>5. CASE Sent
    BY <2>1, <2>2, <2>3, <2>5 DEF Sent, SenderFails
  <2> QED
    BY <1>10, <2>4, <2>5
<1>11. CASE SendStart \/ Route \/ Prepare \/ WriteTail \/ Xfer \/ Cleanup
  BY <1>11, <1>c DEF SendStart, Route, Prepare, WriteTail, Xfer, Cleanup, InSend
<1>12. CASE Start
  BY <1>12 DEF Start, ChannelClean, ReadInv, ReaderHolds
<1>13. CASE Stop \/ LoopStep
  BY <1>13, <1>c DEF Stop, LoopStep, Loop, workerVars
<1> QED
  BY <1>1, <1>2, <1>3, <1>4, <1>5, <1>6, <1>7, <1>8, <1>9, <1>10, <1>11, <1>12, <1>13
     DEF Next, Hardware, Worker, Reader, Sender, Parent, Tick, Overdue, LoopStep

LEMMA SendInvStep ==
    ASSUME IInv, ~Reuse, Next
    PROVE  SendInv'
<1> USE DEF SendInv, SenderHolds, ReaderHolds, Nothing, Serial, SlotOf,
            parentVars, readVars, sendVars, pipeVars, nvmeVars, engineVars
<1>a. /\ rchunk \in Nat /\ schunk \in Nat /\ nslots \in Nat \ {0}
      /\ TypeOK /\ SendInv /\ schunk <= rchunk
  BY RingFacts DEF IInv, WindowInv
<1>b. nslots' = nslots
  BY RingConstant
<1>c. ControlOK /\ CountersOK
  BY <1>a DEF TypeOK
<1>1. CASE NvmeCompletes
  BY <1>1, <1>a, <1>b DEF NvmeCompletes
<1>18. CASE Mm2sSends \/ Mm2sFails
  BY <1>18, <1>a, <1>b DEF Mm2sSends, Mm2sFails
<1>2. CASE Boot \/ Finish
  BY <1>2, <1>a, <1>b DEF Boot, Finish
<1>3. CASE Open
  BY <1>3, <1>a, <1>b DEF Open, IInv, ProcessInv
<1>4. CASE ReadHead
  BY <1>4, <1>a, <1>b, <1>c DEF ReadHead, ReaderFails, ControlOK, CountersOK
<1>5. CASE Acquire \/ Bell
  BY <1>5, <1>a, <1>b, <1>c DEF Acquire, Bell, ControlOK
<1>6. CASE Issue
  BY <1>6, <1>a, <1>b, <1>c DEF Issue, ReaderFails, ControlOK, CountersOK
<1>7. CASE Drain
  BY <1>7, <1>a, <1>b, <1>c DEF Drain, ReaderFails, ControlOK, CountersOK
<1>8. CASE Reading
  <2>1. CASE rchunk' = rchunk /\ ReaderFails(-1)
    BY <1>8, <1>a, <1>b, <1>c, <2>1 DEF Reading, ReaderFails, ControlOK, CountersOK
  <2>2. CASE rchunk' = rchunk /\ ReaderFails(-2)
    BY <1>8, <1>a, <1>b, <1>c, <2>2 DEF Reading, ReaderFails, ControlOK, CountersOK
  <2>3. CASE /\ rchunk' = rchunk + 1 /\ UNCHANGED <<spc, error_rc>>
             /\ rpc' = IF Serial THEN "turn" ELSE "head"
    BY <1>8, <1>a, <1>b, <2>3 DEF Reading
  <2> QED
    BY <1>8, <2>1, <2>2, <2>3 DEF Reading
<1>9. CASE SendWait
  <2>1. /\ rpc' = rpc /\ rchunk' = rchunk /\ schunk' = schunk /\ mm2s' = mm2s /\ moving' = moving
        /\ sent' = sent /\ cmplt' = cmplt /\ moving = Nothing /\ spc = "wait"
    BY <1>9, <1>a DEF SendWait
  <2>2. spc' \in {"start", "wait", "done"}
    BY <1>9 DEF SendWait
  <2>3. spc' = "start" => schunk < rchunk /\ (Serial => rpc = "turn")
    <3> SUFFICES ASSUME spc' = "start"
                 PROVE  schunk < rchunk /\ (Serial => rpc = "turn")
      OBVIOUS
    <3>1. /\ slot[SlotOf(schunk)].state = "READY" /\ slot[SlotOf(schunk)].chunk = schunk
          /\ error_rc = 0
      BY <1>9 DEF SendWait
    <3>2. SlotOf(schunk) \in Ring
      BY <1>a, RingFacts
    <3>3. schunk < rchunk
      BY <1>a, <3>1, <3>2 DEF IInv, WindowInv, Filled
    <3>4. Serial => rpc = "turn"
      BY <2>1, <3>3, <1>a
    <3> QED
      BY <3>3, <3>4
  <2>4. producer_done' = producer_done /\ (rpc # "done" /\ error_rc = 0 => error_rc' = 0)
    BY <1>9, <1>a DEF SendWait
  <2> QED
    BY <1>a, <1>b, <2>1, <2>2, <2>3, <2>4
<1>10. CASE SendStart
  <2>1. spc' \in {"result", "route"} /\ (spc' = "result" => send_rc' \in {-1, -2})
    BY <1>10 DEF SendStart
  <2> QED
    BY <1>10, <1>a, <1>b, <2>1 DEF SendStart, InSend
<1>19. CASE Route
  BY <1>19, <1>a, <1>b DEF Route, InSend
<1>11. CASE Prepare
  BY <1>11, <1>a, <1>b, <1>c DEF Prepare, InSend, CannotHalt, ControlOK
<1>12. CASE WriteTail
  BY <1>12, <1>a, <1>b DEF WriteTail, InSend, IInv, SentInv
<1>13. CASE Xfer
  BY <1>13, <1>a, <1>b, <1>c DEF Xfer, InSend, ControlOK
<1>14. CASE Cleanup
  BY <1>14, <1>a, <1>b, <1>c DEF Cleanup, Quiet, CannotHalt, InSend, ControlOK, CountersOK
<1>15. CASE Sent
  <2>1. CASE send_rc = 0
    BY <1>15, <1>a, <1>b, <1>c, <2>1 DEF Sent, ControlOK
  <2>2. CASE send_rc # 0
    BY <1>15, <1>a, <1>b, <1>c, <2>2 DEF Sent, SenderFails, ControlOK, CountersOK
  <2> QED
    BY <2>1, <2>2
<1>16. CASE Start
  BY <1>16, <1>a, <1>b, <1>c DEF Start, ChannelClean, ControlOK
<1>17. CASE Stop \/ LoopStep
  BY <1>17, <1>a, <1>b DEF Stop, LoopStep, Loop, workerVars
<1> QED
  BY <1>1, <1>2, <1>3, <1>4, <1>5, <1>6, <1>7, <1>8, <1>9, <1>10, <1>11, <1>12, <1>13,
     <1>14, <1>15, <1>16, <1>17, <1>18, <1>19
     DEF Next, Hardware, Worker, Reader, Sender, Parent, Tick, Overdue, LoopStep

LEMMA SentStep ==
    ASSUME IInv, ~Reuse, Next
    PROVE  SentInv'
<1> USE DEF SentInv, parentVars, readVars, sendVars, pipeVars, nvmeVars, engineVars
<1>a. /\ rchunk \in Nat /\ schunk \in Nat /\ Len(sent) \in Nat
      /\ ControlOK /\ CountersOK /\ SentInv /\ SendInv
  BY RingFacts DEF IInv, TypeOK, DataOK
<1>1. CASE NvmeCompletes
  BY <1>1, <1>a DEF NvmeCompletes
<1>2. CASE Mm2sSends
  <2>1. Len(sent') = schunk + 1 /\ schunk' = schunk /\ spc' = spc /\ moving' = Nothing
    BY <1>2, <1>a DEF Mm2sSends, SendInv, IInv, TypeOK, DataOK
  <2>2. /\ spc \in {"xfer", "cleanup", "result", "done"} /\ (spc = "done" => error_rc # 0)
        /\ (proc = "exit0" => stop)
    BY <1>2, <1>a DEF Mm2sSends, SendInv
  <2> QED
    BY <1>2, <1>a, <2>1, <2>2 DEF Mm2sSends
<1>3. CASE Mm2sFails
  BY <1>3, <1>a DEF Mm2sFails
<1>4. CASE Boot
  BY <1>4, <1>a DEF Boot
<1>5. CASE Open
  <2>1. /\ spc = "done" /\ error_rc = 0 /\ schunk = 0 /\ Len(sent) = 0 /\ moving = Nothing
    BY <1>5, <1>a DEF Open, IInv, ProcessInv
  <2>2. send_rc = 0
    BY <1>5 DEF Open, IInv, ProcessInv
  <2>3. /\ Len(sent') = Len(sent) /\ schunk' = schunk /\ stop' = stop /\ moving' = moving
        /\ send_rc' = send_rc /\ cmplt' = cmplt
    BY <1>5 DEF Open
  <2>4. spc' \in {"wait", "done"} /\ error_rc' \in {0, -1} /\ (proc' = "exit0" => stop)
    BY <1>5, <2>1 DEF Open, Exit, IInv, ProcessInv
  <2> QED
    BY <2>1, <2>2, <2>3, <2>4
<1>6. CASE Finish
  <2>1. error_rc = -2 => stop
    BY <1>a
  <2>2. error_rc = 0 => moving = Nothing /\ Len(sent) = schunk
    BY <1>6, <1>a DEF Finish, SendInv
  <2> QED
    BY <1>6, <1>a, <2>1, <2>2 DEF Finish, Exit
<1>7. CASE ReadHead
  BY <1>7, <1>a DEF ReadHead, ReaderFails, SendInv, ControlOK, CountersOK
<1>8. CASE Acquire \/ Bell
  BY <1>8, <1>a DEF Acquire, Bell
<1>9. CASE Issue
  BY <1>9, <1>a DEF Issue, ReaderFails, ControlOK, CountersOK
<1>10. CASE Drain
  BY <1>10, <1>a DEF Drain, ReaderFails, ControlOK, CountersOK
<1>11. CASE Reading
  BY <1>11, <1>a DEF Reading, ReaderFails, ControlOK, CountersOK
<1>12. CASE SendWait
  BY <1>12, <1>a DEF SendWait
<1>13. CASE SendStart
  <2>1. \/ spc' = "result" /\ (send_rc' = -1 \/ (send_rc' = -2 /\ stop))
        \/ spc' = "route" /\ send_rc' = send_rc
    BY <1>13 DEF SendStart
  <2>2. spc = "start" /\ UNCHANGED <<sent, schunk, cmplt, moving, error_rc, stop, proc>>
    BY <1>13 DEF SendStart, InSend
  <2> QED
    BY <1>a, <2>1, <2>2
<1>14. CASE Route
  BY <1>14, <1>a DEF Route, InSend
<1>15. CASE Prepare
  <2>1. \/ spc' = "result" /\ send_rc' = -1 /\ moving' = moving
        \/ spc' = "rs" /\ send_rc' = send_rc /\ moving' = Nothing
    BY <1>15 DEF Prepare, CannotHalt
  <2>2. spc = "prepare" /\ ~cmplt' /\ UNCHANGED <<sent, schunk, error_rc, stop, proc>>
    BY <1>15 DEF Prepare, InSend
  <2> QED
    BY <1>a, <2>1, <2>2
<1>16. CASE WriteTail
  <2>1. spc = "rs" /\ ~cmplt /\ UNCHANGED <<sent, schunk, cmplt, error_rc, stop, proc>>
    BY <1>16, <1>a DEF WriteTail, InSend
  <2>2. \/ spc' = "xfer" /\ send_rc' = send_rc
        \/ spc' = "cleanup" /\ send_rc' = -1 /\ moving' = moving
    BY <1>16 DEF WriteTail
  <2>3. proc # "exit0"
    BY <2>1 DEF IInv, ProcessInv
  <2> QED
    BY <1>a, <2>1, <2>2, <2>3
<1>17. CASE Xfer
  BY <1>17, <1>a DEF Xfer, InSend, SendInv
<1>18. CASE Cleanup
  BY <1>18, <1>a DEF Cleanup, Quiet, CannotHalt, InSend, SendInv
<1>19. CASE Sent
  BY <1>19, <1>a DEF Sent, SenderFails, CountersOK
<1>20. CASE Start
  BY <1>20, <1>a DEF Start
<1>21. CASE Stop
  BY <1>21, <1>a DEF Stop
<1>22. CASE LoopStep
  BY <1>22, <1>a DEF LoopStep, Loop, workerVars
<1> QED
  BY <1>1, <1>2, <1>3, <1>4, <1>5, <1>6, <1>7, <1>8, <1>9, <1>10, <1>11, <1>12, <1>13,
     <1>14, <1>15, <1>16, <1>17, <1>18, <1>19, <1>20, <1>21, <1>22
     DEF Next, Hardware, Worker, Reader, Sender, Parent, Tick, Overdue, LoopStep

\* The chunk the engine takes is the next one of the file.
LEMMA ContentStep ==
    ASSUME IInv, ~Reuse, Next
    PROVE  ContentInv'
<1> USE DEF parentVars, readVars, sendVars, pipeVars, nvmeVars, engineVars
<1>a. ContentInv /\ DataOK
  BY DEF IInv, TypeOK
<1>b. ASSUME sent' = sent, downloads' = downloads
      PROVE  ContentInv'
  BY <1>a, <1>b DEF ContentInv
<1>1. CASE NvmeCompletes \/ Mm2sFails
  BY <1>1, <1>b DEF NvmeCompletes, Mm2sFails
<1>2. CASE Mm2sSends
  <2>1. /\ schunk \in Nat /\ rchunk \in Nat /\ schunk < rchunk
        /\ moving = SlotOf(schunk) /\ Len(sent) = schunk
    BY <1>2, RingFacts DEF Mm2sSends, IInv, SendInv
  <2>2. slot[SlotOf(schunk)].state \in Filled /\ slot[SlotOf(schunk)].chunk = schunk
    BY <2>1 DEF IInv, WindowInv
  <2>3. ddr[moving] = <<downloads, schunk>>
    BY <2>1, <2>2, RingFacts DEF IInv, WindowInv
  <2>4. sent \in Seq(Nat \X Nat) /\ sent' = Append(sent, ddr[moving]) /\ downloads' = downloads
    BY <1>2, <1>a DEF Mm2sSends, DataOK
  <2>5. Len(sent') = schunk + 1
    BY <2>1, <2>4
  <2>6. \A i \in 1 .. schunk : sent'[i] = sent[i]
    BY <2>1, <2>4
  <2>7. sent'[schunk + 1] = <<downloads, schunk>>
    BY <2>1, <2>3, <2>4
  <2> QED
    BY <1>a, <2>1, <2>4, <2>5, <2>6, <2>7 DEF ContentInv
<1>3. CASE Worker
  BY <1>3, <1>b DEF Worker, Boot, Open, Finish
<1>4. CASE Reader
  BY <1>4, <1>b DEF Reader, ReadHead, Acquire, Issue, Bell, Drain, Reading
<1>5. CASE Sender
  BY <1>5, <1>b DEF Sender, SendWait, SendStart, Route, Prepare, WriteTail, Xfer, Cleanup, Sent,
                    InSend
<1>6. CASE Start
  BY <1>6 DEF Start, ContentInv
<1>7. CASE Stop \/ LoopStep
  BY <1>7, <1>b DEF Stop, LoopStep, Loop
<1> QED
  BY <1>1, <1>2, <1>3, <1>4, <1>5, <1>6, <1>7
     DEF Next, Hardware, Parent, Tick, Overdue, LoopStep
-----------------------------------------------------------------------------
LEMMA InitIInv == Init => IInv
<1> SUFFICES ASSUME Init PROVE IInv
  OBVIOUS
<1> USE DEF Init
<1>1. nslots \in Nat \ {0}
  BY DownloadAssumption
<1>2. ControlOK
  BY <1>1 DEF ControlOK
<1>3. CountersOK
  BY DownloadAssumption DEF CountersOK
<1>4. DataOK
  BY EmptySeq DEF DataOK, FreshSlots, States, Torn
<1>5. ProcessInv /\ SendInv
  BY DEF ProcessInv, SendInv, SenderHolds, Nothing
<1>6. WindowInv /\ ReadInv
  BY DEF WindowInv, Filled, ReadInv, ReaderHolds, FreshSlots
<1>7. SentInv /\ ContentInv
  BY DEF SentInv, ContentInv
<1> QED
  BY <1>2, <1>3, <1>4, <1>5, <1>6, <1>7 DEF IInv, TypeOK

LEMMA NextIInv == ~Reuse /\ IInv /\ [Next]_vars => IInv'
<1> SUFFICES ASSUME ~Reuse, IInv, [Next]_vars PROVE IInv'
  OBVIOUS
<1>1. CASE Next
  <2>1. TypeOK'
    BY <1>1, ControlStep, CountersStep, DataStep DEF IInv, TypeOK
  <2> QED
    BY <1>1, <2>1, ProcessStep, WindowStep, ReadStep, SendInvStep, SentStep, ContentStep DEF IInv
<1>2. CASE UNCHANGED vars
  <2> USE <1>2 DEF vars, parentVars, readVars, sendVars, pipeVars, nvmeVars, engineVars
  <2>1. ControlOK' /\ CountersOK'
    BY DEF IInv, TypeOK, ControlOK, CountersOK
  <2>2. DataOK'
    BY DEF IInv, TypeOK, DataOK, Ring
  <2>3. ProcessInv' /\ SentInv' /\ ContentInv'
    BY DEF IInv, ProcessInv, SentInv, ContentInv
  <2>4. WindowInv'
    BY DEF IInv, WindowInv, SlotOf, Ring
  <2>5. ReadInv'
    BY DEF IInv, ReadInv, Current, SlotOf
  <2>6. SendInv'
    BY DEF IInv, SendInv, SlotOf, Serial
  <2> QED
    BY <2>1, <2>2, <2>3, <2>4, <2>5, <2>6 DEF IInv, TypeOK
<1> QED
  BY <1>1, <1>2

LEMMA DownloadInvariant ==
    ASSUME ~Reuse
    PROVE  Spec => []IInv
<1>1. IInv /\ [Next]_vars => IInv'
  BY NextIInv
<1> QED
  BY InitIInv, <1>1, PTL DEF Spec

\* What a download sends is a prefix of its file, chunk by chunk, and all of it when
\* the worker ends by itself with success (network_read_thread, network_send_thread,
\* tcp_transfer_send), for every file length, ring size and set of faults.
THEOREM DownloadSendsTheFile ==
    ASSUME ~Reuse
    PROVE  Spec => []SendsTheFile
<1>1. IInv => SendsTheFile
  BY DEF IInv, SentInv, ContentInv, SendsTheFile
<1> QED
  BY DownloadInvariant, <1>1, PTL

\* The drive never writes to the slot the MM2S engine reads, however reader and
\* sender interleave and whichever of them fails first.
THEOREM RingNotOverwritten ==
    ASSUME ~Reuse
    PROVE  Spec => []NoReuseUnderDma
<1>1. IInv => NoReuseUnderDma
  <2> SUFFICES ASSUME IInv, NEW r \in nvme, r.slot = moving
               PROVE  FALSE
    BY DEF NoReuseUnderDma
  <2>1. r.slot = SlotOf(rchunk) /\ slot[SlotOf(rchunk)].state = "READING"
    BY DEF IInv, ReadInv, Current
  <2>2. moving # Nothing
    BY <2>1, RingFacts DEF IInv
  <2>3. moving = SlotOf(schunk) /\ schunk < rchunk /\ schunk \in Nat /\ rchunk \in Nat
    BY <2>2, RingFacts DEF IInv, SendInv
  <2>4. slot[SlotOf(schunk)].state \in Filled
    BY <2>3 DEF IInv, WindowInv
  <2> QED
    BY <2>1, <2>3, <2>4 DEF Filled
<1> QED
  BY DownloadInvariant, <1>1, PTL

\* After 0x71 has been answered SUCCESS no chunk is on its way (excepted are a killed
\* worker and an engine that does not halt).
THEOREM StopEndsSending ==
    ASSUME ~Reuse
    PROVE  Spec => []StopAckEndsSending
<1>1. IInv => StopAckEndsSending
  BY DEF IInv, TypeOK, ControlOK, ProcessInv, SendInv, StopAckEndsSending
<1> QED
  BY DownloadInvariant, <1>1, PTL
=============================================================================
