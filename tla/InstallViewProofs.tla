-------------------------- MODULE InstallViewProofs -------------------------
(***************************************************************************)
(* Proofs about InstallView, for a channel of any capacity and any number  *)
(* of events, whatever keys are pressed and whenever the view ends.        *)
(***************************************************************************)
EXTENDS InstallView, SequenceTheorems, TLAPS

(* The event a blocked Emit holds.                                        *)
Held == IF pipe = "blocked" THEN <<pending>> ELSE <<>>

TypeInv ==
    /\ pipe \in {"running", "blocked", "returned", "closed"}
    /\ pending \in Events
    /\ emitted \in Seq(Events) /\ buf \in Seq(Events) /\ Len(buf) <= Cap
    /\ inbox \in Seq(Events) /\ Len(inbox) <= 1 /\ seen \in Seq(Events)
    /\ view \in {"running", "quit", "killed", "dead"} /\ main \in {"view", "drain", "returned"}
    /\ result \in {"none"} \cup Terminal
    /\ cancelled \in BOOLEAN /\ reading \in BOOLEAN /\ gated \in BOOLEAN /\ key \in BOOLEAN
    /\ finished \in BOOLEAN

(* What is read is handled before the next read; nobody else takes from    *)
(* the channel while the view is up.                                       *)
TurnsInv ==
    /\ reading => inbox = <<>>
    /\ view = "running" => main = "view"
    /\ pipe \in {"returned", "closed"} => Ended
    /\ main = "returned" => pipe \in {"returned", "closed"}
    /\ key => gated
    /\ view = "quit" => ~gated

(* No step of either side puts anything but an event on its way, nor more  *)
(* of them than the channel holds.                                         *)
LEMMA TypeStep == TypeInv /\ [Next]_vars => TypeInv'
<1> SUFFICES ASSUME TypeInv, [Next]_vars PROVE TypeInv'
  OBVIOUS
<1> USE CapAssumption DEF TypeInv
<1>1. CASE \E e \in Events : Emit(e)
  <2>1. PICK e \in Events : Emit(e)
    BY <1>1
  <2>2. emitted' \in Seq(Events)
    BY <2>1 DEF Emit
  <2>3. buf' \in Seq(Events) /\ Len(buf') <= Cap /\ pending' \in Events /\ pipe' \in {"running", "blocked"}
    <3>1. CASE Len(buf) < Cap
      <4>1. buf' = Append(buf, e) /\ pipe' = pipe /\ pending' = pending /\ pipe = "running"
        BY <2>1, <3>1 DEF Emit
      <4> QED BY <3>1, <4>1
    <3>2. CASE ~(Len(buf) < Cap)
      BY <2>1, <3>2 DEF Emit
    <3> QED BY <3>1, <3>2
  <2> QED BY <2>1, <2>2, <2>3 DEF Emit, viewVars
<1>2. CASE Unblock
  <2>1. buf' \in Seq(Events) /\ Len(buf') <= Cap
    BY <1>2 DEF Unblock
  <2> QED BY <1>2, <2>1 DEF Unblock, viewVars
<1>3. CASE RunReturns \/ Close
  BY <1>3 DEF RunReturns, Close, viewVars
<1>4. CASE ReadEvent
  <2>1. Head(buf) \in Events /\ Tail(buf) \in Seq(Events) /\ Len(Tail(buf)) <= Cap
    BY <1>4 DEF ReadEvent
  <2>2. inbox' \in Seq(Events) /\ Len(inbox') <= 1
    BY <1>4, <2>1 DEF ReadEvent
  <2> QED BY <1>4, <2>1, <2>2 DEF ReadEvent, pipeVars
<1>5. CASE HandleEvent
  <2>1. Head(inbox) \in Events
    BY <1>5 DEF HandleEvent
  <2>2. seen' \in Seq(Events) /\ inbox' \in Seq(Events) /\ Len(inbox') <= 1
    BY <1>5, <2>1 DEF HandleEvent
  <2>3. result' \in {"none"} \cup Terminal /\ gated' \in BOOLEAN /\ key' \in BOOLEAN
        /\ finished' \in BOOLEAN /\ reading' \in BOOLEAN
    BY <1>5 DEF HandleEvent
  <2> QED BY <1>5, <2>2, <2>3 DEF HandleEvent, pipeVars
<1>6. CASE Dismiss \/ Acknowledge
  BY <1>6 DEF Dismiss, Acknowledge, pipeVars
<1>7. CASE CtrlC \/ Terminate \/ Die
  BY <1>7 DEF CtrlC, Terminate, Die, pipeVars, viewVars
<1>8. CASE StopView \/ Return
  <2>1. cancelled' \in BOOLEAN
    BY <1>8 DEF StopView, Return, pipeVars
  <2> QED BY <1>8, <2>1 DEF StopView, Return, pipeVars, viewVars
<1>9. CASE Drain
  <2>1. buf' \in Seq(Events) /\ Len(buf') <= Cap
    BY <1>9 DEF Drain
  <2> QED BY <1>9, <2>1 DEF Drain, pipeVars, viewVars
<1>10. CASE UNCHANGED vars
  BY <1>10 DEF vars, pipeVars, viewVars
<1> QED BY <1>1, <1>2, <1>3, <1>4, <1>5, <1>6, <1>7, <1>8, <1>9, <1>10
     DEF Next, Pipeline, Runtime, User, Main

(* The view reads, handles, and reads again; only then does anyone else    *)
(* take from the channel.                                                  *)
LEMMA TurnsStep == TypeInv /\ TurnsInv /\ [Next]_vars => TurnsInv'
<1> SUFFICES ASSUME TypeInv, TurnsInv, [Next]_vars PROVE TurnsInv'
  OBVIOUS
<1>1. CASE \E e \in Events : Emit(e)
  BY <1>1 DEF Emit, viewVars, TurnsInv
<1>2. CASE Unblock \/ RunReturns \/ Close
  BY <1>2 DEF Unblock, RunReturns, Close, viewVars, TurnsInv, Ended
<1>3. CASE ReadEvent
  BY <1>3 DEF ReadEvent, pipeVars, TurnsInv, Ended
<1>4. CASE HandleEvent
  BY <1>4 DEF HandleEvent, pipeVars, TurnsInv, TypeInv, Ended
<1>5. CASE Dismiss \/ CtrlC \/ Acknowledge \/ Terminate \/ Die
  BY <1>5 DEF Dismiss, CtrlC, Acknowledge, Terminate, Die, pipeVars, viewVars, TurnsInv, Ended
<1>6. CASE StopView \/ Drain \/ Return
  BY <1>6 DEF StopView, Drain, Return, pipeVars, viewVars, TurnsInv, Ended
<1>7. CASE UNCHANGED vars
  BY <1>7 DEF vars, pipeVars, viewVars, TurnsInv, Ended
<1> QED BY <1>1, <1>2, <1>3, <1>4, <1>5, <1>6, <1>7 DEF Next, Pipeline, Runtime, User, Main

-----------------------------------------------------------------------------
(* Initially the channel is empty and a read is in progress.               *)
LEMMA TypeInit == Init => TypeInv /\ TurnsInv
<1> SUFFICES ASSUME Init PROVE TypeInv /\ TurnsInv
  OBVIOUS
<1>1. TypeInv
  <2>1. <<>> \in Seq(Events) /\ Len(<<>>) = 0
    OBVIOUS
  <2>2. Cap \in Nat /\ "body" \in Events
    BY CapAssumption DEF Events
  <2>3. /\ pipe = "running" /\ pending = "body" /\ emitted = <<>> /\ buf = <<>> /\ inbox = <<>>
        /\ seen = <<>> /\ view = "running" /\ main = "view" /\ result = "none"
    BY DEF Init
  <2>4. cancelled = FALSE /\ reading = TRUE /\ gated = FALSE /\ key = FALSE /\ finished = FALSE
    BY DEF Init
  <2>5. /\ cancelled \in BOOLEAN /\ reading \in BOOLEAN /\ gated \in BOOLEAN
        /\ key \in BOOLEAN /\ finished \in BOOLEAN
    BY <2>4
  <2>6. /\ emitted \in Seq(Events) /\ buf \in Seq(Events) /\ inbox \in Seq(Events)
        /\ seen \in Seq(Events) /\ pending \in Events
    BY <2>1, <2>2, <2>3
  <2>7. Len(buf) <= Cap /\ Len(inbox) <= 1
    <3>1. Len(buf) = 0 /\ Len(inbox) = 0
      BY <2>1, <2>3
    <3> QED BY <2>2, <3>1
  <2> QED BY <2>3, <2>5, <2>6, <2>7 DEF TypeInv
<1>2. TurnsInv
  BY DEF Init, TurnsInv
<1> QED BY <1>1, <1>2

(* The events on their way, behind a prefix of those emitted.              *)
LEMMA Onwards ==
    ASSUME NEW p \in Seq(Events), NEW b \in Seq(Events), NEW e \in Events
    PROVE  /\ p \o Append(b, e) = Append(p \o b, e)
           /\ (p \o b) \o <<e>> = Append(p \o b, e)
           /\ p \o b \in Seq(Events) /\ Append(p \o b, e) \in Seq(Events)
<1>1. <<e>> \in Seq(Events) /\ p \o b \in Seq(Events)
  BY ConcatProperties
<1>2. Append(b, e) = b \o <<e>> /\ Append(p \o b, e) = (p \o b) \o <<e>>
  BY <1>1, AppendIsConcat
<1>3. (p \o b) \o <<e>> = p \o (b \o <<e>>)
  BY <1>1, ConcatAssociative
<1> QED BY <1>1, <1>2, <1>3

(* While the view is up, every step keeps what was handled, read,          *)
(* buffered and held by a blocked Emit in the order emitted.               *)
LEMMA StreamStep == TypeInv /\ TurnsInv /\ NothingLost /\ [Next]_vars => NothingLost'
<1> SUFFICES ASSUME TypeInv, TurnsInv, NothingLost, [Next]_vars, view' = "running" PROVE NothingLost'
  BY DEF NothingLost
<1> DEFINE p == seen \o inbox
<1>0. view = "running" /\ main = "view"
  BY DEF Next, Pipeline, Runtime, User, Main, Emit, Unblock, RunReturns, Close, ReadEvent, HandleEvent,
         Dismiss, CtrlC, Acknowledge, Terminate, Die, StopView, Drain, Return, vars, viewVars, TurnsInv
<1>p. /\ p \in Seq(Events) /\ buf \in Seq(Events) /\ inbox \in Seq(Events) /\ seen \in Seq(Events)
      /\ emitted \in Seq(Events) /\ p \o buf \in Seq(Events) /\ pending \in Events
  BY ConcatProperties DEF TypeInv
<1>s. (p \o buf) \o Held = emitted
  BY <1>0 DEF NothingLost, Held
<1> SUFFICES (p' \o buf') \o Held' = emitted'
  BY DEF NothingLost, Held
<1>1. CASE \E e \in Events : Emit(e)
  <2>1. PICK e \in Events : Emit(e)
    BY <1>1
  <2>2. /\ seen' = seen /\ inbox' = inbox /\ pipe = "running" /\ Held = <<>>
        /\ emitted' = Append(emitted, e)
    BY <2>1 DEF Emit, viewVars, Held
  <2>3. emitted = p \o buf
    BY <1>p, <1>s, <2>2, ConcatEmptySeq
  <2>4. CASE Len(buf) < Cap
    <3>1. buf' = Append(buf, e) /\ Held' = <<>>
      BY <2>1, <2>2, <2>4 DEF Emit, Held
    <3>2. p \o buf' = Append(emitted, e) /\ p \o buf' \in Seq(Events)
      BY <1>p, <2>3, <3>1, Onwards
    <3> QED BY <2>2, <3>1, <3>2, ConcatEmptySeq
  <2>5. CASE ~(Len(buf) < Cap)
    <3>1. buf' = buf /\ Held' = <<e>>
      BY <2>1, <2>5 DEF Emit, Held
    <3> QED BY <1>p, <2>2, <2>3, <3>1, Onwards
  <2> QED BY <2>4, <2>5
<1>2. CASE Unblock
  <2>1. /\ seen' = seen /\ inbox' = inbox /\ emitted' = emitted /\ buf' = Append(buf, pending)
        /\ Held = <<pending>> /\ Held' = <<>>
    BY <1>2 DEF Unblock, viewVars, Held
  <2>2. p \o buf' = emitted
    <3>1. p \o Append(buf, pending) = (p \o buf) \o <<pending>>
      BY <1>p, Onwards
    <3> QED BY <1>s, <2>1, <3>1
  <2> QED BY <1>p, <2>1, <2>2, ConcatEmptySeq
<1>3. CASE ReadEvent
  <2>1. /\ seen' = seen /\ emitted' = emitted /\ Held' = Held /\ inbox = <<>>
        /\ buf # <<>> /\ buf' = Tail(buf) /\ inbox' = <<Head(buf)>>
    BY <1>0, <1>3 DEF ReadEvent, pipeVars, TurnsInv, Held
  <2>2. Head(buf) \in Events /\ Tail(buf) \in Seq(Events) /\ <<Head(buf)>> \in Seq(Events)
    BY <1>p, <2>1, HeadTailProperties
  <2>3. buf = <<Head(buf)>> \o Tail(buf)
    BY <1>p, <2>1, <2>2
  <2>4. p = seen
    BY <1>p, <2>1, ConcatEmptySeq
  <2>5. p' \o buf' = p \o buf
    BY <1>p, <2>1, <2>2, <2>3, <2>4, ConcatAssociative
  <2> QED BY <1>s, <2>1, <2>5
<1>4. CASE HandleEvent
  <2>1. /\ emitted' = emitted /\ Held' = Held /\ buf' = buf /\ inbox' = <<>>
        /\ inbox # <<>> /\ seen' = Append(seen, Head(inbox))
    BY <1>4 DEF HandleEvent, pipeVars, Held
  <2>2. inbox = <<Head(inbox)>> /\ Head(inbox) \in Events
    <3>0. Len(inbox) <= 1
      BY DEF TypeInv
    <3>4. Len(inbox) \in Nat /\ Len(inbox) # 0
      BY <1>p, <2>1, EmptySeq
    <3>5. Head(inbox) = inbox[1] /\ Head(inbox) \in Events
      BY <1>p, <2>1, HeadTailProperties
    <3>6. Len(inbox) = 1
      <4> HIDE DEF p
      <4>1. \A n \in Nat : n <= 1 /\ n # 0 => n = 1
        OBVIOUS
      <4> QED BY <3>0, <3>4, <4>1
    <3>1. Len(inbox) = 1 /\ Head(inbox) = inbox[1] /\ Head(inbox) \in Events
      BY <3>5, <3>6, Zenon
    <3>2. <<Head(inbox)>> \in Seq(Events) /\ Len(<<Head(inbox)>>) = 1 /\ <<Head(inbox)>>[1] = Head(inbox)
      BY <3>1
    <3>3. \A i \in 1..Len(inbox) : inbox[i] = <<Head(inbox)>>[i]
      BY <3>1, <3>2
    <3> QED BY <1>p, <3>1, <3>2, <3>3, SeqEqual
  <2>3. seen' = seen \o inbox /\ seen' \in Seq(Events)
    BY <1>p, <2>1, <2>2, AppendIsConcat
  <2>4. p' = p
    BY <2>1, <2>3, ConcatEmptySeq
  <2> QED BY <1>s, <2>1, <2>4
<1>5. CASE RunReturns \/ Close \/ Dismiss \/ CtrlC \/ Acknowledge \/ Terminate \/ Die
           \/ StopView \/ Drain \/ Return \/ UNCHANGED vars
  <2>1. seen' = seen /\ inbox' = inbox /\ emitted' = emitted /\ buf' = buf
    BY <1>0, <1>5 DEF RunReturns, Close, Dismiss, CtrlC, Acknowledge, Terminate, Die, StopView, Drain,
                      Return, vars, pipeVars, viewVars
  <2>2. Held' = Held
    BY <1>5 DEF RunReturns, Close, Dismiss, CtrlC, Acknowledge, Terminate, Die, StopView, Drain,
                Return, vars, pipeVars, Held
  <2> QED BY <1>s, <2>1, <2>2
<1> QED BY <1>1, <1>2, <1>3, <1>4, <1>5 DEF Next, Pipeline, Runtime, User, Main

-----------------------------------------------------------------------------
(* A terminal event, wherever it is on its way, is the last one emitted.   *)
OnItsWay(e) ==
    \/ \E i \in DOMAIN buf : buf[i] = e
    \/ \E i \in DOMAIN inbox : inbox[i] = e
    \/ pipe = "blocked" /\ pending = e
    \/ result = e

VerdictInv ==
    /\ \A e \in Terminal : OnItsWay(e) => Ended /\ emitted[Len(emitted)] = e
    /\ finished => result \in Terminal

(* Nothing is emitted behind a terminal event, so that the verdict         *)
(* learned is that of the pipeline.                                        *)
LEMMA VerdictStep == TypeInv /\ VerdictInv /\ [Next]_vars => VerdictInv'
<1> SUFFICES ASSUME TypeInv, VerdictInv, [Next]_vars PROVE VerdictInv'
  OBVIOUS
<1>1. CASE \E e \in Events : Emit(e)
  <2>1. PICK e \in Events : Emit(e)
    BY <1>1
  <2>2. /\ ~Ended /\ emitted' = Append(emitted, e) /\ inbox' = inbox /\ result' = result
        /\ finished' = finished
    BY <2>1 DEF Emit, viewVars
  <2>3. \A t \in Terminal : ~OnItsWay(t)
    BY <2>2 DEF VerdictInv
  <2>4. emitted' # <<>> /\ emitted'[Len(emitted')] = e
    BY <2>2 DEF TypeInv
  <2>5. \A t \in Terminal : OnItsWay(t)' => t = e
    <3>1. CASE Len(buf) < Cap
      <4>1. buf' = Append(buf, e) /\ pipe' = "running"
        BY <2>1, <3>1 DEF Emit
      <4>2. \A i \in DOMAIN buf' : buf'[i] = e \/ (i \in DOMAIN buf /\ buf'[i] = buf[i])
        BY <4>1 DEF TypeInv
      <4> QED BY <2>2, <2>3, <4>1, <4>2 DEF OnItsWay
    <3>2. CASE ~(Len(buf) < Cap)
      <4>1. buf' = buf /\ pending' = e
        BY <2>1, <3>2 DEF Emit
      <4> QED BY <2>2, <2>3, <4>1 DEF OnItsWay
    <3> QED BY <3>1, <3>2
  <2>6. \A t \in Terminal : OnItsWay(t)' => Ended' /\ emitted'[Len(emitted')] = t
    BY <2>4, <2>5 DEF Ended
  <2> QED BY <2>2, <2>6 DEF VerdictInv
<1>2. CASE HandleEvent
  <2>1. /\ inbox # <<>> /\ inbox' = <<>> /\ buf' = buf /\ pipe' = pipe /\ pending' = pending
        /\ emitted' = emitted
        /\ result' = (IF Head(inbox) \in Terminal THEN Head(inbox) ELSE result)
        /\ finished' = (Head(inbox) \in Terminal)
    BY <1>2 DEF HandleEvent, pipeVars
  <2>2. 1 \in DOMAIN inbox /\ Head(inbox) = inbox[1] /\ DOMAIN inbox' = {}
    BY <2>1 DEF TypeInv
  <2>3. \A t \in Terminal : OnItsWay(t)' => OnItsWay(t)
    BY <2>1, <2>2 DEF OnItsWay
  <2>4. finished' => result' \in Terminal
    BY <2>1
  <2> QED BY <2>1, <2>3, <2>4 DEF VerdictInv, Ended
<1>3. CASE Unblock
  <2>1. /\ buf' = Append(buf, pending) /\ pipe = "blocked" /\ pipe' = "running" /\ emitted' = emitted
        /\ inbox' = inbox /\ result' = result /\ finished' = finished
    BY <1>3 DEF Unblock, viewVars
  <2>2. \A i \in DOMAIN buf' : buf'[i] = pending \/ (i \in DOMAIN buf /\ buf'[i] = buf[i])
    BY <2>1 DEF TypeInv
  <2>3. \A t \in Terminal : OnItsWay(t)' => OnItsWay(t)
    BY <2>1, <2>2 DEF OnItsWay
  <2> QED BY <2>1, <2>3 DEF VerdictInv, Ended
<1>4. CASE ReadEvent \/ Drain
  <2>1. /\ buf # <<>> /\ buf' = Tail(buf) /\ inbox' \in {inbox, <<>>, <<Head(buf)>>}
        /\ pipe' = pipe /\ pending' = pending /\ emitted' = emitted
        /\ result' = result /\ finished' = finished
    BY <1>4 DEF ReadEvent, Drain, pipeVars, viewVars
  <2>2. /\ Head(buf) = buf[1] /\ 1 \in DOMAIN buf
        /\ \A i \in DOMAIN buf' : i + 1 \in DOMAIN buf /\ buf'[i] = buf[i + 1]
    BY <2>1 DEF TypeInv
  <2>3. \A i \in DOMAIN inbox' : inbox'[i] = Head(buf) \/ (i \in DOMAIN inbox /\ inbox'[i] = inbox[i])
    BY <2>1
  <2>4. \A t \in Terminal : OnItsWay(t)' => OnItsWay(t)
    BY <2>1, <2>2, <2>3 DEF OnItsWay
  <2> QED BY <2>1, <2>4 DEF VerdictInv, Ended
<1>5. CASE RunReturns \/ Close \/ Dismiss \/ CtrlC \/ Acknowledge \/ Terminate \/ Die
           \/ StopView \/ Return \/ UNCHANGED vars
  <2>1. /\ buf' = buf /\ inbox' = inbox /\ emitted' = emitted /\ result' = result
        /\ finished' = finished /\ pending' = pending
    BY <1>5 DEF RunReturns, Close, Dismiss, CtrlC, Acknowledge, Terminate, Die, StopView,
                Return, vars, pipeVars, viewVars
  <2>2. pipe' = "blocked" => pipe = "blocked"
    BY <1>5 DEF RunReturns, Close, Dismiss, CtrlC, Acknowledge, Terminate, Die, StopView,
                Return, vars, pipeVars
  <2>3. \A t \in Terminal : OnItsWay(t)' => OnItsWay(t)
    BY <2>1, <2>2 DEF OnItsWay
  <2> QED BY <2>1, <2>3 DEF VerdictInv, Ended
<1> QED BY <1>1, <1>2, <1>3, <1>4, <1>5 DEF Next, Pipeline, Runtime, User, Main

-----------------------------------------------------------------------------
(* Both invariants hold throughout.                                        *)
LEMMA AlwaysTyped == Spec => [](TypeInv /\ TurnsInv)
BY TypeInit, TypeStep, TurnsStep, PTL DEF Spec

(* The type invariant.                                                     *)
THEOREM TypeCorrect == Spec => []TypeOK
<1>1. TypeInv => TypeOK
  BY DEF TypeInv, TypeOK
<1> QED BY <1>1, AlwaysTyped, PTL

(* For a channel of any capacity: while the view is up, what it has        *)
(* handled and what is on its way are the events emitted, in order.        *)
THEOREM StreamIsWhole == Spec => []NothingLost
<1>1. Init => NothingLost
  BY ConcatEmptySeq DEF Init, NothingLost
<1> QED BY <1>1, StreamStep, AlwaysTyped, PTL DEF Spec

(* However the view ends, the command returns only behind the pipeline,    *)
(* and reports the verdict of that pipeline.                               *)
THEOREM VerdictIsReported == Spec => []ReportIsTrue
<1>1. Init => VerdictInv
  BY DEF Init, VerdictInv, OnItsWay, Terminal
<1>2. Spec => []VerdictInv
  BY <1>1, VerdictStep, AlwaysTyped, PTL DEF Spec
<1>3. TypeInv /\ TurnsInv /\ VerdictInv => ReportIsTrue
  BY DEF TypeInv, TurnsInv, VerdictInv, ReportIsTrue, ReportsSuccess, OnItsWay, Terminal
<1> QED BY <1>2, <1>3, AlwaysTyped, PTL

(* No user leaves the view over a recovery key, nor with one in the        *)
(* result.                                                                 *)
THEOREM KeyIsRead == Spec => []KeyIsAcknowledged
<1>1. TurnsInv => KeyIsAcknowledged
  BY DEF TurnsInv, KeyIsAcknowledged
<1> QED BY <1>1, AlwaysTyped, PTL
=============================================================================
