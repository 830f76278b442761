-------------------------- MODULE EventStreamProofs -------------------------
(***************************************************************************)
(* Theorems of EventStream, for every length of the journal and every       *)
(* number of changes and faults.                                            *)
(***************************************************************************)
EXTENDS EventStream, TLAPS

-----------------------------------------------------------------------------
(* Type correctness, with what it needs: neither the stream nor the due      *)
(* steps are ahead of the journal.                                          *)

Typed == TypeOK /\ srv.seq <= task.steps /\ task.due <= task.steps

LEMMA InitType == Init => Typed
<1> SUFFICES ASSUME Init PROVE Typed
  OBVIOUS
<1>1. task \in TaskRow /\ task.due <= task.steps /\ task.steps = 0
  BY StreamAssumption DEF Init, TaskRow, Statuses, OpenStatuses
<1>2. srv \in Stream /\ srv.seq = 0
  BY StreamAssumption DEF Init, NoStream, Stream
<1>3. page \in Page
  BY StreamAssumption DEF Init, NewPage, Page
<1>4. fetch \in Request /\ faults \in 0..MaxFaults /\ wire \in Seq(Frames)
  BY StreamAssumption DEF Init, Asked, NoFetch, Request
<1>5. QED
  BY <1>1, <1>2, <1>3, <1>4 DEF Typed, TypeOK

LEMMA UnsentType ==
  ASSUME Typed
  PROVE  /\ Unsent \in Seq(Frames)
         /\ srv.seq + Len(Unsent) \in 0..task.steps
<1>1. task.steps - srv.seq \in Nat /\ task.steps \in 0..MaxSteps /\ srv.seq \in 0..MaxSteps
  BY StreamAssumption DEF Typed, TypeOK, TaskRow, Stream
<1>2. CASE task.status = "gone"
  BY <1>1, <1>2 DEF Unsent
<1>3. CASE task.status # "gone"
  <2>1. \A i \in 1..(task.steps - srv.seq) : Frame("step", srv.seq + i) \in Frames
    BY <1>1, StreamAssumption DEF Frames, Frame
  <2>2. QED
    BY <1>1, <1>3, <2>1 DEF Unsent
<1>4. QED
  BY <1>2, <1>3

LEMMA NotifyType ==
  ASSUME srv \in Stream, Notify
  PROVE  srv' \in Stream /\ srv' = [srv EXCEPT !.wakes = srv'.wakes]
BY DEF Notify, Stream

LEMMA TaskType == ASSUME Typed, TaskNext PROVE Typed'
<1> USE DEF Typed, TypeOK
<1>1. CASE RecordStep
  <2>1. task' \in TaskRow /\ task'.steps = task.steps + 1 /\ task'.due = task.due
    BY <1>1, StreamAssumption DEF RecordStep, TaskRow
  <2>2. srv' \in Stream /\ srv'.seq = srv.seq
    BY <1>1, NotifyType DEF RecordStep, Stream
  <2>3. QED
    BY <1>1, <2>1, <2>2 DEF RecordStep, TaskRow, Stream
<1>2. CASE ChangeStatus
  <2>1. PICK to \in Goes(task.status) :
          task' = [task EXCEPT !.status = to, !.changes = @ + 1, !.due = task.steps]
    BY <1>2 DEF ChangeStatus
  <2>2. to \in Statuses
    BY <2>1 DEF Goes, Statuses, OpenStatuses, FinalStatuses
  <2>3. task' \in TaskRow /\ task'.steps = task.steps /\ task'.due = task.steps
    <3>1. task.changes + 1 \in 0..MaxChanges /\ task.steps \in 0..MaxSteps /\ task \in TaskRow
      BY <1>2, StreamAssumption DEF ChangeStatus, TaskRow
    <3>2. QED
      BY <2>1, <2>2, <3>1 DEF TaskRow
  <2>4. srv' \in Stream /\ srv'.seq = srv.seq
    BY <1>2, NotifyType DEF ChangeStatus, Stream
  <2>5. QED
    BY <1>2, <2>3, <2>4 DEF ChangeStatus, TaskRow, Stream
<1>3. CASE Delete
  BY <1>3 DEF Delete, TaskRow, Statuses
<1>4. QED
  BY <1>1, <1>2, <1>3 DEF TaskNext

LEMMA NoStreamType == NoStream \in Stream /\ NoStream.seq = 0
BY StreamAssumption DEF NoStream, Stream

LEMMA StreamUpdate ==
  ASSUME srv \in Stream
  PROVE  /\ srv.wakes > 0 => [srv EXCEPT !.pc = "steps", !.wakes = @ - 1] \in Stream
         /\ [srv EXCEPT !.pc = "wait", !.wakes = 1] \in Stream
         /\ [srv EXCEPT !.deaf = TRUE] \in Stream
         /\ [NoStream EXCEPT !.pc = "asked"] \in Stream
<1>1. ASSUME srv.wakes > 0 PROVE [srv EXCEPT !.pc = "steps", !.wakes = @ - 1] \in Stream
  <2>1. srv.wakes - 1 \in Nat
    BY <1>1 DEF Stream
  <2>2. QED
    BY <2>1 DEF Stream
<1>2. [srv EXCEPT !.pc = "wait", !.wakes = 1] \in Stream
  BY DEF Stream
<1>3. [srv EXCEPT !.deaf = TRUE] \in Stream
  BY DEF Stream
<1>4. [NoStream EXCEPT !.pc = "asked"] \in Stream
  BY NoStreamType DEF Stream
<1>5. QED
  BY <1>1, <1>2, <1>3, <1>4

LEMMA PageUpdate ==
  ASSUME page \in Page
  PROVE  /\ [page EXCEPT !.conn = "open", !.live = TRUE] \in Page
         /\ [page EXCEPT !.conn = "ended", !.live = FALSE] \in Page
         /\ [page EXCEPT !.sawDone = TRUE, !.live = FALSE] \in Page
         /\ \A s \in Statuses : [page EXCEPT !.status = s] \in Page
         /\ \A n \in 1..MaxSteps : [page EXCEPT !.steps = @ \cup {n}] \in Page
<1>1. [page EXCEPT !.conn = "open", !.live = TRUE] \in Page
  BY DEF Page
<1>2. [page EXCEPT !.conn = "ended", !.live = FALSE] \in Page
  BY DEF Page
<1>3. [page EXCEPT !.sawDone = TRUE, !.live = FALSE] \in Page
  BY DEF Page
<1>4. \A s \in Statuses : [page EXCEPT !.status = s] \in Page
  BY DEF Page
<1>5. \A n \in 1..MaxSteps : [page EXCEPT !.steps = @ \cup {n}] \in Page
  BY DEF Page
<1>6. QED
  BY <1>1, <1>2, <1>3, <1>4, <1>5

LEMMA FramesType ==
  /\ Closed \in Frames /\ Frame("done", 0) \in Frames /\ Frame("error", 0) \in Frames
  /\ \A s \in Statuses : Frame("status", s) \in Frames
BY DEF Frames

LEMMA SrvType == ASSUME Typed, SrvNext PROVE Typed'
<1> USE DEF Typed, TypeOK
<1>u. Unsent \in Seq(Frames) /\ srv.seq + Len(Unsent) \in 0..task.steps
  BY UnsentType
<1>t. /\ task.steps \in 0..MaxSteps /\ task.status \in Statuses
      /\ srv.seq \in 0..MaxSteps /\ srv \in Stream
  BY DEF TaskRow, Stream
<1>w. /\ srv.wakes > 0 => [srv EXCEPT !.pc = "steps", !.wakes = @ - 1] \in Stream
      /\ [srv EXCEPT !.pc = "wait", !.wakes = 1] \in Stream
  BY StreamUpdate
<1>1. CASE SrvCheck
  <2>1. CASE task.status = "gone"
    BY <1>1, <1>t, <2>1, NoStreamType, FramesType DEF SrvCheck
  <2>2. CASE task.status # "gone"
    <3>1. srv' \in Stream /\ srv'.seq = srv.seq
      BY <1>1, <1>t, <2>2 DEF SrvCheck, Stream
    <3>2. QED
      BY <1>1, <2>2, <3>1 DEF SrvCheck
  <2>3. QED
    BY <2>1, <2>2
<1>2. CASE SrvSteps
  <2>1. PICK pc \in {"snapshot", "task"}, n \in 0..task.steps :
          srv' = [srv EXCEPT !.pc = pc, !.seq = n]
    <3>1. (IF srv.pc = "backlog" THEN "snapshot" ELSE "task") \in {"snapshot", "task"}
      OBVIOUS
    <3>2. QED
      BY <1>2, <1>u, <3>1 DEF SrvSteps
  <2>2. n \in 0..MaxSteps
    BY <1>t, StreamAssumption
  <2>3. srv' \in Stream /\ srv'.seq = n
    BY <1>t, <2>1, <2>2 DEF Stream
  <2>4. wire' \in Seq(Frames)
    BY <1>2, <1>u DEF SrvSteps
  <2>5. QED
    BY <1>2, <1>t, <2>3, <2>4 DEF SrvSteps
<1>3. CASE SrvTask
  <2>1. srv' \in Stream /\ srv'.seq = srv.seq
    <3>1. CASE task.status \notin OpenStatuses
      <4>1. srv' = [NoStream EXCEPT !.seq = srv.seq, !.last = task.status]
        BY <1>3, <3>1 DEF SrvTask
      <4>2. QED
        BY <1>t, <4>1, NoStreamType DEF Stream
    <3>2. CASE task.status \in OpenStatuses
      <4>1. PICK pc \in {"listen", "wait"} : srv' = [srv EXCEPT !.pc = pc, !.last = task.status]
        <5>1. (IF srv.pc = "snapshot" THEN "listen" ELSE "wait") \in {"listen", "wait"}
          OBVIOUS
        <5>2. QED
          BY <1>3, <3>2, <5>1 DEF SrvTask
      <4>2. QED
        BY <1>t, <4>1 DEF Stream
    <3>3. QED
      BY <3>1, <3>2
  <2>2. wire' \in Seq(Frames)
    <3>1. <<Frame("status", task.status), Frame("done", 0), Closed>> \in Seq(Frames)
      BY <1>t, FramesType
    <3>2. Append(wire, Frame("status", task.status)) \in Seq(Frames)
      BY <1>t, FramesType
    <3>3. wire \in Seq(Frames) /\ wire \o <<Frame("status", task.status), Frame("done", 0), Closed>> \in Seq(Frames)
      BY <3>1
    <3>4. QED
      BY <1>3, <3>2, <3>3 DEF SrvTask
  <2>3. QED
    BY <1>3, <2>1, <2>2 DEF SrvTask
<1>4. CASE SrvListen
  <2>1. srv' \in Stream /\ srv'.seq = srv.seq
    BY <1>4, <1>w DEF SrvListen
  <2>2. QED
    BY <1>4, <2>1 DEF SrvListen
<1>5. CASE SrvGet
  <2>1. srv' \in Stream /\ srv'.seq = srv.seq
    BY <1>5, <1>w DEF SrvGet
  <2>2. QED
    BY <1>5, <2>1 DEF SrvGet
<1>6. QED
  BY <1>1, <1>2, <1>3, <1>4, <1>5 DEF SrvNext

LEMMA FaultType == ASSUME Typed, FaultNext PROVE Typed'
<1> USE DEF Typed, TypeOK
<1>0. task.steps \in Nat
  BY DEF TaskRow
<1>w. [srv EXCEPT !.deaf = TRUE] \in Stream
  BY StreamUpdate
<1>1. CASE SrvFail
  <2>1. <<Frame("error", 0), Closed>> \in Seq(Frames)
    BY FramesType
  <2>2. wire' \in Seq(Frames) /\ faults' \in 0..MaxFaults
    BY <1>1, <2>1, StreamAssumption DEF SrvFail, Fault
  <2>3. QED
    BY <1>0, <1>1, <2>2, NoStreamType DEF SrvFail
<1>2. CASE Deafen
  <2>1. srv' \in Stream /\ srv'.seq = srv.seq
    BY <1>2, <1>w DEF Deafen
  <2>3. faults' \in 0..MaxFaults
    BY <1>2, StreamAssumption DEF Deafen, Fault
  <2>2. QED
    BY <1>2, <2>1, <2>3 DEF Deafen
<1>3. CASE Break
  <2>1. PICK k \in 0..Len(wire) : wire' = Append(SubSeq(wire, 1, k), Closed)
    BY <1>3 DEF Break
  <2>2. SubSeq(wire, 1, k) \in Seq(Frames) /\ Closed \in Frames
    BY <2>1, FramesType
  <2>3. wire' \in Seq(Frames) /\ faults' \in 0..MaxFaults
    BY <1>3, <2>1, <2>2, StreamAssumption DEF Break, Fault
  <2>4. QED
    BY <1>0, <1>3, <2>3, NoStreamType DEF Break
<1>4. CASE FetchFail
  BY <1>4, StreamAssumption DEF FetchFail, NoFetch, Request, Fault
<1>5. CASE Reload
  <2>1. page' \in Page /\ faults' \in 0..MaxFaults
    BY <1>5, StreamAssumption DEF Reload, NewPage, Page, Fault
  <2>2. fetch' \in Request
    BY <1>5 DEF Reload, Asked, NoFetch, Request
  <2>3. QED
    BY <1>0, <1>5, <2>1, <2>2, NoStreamType DEF Reload
<1>6. QED
  BY <1>1, <1>2, <1>3, <1>4, <1>5 DEF FaultNext

LEMMA FetchType ==
  ASSUME Typed, FetchNext \/ Poll \/ Focus
  PROVE  Typed'
<1> USE DEF Typed, TypeOK
<1>1. CASE FetchTask
  <2>1. fetch' \in Request
    BY <1>1 DEF FetchTask, Request, TaskRow
  <2>2. QED
    BY <1>1, <2>1 DEF FetchTask
<1>2. CASE FetchSteps
  <2>1. fetch' \in Request
    BY <1>2 DEF FetchSteps, NoFetch, Request
  <2>2. page' \in Page
    <3>1. fetch.status # "gone" => fetch.status \in OpenStatuses \cup FinalStatuses \cup {"none"}
      BY DEF Request, Statuses
    <3>2. (IF task.status = "gone" THEN 0 ELSE task.steps) \in 0..MaxSteps
      BY StreamAssumption DEF TaskRow
    <3>3. QED
      BY <1>2, <3>1, <3>2 DEF FetchSteps, Page
  <2>3. QED
    BY <1>2, <2>1, <2>2 DEF FetchSteps
<1>3. CASE Poll \/ Focus
  <2>1. fetch' \in Request
    BY <1>3 DEF Poll, Focus, Asked, NoFetch, Request
  <2>2. QED
    BY <1>3, <2>1 DEF Poll, Focus
<1>4. QED
  BY <1>1, <1>2, <1>3 DEF FetchNext

LEMMA HookType == ASSUME Typed, OpenStream \/ Abort \/ Receive PROVE Typed'
<1> USE DEF Typed, TypeOK
<1>0. task.steps \in Nat
  BY DEF TaskRow
<1>w. [NoStream EXCEPT !.pc = "asked"] \in Stream
  BY StreamUpdate
<1>p. /\ [page EXCEPT !.conn = "open", !.live = TRUE] \in Page
      /\ [page EXCEPT !.conn = "ended", !.live = FALSE] \in Page
      /\ [page EXCEPT !.sawDone = TRUE, !.live = FALSE] \in Page
      /\ \A s \in Statuses : [page EXCEPT !.status = s] \in Page
      /\ \A n \in 1..MaxSteps : [page EXCEPT !.steps = @ \cup {n}] \in Page
  BY PageUpdate
<1>1. CASE OpenStream
  <2>1. page' \in Page
    BY <1>1, <1>p DEF OpenStream
  <2>2. srv' \in Stream /\ srv'.seq = 0
    BY <1>1, <1>w DEF OpenStream, NoStream
  <2>3. QED
    BY <1>0, <1>1, <2>1, <2>2 DEF OpenStream
<1>2. CASE Abort
  <2>1. page' \in Page
    BY <1>2 DEF Abort, Page
  <2>2. QED
    BY <1>0, <1>2, <2>1, NoStreamType DEF Abort
<1>3. CASE Receive
  <2>1. Head(wire) \in Frames /\ Tail(wire) \in Seq(Frames)
    BY <1>3 DEF Receive
  <2>2. fetch' \in Request
    BY <1>3 DEF Receive, Asked, NoFetch, Request
  <2>3. page' \in Page
    <3>1. CASE \E n \in 1..MaxSteps : Head(wire) = Frame("step", n)
      BY <1>3, <1>p, <3>1 DEF Receive, Frame
    <3>2. CASE \E s \in Statuses : Head(wire) = Frame("status", s)
      BY <1>3, <1>p, <3>2 DEF Receive, Frame
    <3>3. CASE Head(wire) \in {Frame("done", 0), Frame("error", 0), Closed}
      BY <1>3, <1>p, <3>3 DEF Receive, Frame, Closed
    <3>4. QED
      BY <2>1, <3>1, <3>2, <3>3 DEF Frames
  <2>4. QED
    BY <1>3, <2>1, <2>2, <2>3 DEF Receive
<1>4. QED
  BY <1>1, <1>2, <1>3

LEMMA StepType == ASSUME Typed, [Next]_vars PROVE Typed'
<1>1. CASE UNCHANGED vars
  BY <1>1 DEF Typed, TypeOK, vars
<1>2. CASE Next
  BY <1>2, TaskType, SrvType, FaultType, FetchType, HookType DEF Next
<1>3. QED
  BY <1>1, <1>2

\* Every reachable state is well typed, and the stream is never ahead of the journal.
THEOREM TypeCorrect == Spec => []TypeOK
<1>1. Typed => TypeOK
  BY DEF Typed
<1>2. QED
  BY <1>1, InitType, StepType, PTL DEF Spec

-----------------------------------------------------------------------------
(* What the page has fetched is behind the task, never ahead of it.          *)

Known ==
  /\ page.base \in FinalStatuses => task.status \notin OpenStatuses
  /\ fetch.pc = "task" => fetch.status \in Statuses
  /\ fetch.pc = "task" /\ fetch.status \notin OpenStatuses => task.status \notin OpenStatuses
  /\ fetch.pc = "task" /\ page.base \in FinalStatuses => fetch.status \notin OpenStatuses
  /\ page.base \in FinalStatuses /\ task.status # "gone" => task.due <= page.baseSteps

LEMMA InitKnown == Init => Known
BY DEF Init, Known, NewPage, Asked, NoFetch, FinalStatuses

\* What the task does keeps a final status final, and the due steps with it.
LEMMA TaskKeeps ==
  ASSUME Typed, TaskNext
  PROVE  /\ task.status \notin OpenStatuses => task'.status \notin OpenStatuses
         /\ task.status \notin OpenStatuses => task'.due = task.due
         /\ task.status = "gone" => task'.status = "gone"
         /\ page' = page /\ fetch' = fetch
<1>t. task \in TaskRow
  BY DEF Typed, TypeOK
<1>1. CASE RecordStep
  BY <1>t, <1>1 DEF RecordStep, TaskRow
<1>2. CASE ChangeStatus
  <2>1. PICK to \in Goes(task.status) : TRUE
    BY <1>2 DEF ChangeStatus
  <2>2. task.status \in OpenStatuses
    BY <2>1 DEF Goes, OpenStatuses
  <2>3. QED
    BY <1>2, <2>2 DEF ChangeStatus, OpenStatuses
<1>3. CASE Delete
  BY <1>t, <1>3 DEF Delete, TaskRow, OpenStatuses
<1>4. QED
  BY <1>1, <1>2, <1>3 DEF TaskNext

\* The hook's own steps leave the base alone, and a new request has read nothing.
LEMMA HookKeeps ==
  ASSUME Typed, OpenStream \/ Abort \/ Receive \/ SrvNext \/ SrvFail \/ Deafen \/ Break
                \/ Poll \/ Focus \/ FetchFail
  PROVE  /\ task' = task
         /\ page'.base = page.base /\ page'.baseSteps = page.baseSteps
         /\ fetch' = fetch \/ fetch'.pc # "task"
<1>t. page \in Page
  BY DEF Typed, TypeOK
<1>1. CASE OpenStream \/ Abort
  BY <1>t, <1>1 DEF OpenStream, Abort, Page
<1>2. CASE Receive
  <2>1. fetch' = fetch \/ fetch'.pc # "task"
    BY <1>2 DEF Receive, Asked, NoFetch
  <2>2. Head(wire).kind \in {"step", "status", "done", "closed", "error"}
    <3>1. Head(wire) \in Frames
      BY <1>2 DEF Receive, Typed, TypeOK
    <3>2. QED
      BY <3>1 DEF Frames, Frame, Closed
  <2>3. page'.base = page.base /\ page'.baseSteps = page.baseSteps
    BY <1>t, <1>2, <2>2 DEF Receive, Page
  <2>4. QED
    BY <1>2, <2>1, <2>3 DEF Receive
<1>3. CASE SrvNext
  BY <1>3 DEF SrvNext, SrvCheck, SrvSteps, SrvTask, SrvListen, SrvGet
<1>4. CASE SrvFail \/ Deafen \/ Break
  BY <1>4 DEF SrvFail, Deafen, Break
<1>5. CASE Poll \/ Focus \/ FetchFail
  BY <1>5 DEF Poll, Focus, FetchFail, Asked, NoFetch
<1>6. QED
  BY <1>1, <1>2, <1>3, <1>4, <1>5

LEMMA StepKnown == ASSUME Typed, Known, [Next]_vars PROVE Known'
<1>t. /\ task \in TaskRow /\ page \in Page /\ fetch \in Request
      /\ task.due <= task.steps /\ task.status \in Statuses
  BY DEF Typed, TypeOK, TaskRow
<1>1. CASE UNCHANGED vars
  BY <1>1 DEF Known, vars
<1>2. CASE TaskNext
  BY <1>2, TaskKeeps DEF Known
<1>3. CASE OpenStream \/ Abort \/ Receive \/ SrvNext \/ SrvFail \/ Deafen \/ Break
           \/ Poll \/ Focus \/ FetchFail
  BY <1>3, HookKeeps DEF Known
<1>4. CASE FetchTask
  BY <1>t, <1>4 DEF FetchTask, Known
<1>5. CASE FetchSteps
  <2>1. task' = task /\ fetch'.pc # "task" /\ fetch.pc = "task"
    BY <1>5 DEF FetchSteps, NoFetch
  <2>2. CASE fetch.status = "gone"
    <3>1. page'.base = page.base /\ page'.baseSteps = page.baseSteps
      BY <1>t, <1>5, <2>2 DEF FetchSteps, Page
    <3>2. QED
      BY <2>1, <3>1 DEF Known
  <2>3. CASE fetch.status # "gone"
    <3>1. /\ page'.base = fetch.status
          /\ task.status # "gone" => page'.baseSteps = task.steps
      BY <1>t, <1>5, <2>3 DEF FetchSteps, Page
    <3>2. fetch.status \in FinalStatuses => fetch.status \notin OpenStatuses
      BY DEF FinalStatuses, OpenStatuses
    <3>3. QED
      BY <1>t, <2>1, <3>1, <3>2 DEF Known
  <2>4. QED
    BY <2>2, <2>3
<1>6. CASE Reload
  BY <1>6 DEF Reload, NewPage, Asked, NoFetch, Known, FinalStatuses
<1>7. QED
  BY <1>1, <1>2, <1>3, <1>4, <1>5, <1>6 DEF Next, FetchNext, FaultNext

\* A page that has fetched the final status has every step recorded before it.
THEOREM NoStepMissing == Spec => []FinalHasAllSteps
<1>1. Typed /\ Known => FinalHasAllSteps
  <2> SUFFICES ASSUME Typed, Known, page.base \in FinalStatuses, task.status # "gone"
               PROVE  1..task.due \subseteq ShownSteps
    BY DEF FinalHasAllSteps
  <2>1. task.due <= page.baseSteps /\ task.due \in Int /\ page.baseSteps \in Int
    BY DEF Known, Typed, TypeOK, TaskRow, Page
  <2>2. QED
    BY <2>1 DEF ShownSteps
<1>2. QED
  BY <1>1, InitType, StepType, InitKnown, StepKnown, PTL DEF Spec

-----------------------------------------------------------------------------
(* The page, its connection and the generator belong together.  A connection  *)
(* is closed last, and only for a generator that has ended.                   *)

Closes(w) == w # <<>> /\ w[Len(w)] = Closed

Linked ==
  /\ srv.pc # "end" => page.conn = "open"
  /\ page.live => page.conn \in {"open", "aborted"}
  /\ page.conn = "aborted" => page.base \in FinalStatuses
  /\ page.conn = "open" /\ srv.pc = "end" => Closes(wire)
  /\ \A i \in DOMAIN wire : wire[i].kind = "closed" => srv.pc = "end"

LEMMA InitLinked == Init => Linked
BY DEF Init, Linked, NoStream, NewPage

LEMMA ClosesAppend == ASSUME NEW w \in Seq(Frames) PROVE Closes(Append(w, Closed))
BY DEF Closes

\* A generator that goes on sends no close.
LEMMA GoesOn ==
  ASSUME Typed, Linked, srv.pc # "end", srv'.pc # "end", page' = page,
         NEW s \in Seq(Frames), wire' = wire \o s,
         \A i \in DOMAIN s : s[i].kind # "closed"
  PROVE  Linked'
<1>1. wire \in Seq(Frames)
  BY DEF Typed, TypeOK
<1>2. \A i \in DOMAIN wire' : wire'[i].kind # "closed"
  BY <1>1 DEF Linked
<1>3. QED
  BY <1>2 DEF Linked

LEMMA Stays ==
  ASSUME Linked, srv.pc # "end", srv'.pc # "end", page' = page, wire' = wire
  PROVE  Linked'
BY DEF Linked

\* One that ends closes.
LEMMA Ends ==
  ASSUME Typed, Linked, srv.pc # "end", srv'.pc = "end", page' = page, Closes(wire')
  PROVE  Linked'
BY DEF Linked

LEMMA TaskLinked == ASSUME Typed, Linked, TaskNext PROVE Linked'
<1>1. srv'.pc = srv.pc
  BY DEF TaskNext, RecordStep, ChangeStatus, Delete, Notify, Typed, TypeOK, Stream
<1>2. QED
  BY <1>1 DEF TaskNext, RecordStep, ChangeStatus, Delete, Linked

LEMMA SrvLinked == ASSUME Typed, Linked, SrvNext PROVE Linked'
<1>t. srv \in Stream /\ wire \in Seq(Frames) /\ wire \o <<>> = wire /\ task.status \in Statuses
  BY DEF Typed, TypeOK, TaskRow
<1>1. CASE SrvCheck
  <2>1. CASE task.status = "gone"
    <3>1. srv.pc # "end" /\ srv'.pc = "end" /\ page' = page /\ wire' = Append(wire, Closed)
      BY <1>1, <2>1 DEF SrvCheck, NoStream
    <3>2. Closes(wire')
      BY <1>t, <3>1, ClosesAppend
    <3>3. QED
      BY <3>1, <3>2, Ends
  <2>2. CASE task.status # "gone"
    <3>1. srv.pc # "end" /\ srv'.pc # "end" /\ page' = page /\ wire' = wire
      BY <1>t, <1>1, <2>2 DEF SrvCheck, Stream
    <3>2. QED
      BY <3>1, Stays
  <2>3. QED
    BY <2>1, <2>2
<1>2. CASE SrvSteps
  <2>1. Unsent \in Seq(Frames) /\ \A i \in DOMAIN Unsent : Unsent[i].kind # "closed"
    <3>1. Unsent \in Seq(Frames)
      BY UnsentType
    <3>2. \A i \in DOMAIN Unsent : Unsent[i].kind # "closed"
      BY DEF Unsent, Frame
    <3>3. QED
      BY <3>1, <3>2
  <2>2. srv.pc # "end" /\ srv'.pc # "end"
    BY <1>t, <1>2 DEF SrvSteps, Stream
  <2>3. QED
    BY <1>2, <2>1, <2>2, GoesOn DEF SrvSteps
<1>3. CASE SrvTask
  <2>1. CASE task.status \notin OpenStatuses
    <3>1. Closes(wire')
      <4> DEFINE s == <<Frame("status", task.status), Frame("done", 0), Closed>>
      <4>1. s \in Seq(Frames)
        BY <1>t, FramesType
      <4>2. Closes(wire \o s)
        BY <1>t, <4>1 DEF Closes
      <4>3. QED
        BY <1>3, <2>1, <4>2 DEF SrvTask
    <3>2. srv.pc # "end" /\ srv'.pc = "end" /\ page' = page
      BY <1>3, <2>1 DEF SrvTask, NoStream
    <3>3. QED
      BY <3>1, <3>2, Ends
  <2>2. CASE task.status \in OpenStatuses
    <3> DEFINE s == IF task.status # srv.last THEN <<Frame("status", task.status)>> ELSE <<>>
    <3>1. s \in Seq(Frames) /\ \A i \in DOMAIN s : s[i].kind # "closed"
      <4>1. Frame("status", task.status) \in Frames /\ Frame("status", task.status).kind = "status"
        BY <1>t, FramesType DEF Frame
      <4>2. QED
        BY <4>1
    <3>2. wire' = wire \o s
      <4>1. Append(wire, Frame("status", task.status)) = wire \o <<Frame("status", task.status)>>
        BY <1>t, FramesType
      <4>2. QED
        BY <1>3, <1>t, <2>2, <4>1 DEF SrvTask
    <3>3. srv.pc # "end" /\ srv'.pc # "end" /\ page' = page
      BY <1>3, <1>t, <2>2 DEF SrvTask, Stream
    <3>4. QED
      BY <3>1, <3>2, <3>3, GoesOn
  <2>3. QED
    BY <2>1, <2>2
<1>4. CASE SrvListen \/ SrvGet
  <2>1. srv.pc # "end" /\ srv'.pc # "end" /\ page' = page /\ wire' = wire
    BY <1>4, <1>t DEF SrvListen, SrvGet, Stream
  <2>2. QED
    BY <2>1, Stays
<1>5. QED
  BY <1>1, <1>2, <1>3, <1>4 DEF SrvNext

LEMMA FaultLinked == ASSUME Typed, Linked, FaultNext PROVE Linked'
<1>t. srv \in Stream /\ wire \in Seq(Frames)
  BY DEF Typed, TypeOK
<1>1. CASE SrvFail
  <2>1. Closes(wire \o <<Frame("error", 0), Closed>>)
    BY <1>t, FramesType DEF Closes
  <2>2. QED
    BY <1>1, <2>1, Ends DEF SrvFail, NoStream
<1>2. CASE Deafen
  BY <1>2, <1>t DEF Deafen, Stream, Linked
<1>3. CASE Break
  <2>1. PICK k \in 0..Len(wire) : wire' = Append(SubSeq(wire, 1, k), Closed)
    BY <1>3 DEF Break
  <2>2. SubSeq(wire, 1, k) \in Seq(Frames)
    BY <1>t, <2>1
  <2>3. Closes(wire')
    BY <2>1, <2>2, ClosesAppend
  <2>4. QED
    BY <1>3, <2>3, Ends DEF Break, NoStream
<1>4. CASE FetchFail
  BY <1>4 DEF FetchFail, Linked
<1>5. CASE Reload
  BY <1>5 DEF Reload, NewPage, NoStream, Linked
<1>6. QED
  BY <1>1, <1>2, <1>3, <1>4, <1>5 DEF FaultNext

LEMMA PageLinked ==
  ASSUME Typed, Known, Linked,
         FetchNext \/ Poll \/ Focus \/ OpenStream \/ Abort \/ Receive
  PROVE  Linked'
<1>t. srv \in Stream /\ wire \in Seq(Frames) /\ page \in Page
  BY DEF Typed, TypeOK
<1>1. CASE FetchTask \/ Poll \/ Focus
  BY <1>1 DEF FetchTask, Poll, Focus, Linked
<1>2. CASE FetchSteps
  <2>1. page'.base \in FinalStatuses \/ page.base \notin FinalStatuses
    <3>1. CASE fetch.status = "gone"
      BY <1>t, <1>2, <3>1 DEF FetchSteps, Page
    <3>2. CASE fetch.status # "gone"
      <4>1. page'.base = fetch.status
        BY <1>t, <1>2, <3>2 DEF FetchSteps, Page
      <4>2. page.base \in FinalStatuses => fetch.status \notin OpenStatuses /\ fetch.status \in Statuses
        BY <1>2 DEF FetchSteps, Known
      <4>3. QED
        BY <3>2, <4>1, <4>2 DEF Statuses
    <3>3. QED
      BY <3>1, <3>2
  <2>2. page'.conn = page.conn /\ page'.live = page.live
    BY <1>t, <1>2 DEF FetchSteps, Page
  <2>3. QED
    BY <1>2, <2>1, <2>2 DEF FetchSteps, Linked
<1>3. CASE OpenStream
  <2>1. page'.conn = "open" /\ srv'.pc = "asked" /\ wire' = <<>>
    BY <1>t, <1>3 DEF OpenStream, Page, NoStream
  <2>2. QED
    BY <2>1 DEF Linked
<1>4. CASE Abort
  <2>1. /\ page'.conn = "aborted" /\ page'.base = page.base
        /\ srv'.pc = "end" /\ wire' = <<>>
    BY <1>t, <1>4 DEF Abort, Page, NoStream
  <2>2. QED
    BY <1>4, <2>1 DEF Linked, Abort
<1>5. CASE Receive
  <2>1. wire # <<>> /\ wire' = Tail(wire) /\ srv' = srv /\ page.conn = "open"
    BY <1>5 DEF Receive
  <2>2. \A i \in DOMAIN wire' : wire'[i] = wire[i + 1] /\ i + 1 \in DOMAIN wire
    BY <1>t, <2>1
  <2>3. wire' # <<>> => wire'[Len(wire')] = wire[Len(wire)]
    <3>1. Len(wire') = Len(wire) - 1 /\ Len(wire) \in Nat
      BY <1>t, <2>1
    <3>2. wire' # <<>> => Len(wire') \in DOMAIN wire'
      BY <1>t, <2>1
    <3>3. QED
      BY <2>2, <3>1, <3>2
  <2>4. wire' = <<>> => Head(wire) = wire[Len(wire)]
    <3>1. Len(wire') = Len(wire) - 1 /\ Len(wire) \in Nat /\ Head(wire) = wire[1]
      BY <1>t, <2>1
    <3>2. wire' = <<>> => Len(wire') = 0
      OBVIOUS
    <3>3. wire' = <<>> => Len(wire) = 1
      BY <3>1, <3>2
    <3>4. QED
      BY <3>1, <3>3
  <2>5. CASE Head(wire).kind = "closed"
    <3>1. page'.conn = "ended" /\ ~page'.live
      BY <1>t, <1>5, <2>5 DEF Receive, Page
    <3>2. srv.pc = "end"
      BY <1>t, <2>1, <2>5 DEF Linked
    <3>3. QED
      BY <2>1, <2>2, <3>1, <3>2 DEF Linked
  <2>6. CASE Head(wire).kind # "closed"
    <3>1. Head(wire).kind \in {"step", "status", "done", "error"}
      <4>1. Head(wire) \in Frames
        BY <1>t, <2>1
      <4>2. QED
        BY <2>6, <4>1 DEF Frames, Frame, Closed
    <3>2. page'.conn = "open" /\ page'.base = page.base
      BY <1>t, <1>5, <3>1 DEF Receive, Page
    <3>3. srv.pc = "end" => Closes(wire')
      BY <2>1, <2>3, <2>4, <2>6 DEF Linked, Closes, Closed, Frame
    <3>4. QED
      BY <2>1, <2>2, <3>2, <3>3 DEF Linked
  <2>7. QED
    BY <2>5, <2>6
<1>6. QED
  BY <1>1, <1>2, <1>3, <1>4, <1>5 DEF FetchNext

LEMMA StepLinked == ASSUME Typed, Known, Linked, [Next]_vars PROVE Linked'
<1>1. CASE UNCHANGED vars
  BY <1>1 DEF Linked, vars
<1>2. QED
  BY <1>1, TaskLinked, SrvLinked, FaultLinked, PageLinked DEF Next

\* A page in live mode, which does not poll, has a stream that goes on or an end of
\* it that is still to arrive.
THEOREM PageNeverStranded == Spec => []NeverStranded
<1>1. Typed /\ Linked => NeverStranded
  <2> SUFFICES ASSUME Typed, Linked, page.live, page.base \notin FinalStatuses
               PROVE  /\ page.conn = "open"
                      /\ srv.pc # "end" \/ (\E i \in DOMAIN wire : wire[i].kind \in {"done", "closed"})
    BY DEF NeverStranded
  <2>1. page.conn = "open"
    BY DEF Linked
  <2>2. ASSUME srv.pc = "end" PROVE \E i \in DOMAIN wire : wire[i].kind = "closed"
    <3>1. wire \in Seq(Frames) /\ Closes(wire)
      BY <2>1, <2>2 DEF Linked, Typed, TypeOK
    <3>2. Len(wire) \in DOMAIN wire /\ wire[Len(wire)].kind = "closed"
      BY <3>1 DEF Closes, Closed, Frame
    <3>3. QED
      BY <3>2
  <2>3. QED
    BY <2>1, <2>2
<1>2. QED
  BY <1>1, InitType, StepType, InitKnown, StepKnown, InitLinked, StepLinked, PTL DEF Spec

-----------------------------------------------------------------------------
(* A generator that nothing wakes has nothing to tell: what was committed     *)
(* since it read the steps has woken it.                                      *)

Awake ==
  ~srv.deaf /\ srv.wakes = 0 /\ task.status # "gone" =>
    /\ srv.pc \in {"wait", "task"} => srv.seq = task.steps
    /\ srv.pc = "wait" => srv.last = task.status

LEMMA InitAwake == Init => Awake
BY DEF Init, Awake, NoStream

LEMMA UnsentLength ==
  ASSUME Typed, task.status # "gone"
  PROVE  srv.seq + Len(Unsent) = task.steps
<1>1. task.steps - srv.seq \in Nat /\ task.steps \in Int /\ srv.seq \in Int
  BY DEF Typed, TypeOK, TaskRow, Stream
<1>2. Len(Unsent) = task.steps - srv.seq
  BY <1>1 DEF Unsent
<1>3. QED
  BY <1>1, <1>2

LEMMA StepAwake == ASSUME Typed, Awake, [Next]_vars PROVE Awake'
<1>t. task \in TaskRow /\ srv \in Stream /\ srv.wakes \in Nat
  BY DEF Typed, TypeOK, Stream
<1>1. CASE UNCHANGED vars
  BY <1>1 DEF Awake, vars
<1>2. CASE RecordStep \/ ChangeStatus
  <2>1. Notify
    BY <1>2 DEF RecordStep, ChangeStatus
  <2>2. CASE Listening
    <3>1. srv' = [srv EXCEPT !.wakes = @ + 1]
      BY <2>1, <2>2 DEF Notify
    <3>2. srv'.wakes # 0
      BY <1>t, <3>1 DEF Stream
    <3>3. QED
      BY <3>2 DEF Awake
  <2>3. CASE ~Listening
    BY <2>1, <2>3 DEF Notify, Listening, Awake
  <2>4. QED
    BY <2>2, <2>3
<1>3. CASE Delete
  BY <1>t, <1>3 DEF Delete, TaskRow, Awake
<1>4. CASE SrvSteps
  <2>1. task.status # "gone" => srv'.seq = task.steps
    BY <1>t, <1>4, UnsentLength DEF SrvSteps, Stream
  <2>2. srv'.pc # "wait" /\ task' = task
    BY <1>t, <1>4 DEF SrvSteps, Stream
  <2>3. QED
    BY <2>1, <2>2 DEF Awake
<1>5. CASE SrvTask
  <2>1. CASE task.status \notin OpenStatuses
    BY <1>5, <2>1 DEF SrvTask, NoStream, Awake
  <2>2. CASE task.status \in OpenStatuses /\ srv.pc = "snapshot"
    BY <1>t, <1>5, <2>2 DEF SrvTask, Stream, Awake
  <2>3. CASE task.status \in OpenStatuses /\ srv.pc = "task"
    <3>1. /\ srv'.deaf = srv.deaf /\ srv'.wakes = srv.wakes /\ srv'.seq = srv.seq
          /\ srv'.last = task.status /\ task' = task
      BY <1>t, <1>5, <2>3 DEF SrvTask, Stream
    <3>2. QED
      BY <2>3, <3>1 DEF Awake
  <2>4. QED
    BY <1>5, <2>1, <2>2, <2>3 DEF SrvTask
<1>6. CASE SrvListen
  BY <1>t, <1>6 DEF SrvListen, Stream, Awake
<1>7. CASE SrvCheck \/ SrvGet
  BY <1>t, <1>7 DEF SrvCheck, SrvGet, NoStream, Stream, Awake
<1>8. CASE Deafen
  BY <1>t, <1>8 DEF Deafen, Stream, Awake
<1>9. CASE SrvFail \/ Break \/ Reload \/ OpenStream \/ Abort
  BY <1>9 DEF SrvFail, Break, Reload, OpenStream, Abort, NoStream, Awake
<1>10. CASE FetchNext \/ FetchFail \/ Poll \/ Focus \/ Receive
  BY <1>10 DEF FetchNext, FetchTask, FetchSteps, FetchFail, Poll, Focus, Receive, Awake
<1>11. QED
  BY <1>1, <1>2, <1>3, <1>4, <1>5, <1>6, <1>7, <1>8, <1>9, <1>10
     DEF Next, TaskNext, SrvNext, FaultNext

\* A stream that waits with nothing to wake it has told everything.
THEOREM StreamUpToDate == Spec => []IdleIsUpToDate
<1>1. Awake => IdleIsUpToDate
  BY DEF Awake, IdleIsUpToDate
<1>2. QED
  BY <1>1, InitType, StepType, InitAwake, StepAwake, PTL DEF Spec

-----------------------------------------------------------------------------
(* The stream implements TaskFeed.                                            *)

LEMMA FeedInit == Init => Feed!Init
BY DEF Init, Feed!Init, NoStream, OpenStatuses

LEMMA FeedStep == ASSUME Typed, Linked, [Next]_vars PROVE [Feed!Next]_(Feed!feedVars)
<1> USE DEF Feed!Next, Feed!feedVars
<1>t. task \in TaskRow /\ srv \in Stream /\ task.steps \in Nat
  BY DEF Typed, TypeOK, TaskRow
<1>1. CASE UNCHANGED vars
  BY <1>1 DEF vars
<1>2. CASE TaskNext
  <2>1. srv'.seq = srv.seq /\ srv'.last = srv.last /\ srv'.pc = srv.pc
    BY <1>2, <1>t DEF TaskNext, RecordStep, ChangeStatus, Delete, Notify, Stream
  <2>2. CASE RecordStep
    <3>1. task'.steps = task.steps + 1 /\ task'.status = task.status
      BY <1>t, <2>2 DEF RecordStep, TaskRow
    <3>2. QED
      BY <2>1, <3>1 DEF Feed!Advance
  <2>3. CASE ChangeStatus
    <3>1. PICK to \in Goes(task.status) :
            task' = [task EXCEPT !.status = to, !.changes = @ + 1, !.due = task.steps]
      BY <2>3 DEF ChangeStatus
    <3>2. task'.steps = task.steps /\ task'.status = to
      BY <1>t, <3>1 DEF TaskRow
    <3>3. task.status \in OpenStatuses /\ to \in OpenStatuses \cup FinalStatuses
      BY <3>1 DEF Goes, OpenStatuses, FinalStatuses
    <3>4. QED
      BY <2>1, <3>2, <3>3 DEF Feed!Advance
  <2>4. CASE Delete
    <3>1. task'.steps = task.steps /\ task'.status = "gone" /\ task.status \in FinalStatuses
      BY <1>t, <2>4 DEF Delete, TaskRow
    <3>2. QED
      BY <2>1, <3>1 DEF Feed!Advance
  <2>5. QED
    BY <1>2, <2>2, <2>3, <2>4 DEF TaskNext
<1>3. CASE SrvSteps
  <2>1. srv.pc # "end" /\ srv'.pc # "end" /\ srv'.last = srv.last /\ task' = task
    BY <1>t, <1>3 DEF SrvSteps, Stream
  <2>2. srv'.seq = srv.seq + Len(Unsent)
    BY <1>t, <1>3 DEF SrvSteps, Stream
  <2>3. CASE task.status = "gone"
    <3>1. srv'.seq = srv.seq
      BY <1>t, <2>2, <2>3 DEF Unsent, Stream
    <3>2. QED
      BY <2>1, <3>1
  <2>4. CASE task.status # "gone"
    <3>1. srv'.seq = task.steps
      BY <2>2, <2>4, UnsentLength
    <3>2. QED
      BY <2>1, <3>1 DEF Feed!TellSteps
  <2>5. QED
    BY <2>3, <2>4
<1>4. CASE SrvTask
  <2>1. srv.pc # "end" /\ task' = task
    BY <1>4 DEF SrvTask
  <2>2. CASE task.status \notin OpenStatuses
    <3>1. srv'.seq = srv.seq /\ srv'.last = task.status /\ srv'.pc = "end"
      BY <1>4, <2>2 DEF SrvTask, NoStream
    <3>2. QED
      BY <2>1, <2>2, <3>1 DEF Feed!TellStatus
  <2>3. CASE task.status \in OpenStatuses
    <3>1. srv'.seq = srv.seq /\ srv'.last = task.status /\ srv'.pc # "end"
      BY <1>t, <1>4, <2>3 DEF SrvTask, Stream
    <3>2. QED
      BY <2>1, <2>3, <3>1 DEF Feed!TellStatus
  <2>4. QED
    BY <2>2, <2>3
<1>5. CASE SrvCheck
  <2>1. CASE task.status = "gone"
    BY <1>5, <2>1 DEF SrvCheck, NoStream, Feed!Disconnect
  <2>2. CASE task.status # "gone"
    BY <1>t, <1>5, <2>2 DEF SrvCheck, Stream
  <2>3. QED
    BY <2>1, <2>2
<1>6. CASE SrvListen \/ SrvGet \/ Deafen
  BY <1>t, <1>6 DEF SrvListen, SrvGet, Deafen, Stream, Listening
<1>7. CASE SrvFail \/ Break \/ Reload \/ Abort
  BY <1>7 DEF SrvFail, Break, Reload, Abort, NoStream, Feed!Disconnect
<1>8. CASE OpenStream
  <2>1. srv.pc = "end"
    BY <1>8 DEF OpenStream, Linked
  <2>2. srv'.seq = 0 /\ srv'.last = "none" /\ srv'.pc # "end" /\ task' = task
    BY <1>8 DEF OpenStream, NoStream
  <2>3. QED
    BY <2>1, <2>2 DEF Feed!Connect
<1>9. CASE FetchNext \/ FetchFail \/ Poll \/ Focus \/ Receive
  BY <1>9 DEF FetchNext, FetchTask, FetchSteps, FetchFail, Poll, Focus, Receive
<1>10. QED
  BY <1>1, <1>2, <1>3, <1>4, <1>5, <1>6, <1>7, <1>8, <1>9 DEF Next, SrvNext, FaultNext

\* The stream tells the journal in order and without a gap, each status as it is, and
\* nothing after the end of the task.
THEOREM StreamKeepsPromise == Spec => FeedSpec
<1>1. Init => Feed!Init
  BY FeedInit
<1>2. QED
  BY <1>1, FeedStep, InitType, StepType, InitKnown, StepKnown, InitLinked, StepLinked, PTL
     DEF Spec, FeedSpec, Feed!Spec

-----------------------------------------------------------------------------
(* The steps on the page have no gap, and none opens: before a step on the     *)
(* wire come all the earlier ones, on the page or on the wire before it.       *)

OnWire(k, i) == \E j \in 1..i : wire[j] = Frame("step", k)

Contiguous ==
  /\ \E m \in 0..MaxSteps : page.steps = 1..m
  /\ \A i \in 1..Len(wire) : wire[i].kind = "step" =>
       \A k \in 1..(wire[i].arg - 1) : k \in page.steps \/ OnWire(k, i - 1)
  /\ srv.pc # "end" => \A k \in 1..srv.seq : k \in page.steps \/ OnWire(k, Len(wire))

LEMMA InitContiguous == Init => Contiguous
<1> SUFFICES ASSUME Init PROVE Contiguous
  OBVIOUS
<1>1. page.steps = 1..0 /\ 0 \in 0..MaxSteps /\ wire = <<>> /\ srv.pc = "end"
  BY StreamAssumption DEF Init, NewPage, NoStream
<1>2. QED
  BY <1>1 DEF Contiguous

\* A part of the wire, and frames after it that are no steps.
LEMMA OtherFrames ==
  ASSUME Typed, Contiguous, wire' \in Seq(Frames), page'.steps = page.steps,
         NEW n \in 0..Len(wire), n <= Len(wire'),
         \A i \in 1..n : wire'[i] = wire[i],
         \A i \in (n + 1)..Len(wire') : wire'[i].kind # "step",
         srv'.pc # "end" => srv.pc # "end" /\ srv'.seq = srv.seq /\ n = Len(wire)
  PROVE  Contiguous'
<1>1. wire \in Seq(Frames) /\ Len(wire) \in Nat /\ Len(wire') \in Nat
  BY DEF Typed, TypeOK
<1>2. ASSUME NEW i \in 1..Len(wire'), wire'[i].kind = "step", NEW k \in 1..(wire'[i].arg - 1)
      PROVE  k \in page'.steps \/ OnWire(k, i - 1)'
  <2>1. i \in 1..n /\ i \in 1..Len(wire)
    BY <1>1, <1>2
  <2>2. k \in page.steps \/ OnWire(k, i - 1)
    BY <1>2, <2>1 DEF Contiguous
  <2>3. \A j \in 1..(i - 1) : j \in 1..n
    BY <2>1, <1>1
  <2>4. QED
    BY <2>2, <2>3 DEF OnWire
<1>3. ASSUME srv'.pc # "end", NEW k \in 1..srv'.seq
      PROVE  k \in page'.steps \/ OnWire(k, Len(wire))'
  <2>1. k \in page.steps \/ OnWire(k, Len(wire))
    BY <1>3 DEF Contiguous
  <2>2. \A j \in 1..Len(wire) : j \in 1..Len(wire') /\ wire'[j] = wire[j]
    BY <1>1, <1>3
  <2>3. QED
    BY <2>1, <2>2 DEF OnWire
<1>4. QED
  BY <1>2, <1>3 DEF Contiguous

LEMMA AppendOthers ==
  ASSUME wire \in Seq(Frames), NEW s \in Seq(Frames), wire' = wire \o s,
         \A i \in 1..Len(s) : s[i].kind # "step"
  PROVE  /\ Len(wire) <= Len(wire')
         /\ \A i \in 1..Len(wire) : wire'[i] = wire[i]
         /\ \A i \in (Len(wire) + 1)..Len(wire') : wire'[i].kind # "step"
<1>1. Len(wire') = Len(wire) + Len(s) /\ Len(wire) \in Nat /\ Len(s) \in Nat
  OBVIOUS
<1>2. ASSUME NEW i \in (Len(wire) + 1)..Len(wire') PROVE wire'[i].kind # "step"
  <2>1. i - Len(wire) \in 1..Len(s) /\ wire'[i] = s[i - Len(wire)]
    BY <1>1
  <2>2. QED
    BY <2>1
<1>3. QED
  BY <1>1, <1>2

LEMMA EmptyWire ==
  ASSUME Contiguous, wire' = <<>>, page'.steps = page.steps, srv'.pc = "end" \/ srv'.seq = 0
  PROVE  Contiguous'
BY DEF Contiguous

\* _steps_after sends on from the last step that was sent.
LEMMA StepsContiguous == ASSUME Typed, Contiguous, SrvSteps PROVE Contiguous'
<1>1. /\ wire \in Seq(Frames) /\ Len(wire) \in Nat /\ srv.seq \in Nat /\ srv.pc # "end"
      /\ wire' = wire \o Unsent /\ page' = page
  BY DEF SrvSteps, Typed, TypeOK, Stream
<1>2. srv'.seq = srv.seq + Len(Unsent)
  BY DEF SrvSteps, Typed, TypeOK, Stream
<1>3. /\ Unsent \in Seq(Frames) /\ Len(Unsent) \in Nat
      /\ \A i \in 1..Len(Unsent) : Unsent[i] = Frame("step", srv.seq + i)
  <2>1. Unsent \in Seq(Frames)
    BY UnsentType
  <2>2. task.steps - srv.seq \in Nat
    BY DEF Typed, TypeOK, TaskRow, Stream
  <2>3. \A i \in 1..Len(Unsent) : Unsent[i] = Frame("step", srv.seq + i)
    BY <2>2 DEF Unsent
  <2>4. QED
    BY <2>1, <2>3
<1>4. /\ Len(wire') = Len(wire) + Len(Unsent)
      /\ \A i \in 1..Len(wire) : wire'[i] = wire[i]
      /\ \A i \in 1..Len(Unsent) : wire'[Len(wire) + i] = Frame("step", srv.seq + i)
  BY <1>1, <1>3
<1>5. ASSUME NEW k \in 1..srv.seq, k \notin page.steps
      PROVE  \E j \in 1..Len(wire) : wire'[j] = Frame("step", k)
  BY <1>1, <1>4, <1>5 DEF Contiguous, OnWire
<1>6. ASSUME NEW k \in (srv.seq + 1)..(srv.seq + Len(Unsent))
      PROVE  wire'[Len(wire) + (k - srv.seq)] = Frame("step", k)
  <2>1. k - srv.seq \in 1..Len(Unsent) /\ srv.seq + (k - srv.seq) = k
    BY <1>1, <1>3
  <2>2. QED
    BY <1>4, <2>1
<1>7. ASSUME NEW i \in 1..Len(wire'), wire'[i].kind = "step", NEW k \in 1..(wire'[i].arg - 1)
      PROVE  k \in page'.steps \/ OnWire(k, i - 1)'
  <2>1. CASE i \in 1..Len(wire)
    <3>1. k \in page.steps \/ OnWire(k, i - 1)
      BY <1>4, <1>7, <2>1 DEF Contiguous
    <3>2. \A j \in 1..(i - 1) : wire'[j] = wire[j]
      BY <1>4, <2>1, <1>1
    <3>3. QED
      BY <1>1, <3>1, <3>2 DEF OnWire
  <2>2. CASE i \notin 1..Len(wire)
    <3>1. i - Len(wire) \in 1..Len(Unsent) /\ i = Len(wire) + (i - Len(wire))
      BY <1>1, <1>3, <1>4, <2>2
    <3>2. wire'[i] = Frame("step", srv.seq + (i - Len(wire)))
      BY <1>4, <3>1
    <3>3. wire'[i].arg = srv.seq + (i - Len(wire))
      BY <3>2 DEF Frame
    <3>4. CASE k <= srv.seq
      <4>1. k \in page.steps \/ \E j \in 1..Len(wire) : wire'[j] = Frame("step", k)
        BY <1>1, <1>5, <1>7, <3>4
      <4>2. \A j \in 1..Len(wire) : j \in 1..(i - 1)
        BY <1>1, <2>2
      <4>3. QED
        BY <1>1, <4>1, <4>2 DEF OnWire
    <3>5. CASE k > srv.seq
      <4>0. k \in 1..(srv.seq + (i - Len(wire)) - 1)
        BY <1>1, <1>3, <1>7, <3>1, <3>3
      <4>1. k \in (srv.seq + 1)..(srv.seq + Len(Unsent))
        BY <1>1, <1>3, <3>1, <3>5, <4>0
      <4>2. Len(wire) + (k - srv.seq) \in 1..(i - 1)
        BY <1>1, <1>3, <3>1, <3>5, <4>0
      <4>3. QED
        BY <1>6, <4>1, <4>2 DEF OnWire
    <3>6. QED
      BY <1>1, <1>7, <3>4, <3>5, <3>3, <3>1
  <2>3. QED
    BY <2>1, <2>2
<1>8. ASSUME NEW k \in 1..srv'.seq
      PROVE  k \in page'.steps \/ OnWire(k, Len(wire))'
  <2>1. CASE k <= srv.seq
    <3>1. k \in page.steps \/ \E j \in 1..Len(wire) : wire'[j] = Frame("step", k)
      BY <1>1, <1>5, <2>1
    <3>2. \A j \in 1..Len(wire) : j \in 1..Len(wire')
      BY <1>1, <1>3, <1>4
    <3>3. QED
      BY <1>1, <3>1, <3>2 DEF OnWire
  <2>2. CASE k > srv.seq
    <3>1. k \in (srv.seq + 1)..(srv.seq + Len(Unsent))
      BY <1>1, <1>2, <1>3, <2>2
    <3>2. Len(wire) + (k - srv.seq) \in 1..Len(wire')
      BY <1>1, <1>3, <1>4, <3>1
    <3>3. QED
      BY <1>6, <3>1, <3>2 DEF OnWire
  <2>3. QED
    BY <1>1, <1>2, <1>3, <2>1, <2>2
<1>9. QED
  BY <1>1, <1>7, <1>8 DEF Contiguous

LEMMA ReceiveContiguous == ASSUME Typed, Contiguous, Receive PROVE Contiguous'
<1>1. /\ wire \in Seq(Frames) /\ wire # <<>> /\ Len(wire) \in Nat /\ Len(wire) >= 1
      /\ wire' = Tail(wire) /\ Head(wire) = wire[1] /\ wire[1] \in Frames /\ srv' = srv
  BY DEF Receive, Typed, TypeOK
<1>2. Len(wire') = Len(wire) - 1 /\ \A i \in 1..Len(wire') : wire'[i] = wire[i + 1]
  BY <1>1
<1>3. PICK m \in 0..MaxSteps : page.steps = 1..m
  BY DEF Contiguous
\* The steps of the page, and what the first frame adds to them.
<1>4. /\ \E n \in 0..MaxSteps : page'.steps = 1..n
      /\ page.steps \subseteq page'.steps
      /\ wire[1].kind = "step" => wire[1].arg \in page'.steps
  <2>1. CASE \E n \in 1..MaxSteps : wire[1] = Frame("step", n)
    <3>1. PICK n \in 1..MaxSteps : wire[1] = Frame("step", n)
      BY <2>1
    <3>2. wire[1].kind = "step" /\ wire[1].arg = n
      BY <3>1 DEF Frame
    <3>3. page'.steps = page.steps \cup {n}
      BY <1>1, <3>2 DEF Receive, Typed, TypeOK, Page
    <3>4. \A k \in 1..(n - 1) : k \in page.steps
      BY <1>1, <3>2 DEF Contiguous, OnWire
    <3>5. n <= m + 1
      <4>1. CASE n = 1
        BY <4>1
      <4>2. CASE n # 1
        <5>1. n - 1 \in 1..m
          BY <1>3, <3>4, <4>2
        <5>2. QED
          BY <5>1
      <4>3. QED
        BY <4>1, <4>2
    <3>6. CASE n <= m
      <4>1. page'.steps = 1..m
        BY <1>3, <3>3, <3>6
      <4>2. QED
        BY <3>2, <3>3, <4>1
    <3>7. CASE n = m + 1
      <4>1. page'.steps = 1..n
        BY <1>3, <3>3, <3>7
      <4>2. QED
        BY <3>2, <3>3, <4>1
    <3>8. QED
      BY <3>5, <3>6, <3>7
  <2>2. CASE ~\E n \in 1..MaxSteps : wire[1] = Frame("step", n)
    <3>1. wire[1].kind \in {"status", "done", "error", "closed"}
      BY <1>1, <2>2 DEF Frames, Frame, Closed
    <3>2. page'.steps = page.steps
      BY <1>1, <3>1 DEF Receive, Typed, TypeOK, Page
    <3>3. QED
      BY <1>3, <3>1, <3>2
  <2>3. QED
    BY <2>1, <2>2
\* A step on the wire is still there, or has come to the page.
<1>5. ASSUME NEW k \in Nat, NEW i \in 0..(Len(wire) - 1), k \in page.steps \/ OnWire(k, i + 1)
      PROVE  k \in page'.steps \/ OnWire(k, i)'
  <2>1. CASE k \in page.steps
    BY <1>4, <2>1
  <2>2. CASE OnWire(k, i + 1)
    <3>1. PICK j \in 1..(i + 1) : wire[j] = Frame("step", k)
      BY <2>2 DEF OnWire
    <3>2. CASE j = 1
      BY <1>4, <3>1, <3>2 DEF Frame
    <3>3. CASE j # 1
      <4>1. j - 1 \in 1..i /\ j - 1 \in 1..Len(wire') /\ (j - 1) + 1 = j
        BY <1>1, <1>2, <3>1, <3>3
      <4>2. wire'[j - 1] = wire[j]
        BY <1>2, <4>1
      <4>3. QED
        BY <3>1, <4>1, <4>2 DEF OnWire
    <3>4. QED
      BY <3>2, <3>3
  <2>3. QED
    BY <1>5, <2>1, <2>2
<1>6. ASSUME NEW i \in 1..Len(wire'), wire'[i].kind = "step", NEW k \in 1..(wire'[i].arg - 1)
      PROVE  k \in page'.steps \/ OnWire(k, i - 1)'
  <2>1. i + 1 \in 1..Len(wire) /\ wire'[i] = wire[i + 1] /\ i - 1 \in 0..(Len(wire) - 1)
    BY <1>1, <1>2
  <2>2. k \in page.steps \/ OnWire(k, (i + 1) - 1)
    BY <1>6, <2>1 DEF Contiguous
  <2>3. (i + 1) - 1 = (i - 1) + 1 /\ k \in Nat
    BY <2>1
  <2>4. QED
    BY <1>5, <2>1, <2>2, <2>3
<1>7. ASSUME srv'.pc # "end", NEW k \in 1..srv'.seq
      PROVE  k \in page'.steps \/ OnWire(k, Len(wire))'
  <2>1. k \in page.steps \/ OnWire(k, Len(wire))
    BY <1>1, <1>7 DEF Contiguous
  <2>2. Len(wire) = Len(wire') + 1 /\ Len(wire') \in 0..(Len(wire) - 1) /\ k \in Nat
    BY <1>1, <1>2
  <2>3. QED
    BY <1>5, <2>1, <2>2
<1>8. QED
  BY <1>4, <1>6, <1>7 DEF Contiguous

LEMMA StepContiguous == ASSUME Typed, Contiguous, [Next]_vars PROVE Contiguous'
<1>t. /\ srv \in Stream /\ page \in Page /\ wire \in Seq(Frames) /\ Len(wire) \in 0..Len(wire)
      /\ wire' \in Seq(Frames)
  BY StepType DEF Typed, TypeOK
<1>1. CASE /\ wire' = wire /\ page'.steps = page.steps
           /\ srv'.pc # "end" => srv.pc # "end" /\ srv'.seq = srv.seq
  BY <1>1 DEF Contiguous, OnWire
<1>2. CASE UNCHANGED vars
  BY <1>1, <1>2 DEF vars
<1>3. CASE TaskNext
  <2>1. srv'.pc = srv.pc /\ srv'.seq = srv.seq
    BY <1>t, <1>3 DEF TaskNext, RecordStep, ChangeStatus, Delete, Notify, Stream
  <2>2. wire' = wire /\ page' = page
    BY <1>3 DEF TaskNext, RecordStep, ChangeStatus, Delete
  <2>3. QED
    BY <1>1, <2>1, <2>2
<1>4. CASE SrvCheck
  <2>1. CASE task.status = "gone"
    <3>1. srv'.pc = "end" /\ wire' = Append(wire, Closed) /\ page' = page
      BY <1>4, <2>1 DEF SrvCheck, NoStream
    <3>2. \A i \in (Len(wire) + 1)..Len(wire') : wire'[i].kind # "step"
      BY <1>t, <3>1 DEF Closed, Frame
    <3>3. Len(wire) <= Len(wire') /\ \A i \in 1..Len(wire) : wire'[i] = wire[i]
      BY <1>t, <3>1
    <3>4. QED
      BY <1>t, <3>1, <3>2, <3>3, OtherFrames
  <2>2. CASE task.status # "gone"
    <3>1. wire' = wire /\ page' = page /\ srv'.seq = srv.seq /\ srv.pc # "end"
      BY <1>t, <1>4, <2>2 DEF SrvCheck, Stream
    <3>2. QED
      BY <1>1, <3>1
  <2>3. QED
    BY <2>1, <2>2
<1>5. CASE SrvSteps
  BY <1>5, StepsContiguous
<1>6. CASE SrvTask
  <2>1. page' = page /\ srv.pc # "end" /\ srv'.seq = srv.seq
    BY <1>t, <1>6 DEF SrvTask, NoStream, Stream
  <2>2. /\ Len(wire) <= Len(wire')
        /\ \A i \in 1..Len(wire) : wire'[i] = wire[i]
        /\ \A i \in (Len(wire) + 1)..Len(wire') : wire'[i].kind # "step"
    <3> DEFINE f == Frame("status", task.status)
               s == <<f, Frame("done", 0), Closed>>
    <3>1. f \in Frames /\ s \in Seq(Frames)
      BY FramesType DEF Typed, TypeOK, TaskRow
    <3>2. CASE wire' = wire
      BY <1>t, <3>2
    <3>3. CASE wire' = Append(wire, f)
      BY <1>t, <3>1, <3>3 DEF Frame
    <3>4. CASE wire' = wire \o s
      <4>1. \A i \in 1..Len(s) : s[i].kind # "step"
        BY DEF Frame, Closed
      <4>2. QED
        BY <1>t, <3>1, <3>4, <4>1, AppendOthers
    <3>5. QED
      BY <1>6, <3>2, <3>3, <3>4 DEF SrvTask
  <2>3. QED
    BY <1>t, <2>1, <2>2, OtherFrames
<1>7. CASE SrvListen \/ SrvGet \/ Deafen
  <2>1. /\ wire' = wire /\ page' = page /\ srv'.seq = srv.seq /\ srv.pc # "end"
    BY <1>t, <1>7 DEF SrvListen, SrvGet, Deafen, Listening, Stream
  <2>2. QED
    BY <1>1, <2>1
<1>8. CASE SrvFail
  <2>1. page' = page /\ srv'.pc = "end" /\ wire' = wire \o <<Frame("error", 0), Closed>>
    BY <1>8 DEF SrvFail, NoStream
  <2>2. <<Frame("error", 0), Closed>> \in Seq(Frames)
    BY FramesType
  <2>3. \A i \in 1..2 : <<Frame("error", 0), Closed>>[i].kind # "step"
    BY DEF Frame, Closed
  <2>4. /\ Len(wire) <= Len(wire')
        /\ \A i \in 1..Len(wire) : wire'[i] = wire[i]
        /\ \A i \in (Len(wire) + 1)..Len(wire') : wire'[i].kind # "step"
    BY <1>t, <2>1, <2>2, <2>3
  <2>5. QED
    BY <1>t, <2>1, <2>4, OtherFrames
<1>9. CASE Break
  <2>1. PICK k \in 0..Len(wire) : wire' = Append(SubSeq(wire, 1, k), Closed)
    BY <1>9 DEF Break
  <2>2. page' = page /\ srv'.pc = "end"
    BY <1>9 DEF Break, NoStream
  <2>3. SubSeq(wire, 1, k) \in Seq(Frames) /\ Len(SubSeq(wire, 1, k)) = k
    BY <1>t, <2>1
  <2>4. /\ Len(wire') = k + 1 /\ wire'[k + 1] = Closed
        /\ \A i \in 1..k : wire'[i] = wire[i]
    BY <1>t, <2>1, <2>3
  <2>5. \A i \in (k + 1)..Len(wire') : wire'[i].kind # "step"
    BY <2>4 DEF Closed, Frame
  <2>6. k <= Len(wire')
    BY <2>4
  <2>7. QED
    BY <1>t, <2>2, <2>4, <2>5, <2>6, OtherFrames
<1>10. CASE FetchNext \/ FetchFail \/ Poll \/ Focus
  <2>1. wire' = wire /\ srv' = srv /\ page'.steps = page.steps
    BY <1>t, <1>10 DEF FetchNext, FetchTask, FetchSteps, FetchFail, Poll, Focus, Page
  <2>2. QED
    BY <1>1, <2>1
<1>11. CASE OpenStream \/ Abort
  <2>1. wire' = <<>>
    BY <1>11 DEF OpenStream, Abort
  <2>2. page'.steps = page.steps
    BY <1>t, <1>11 DEF OpenStream, Abort, Page
  <2>3. srv'.pc = "end" \/ srv'.seq = 0
    BY <1>11 DEF OpenStream, Abort, NoStream
  <2>4. QED
    BY <2>1, <2>2, <2>3, EmptyWire
<1>12. CASE Receive
  BY <1>12, ReceiveContiguous
<1>13. CASE Reload
  <2>1. page'.steps = 1..0 /\ 0 \in 0..MaxSteps /\ wire' = <<>> /\ srv'.pc = "end"
    BY <1>13, StreamAssumption DEF Reload, NewPage, NoStream
  <2>2. QED
    BY <2>1 DEF Contiguous
<1>14. QED
  BY <1>2, <1>3, <1>4, <1>5, <1>6, <1>7, <1>8, <1>9, <1>10, <1>11, <1>12, <1>13
     DEF Next, SrvNext, FaultNext

\* The timeline of the page never has a hole.
THEOREM NoGap == Spec => []StepsWithoutGap
<1>1. Typed /\ Contiguous => StepsWithoutGap
  <2> SUFFICES ASSUME Typed, Contiguous PROVE \E n \in 0..MaxSteps : ShownSteps = 1..n
    BY DEF StepsWithoutGap
  <2>1. PICK m \in 0..MaxSteps : page.steps = 1..m
    BY DEF Contiguous
  <2>2. page.baseSteps \in 0..MaxSteps
    BY DEF Typed, TypeOK, Page
  <2>3. CASE page.baseSteps <= m
    BY <2>1, <2>2, <2>3 DEF ShownSteps
  <2>4. CASE page.baseSteps > m
    BY <2>1, <2>2, <2>4 DEF ShownSteps
  <2>5. QED
    BY <2>1, <2>2, <2>3, <2>4
<1>2. QED
  BY <1>1, InitType, StepType, InitContiguous, StepContiguous, PTL DEF Spec

=============================================================================
