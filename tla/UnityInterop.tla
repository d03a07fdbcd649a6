----------------------------- MODULE UnityInterop -----------------------------
(***************************************************************************)
(* The interop layer under reference/unity_interop: a battle context with  *)
(* two byte rings (RingBuffer), shared with a host that reads and writes   *)
(* their memory directly, and the exported C functions.                    *)
(*                                                                         *)
(*   input    written by the host, read by Update                          *)
(*   output   written by the battle during Update, read by the host        *)
(*                                                                         *)
(* The frame thread calls the exports with a context one after the other;  *)
(* the host fills the input and drains the output meanwhile.  Loads and    *)
(* stores of the other side's position are steps of their own.             *)
(*                                                                         *)
(* A message is a header of two cells (its size and its id) and a body.    *)
(* What is not under src/ is left open: whether parsing succeeds, what a   *)
(* message does, what the battle sends, and what throws.  The host calls   *)
(* Initialize without a context only, Resume with one only, and Shutdown   *)
(* when it does not use the rings: the code relies on it.                  *)
(***************************************************************************)
EXTENDS Integers, Sequences

CONSTANTS
    Capacity,           \* capacity_ of both rings, in cells
    MaxInput,           \* messages the host sends to a context
    MaxOutput           \* messages a battle sends

ASSUME CapacityAssumption == Capacity \in Nat /\ \E k \in 1..Capacity : Capacity = 2^k
ASSUME MaxInputAssumption == MaxInput \in Nat
ASSUME MaxOutputAssumption == MaxOutput \in Nat

Rings == {"input", "output"}

\* What becomes of a message: handled (dispatched, or refused with a warning),
\* without a body, or its handler throws.
BodySize == [handled |-> 2, empty |-> 0, fatal |-> 1]
Kinds == DOMAIN BodySize

Cell(kind, id, part) == [kind |-> kind, id |-> id, part |-> part]
Frame(kind, id) == [i \in 1..(2 + BodySize[kind]) |-> Cell(kind, id, i)]

\* What the battle sends: five cells, to go round the end of the ring in two.
OutputSize == 5
OutputFrame(id) == [i \in 1..OutputSize |-> Cell("handled", id, i)]

AllCells == {Cell(k, id, i) : k \in Kinds, id \in 1..(MaxInput + MaxOutput), i \in 1..OutputSize}
Blank == Cell("empty", 0, 0)

VARIABLES
    handle,             \* context->handle is set: there is a context, its battle and rings
    lastErrorCode,      \* g_lastErrorCode
    head, tail, cells,  \* head_, tail_ and buffer_ of each ring
    frame,              \* where the frame thread is
    data, offset,       \* the data ReadAll returned, and where the loop over it is
    host,               \* where the host is with each ring
    writer,             \* the positions each ring's writer works with, and what it wrote
    seen,               \* the tail each ring's reader has loaded
    sent, received,     \* history: the cells committed and read
    messages,           \* history: the messages written to the input, and at which cell
    committed,          \* history: how many of them are committed
    unread,             \* history: how many are before the tail that ReadAll loaded
    outcomes,           \* history: what became of the messages of this ReadAll,
    log                 \* and of those of every ReadAll before

ringVars == <<head, tail, cells>>
locals == <<data, offset, host, writer, seen>>
context == <<handle, lastErrorCode>>
history == <<sent, received, messages, committed, unread, outcomes, log>>
vars == <<context, ringVars, frame, locals, history>>

NotWriting == [head |-> 0, tail |-> 0, pending |-> <<>>]

-----------------------------------------------------------------------------
(* RingBuffer                                                              *)

\* A slip in AvailableSpace: a full ring looks empty.
AllOfTheSpace(h, t) == IF t >= h THEN Capacity - (t - h) ELSE h - t

\* One cell stays free, to tell a full ring from an empty one.
AvailableSpace(h, t) == IF t >= h THEN Capacity - (t - h) - 1 ELSE h - t - 1

DataSize(h, t) == IF t >= h THEN t - h ELSE Capacity - h + t

\* The ring after a copy of data from position t on, round the end of the ring.
CopyIn(ring, t, s) ==
    [i \in 0..(Capacity - 1) |->
        LET k == ((i - t) % Capacity) + 1 IN IF k \in DOMAIN s THEN s[k] ELSE ring[i]]

CopyOut(ring, h, t) == [k \in 1..DataSize(h, t) |-> ring[(h + k - 1) % Capacity]]

\* Both positions; the writer owns the tail.
PrepareWrite(r) == writer' = [writer EXCEPT ![r].head = head[r], ![r].tail = tail[r]]

\* Writes behind the local tail, which only CommitWrite makes visible.
DoWrite(r, s) ==
    /\ Len(s) <= AvailableSpace(writer[r].head, writer[r].tail)
    /\ cells' = [cells EXCEPT ![r] = CopyIn(@, writer[r].tail, s)]
    /\ writer' = [writer EXCEPT ![r].tail = (@ + Len(s)) % Capacity, ![r].pending = @ \o s]

CommitWrite(r) ==
    /\ tail' = [tail EXCEPT ![r] = writer[r].tail]
    /\ sent' = [sent EXCEPT ![r] = @ \o writer[r].pending]
    /\ writer' = [writer EXCEPT ![r] = NotWriting]

CommitRead(r, new_head) ==
    /\ new_head < Capacity
    /\ head' = [head EXCEPT ![r] = new_head]

-----------------------------------------------------------------------------
(* The life of a context                                                   *)

\* An export returns; SetLastError or ClearLastError leave its code behind (the
\* codes of the failures are one here).
Return(code) ==
    /\ lastErrorCode' = code
    /\ frame' = "out"

\* What it calls outside may throw.
Returns == \E code \in {"SUCCESS", "ERROR"} : Return(code)

Of(value) == [r \in Rings |-> value]

\* The rings are gone; the next context has new ones, and nobody uses them yet.
NewRings ==
    /\ head' = Of(0)
    /\ tail' = Of(0)
    /\ cells' = Of([i \in 0..(Capacity - 1) |-> Blank])
    /\ data' = <<>>
    /\ offset' = 0
    /\ host' = Of("out")
    /\ writer' = Of(NotWriting)
    /\ seen' = Of(0)
    /\ sent' = Of(<<>>)
    /\ received' = Of(<<>>)
    /\ messages' = <<>>
    /\ committed' = 0
    /\ unread' = 0
    /\ outcomes' = <<>>
    /\ log' = <<>>

Init ==
    /\ handle = FALSE
    /\ lastErrorCode = "SUCCESS"
    /\ frame = "out"
    /\ head = Of(0)
    /\ tail = Of(0)
    /\ cells = Of([i \in 0..(Capacity - 1) |-> Blank])
    /\ data = <<>>
    /\ offset = 0
    /\ host = Of("out")
    /\ writer = Of(NotWriting)
    /\ seen = Of(0)
    /\ sent = Of(<<>>)
    /\ received = Of(<<>>)
    /\ messages = <<>>
    /\ committed = 0
    /\ unread = 0
    /\ outcomes = <<>>
    /\ log = <<>>

\* UnityBattleContext::Initialize succeeds with everything in place; when it
\* fails or throws, the context it was building is destroyed.
HGameBattle_Initialize ==
    /\ frame = "out"
    /\ ~handle
    /\ \/ /\ handle' = TRUE
          /\ Return("SUCCESS")
       \/ /\ Return("ERROR")
          /\ UNCHANGED handle
    /\ UNCHANGED <<ringVars, locals, history>>

\* What an export without a handle answers.
NoHandle == ~handle /\ Return("ERROR")

\* Cleanup, delete, and no handle.  Destructors do not throw; that the log does,
\* which is the only way into the handlers of exceptions here, is left out.
HGameBattle_Shutdown ==
    /\ frame = "out"
    /\ \A r \in Rings : host[r] = "out"
    /\ \/ /\ NoHandle
          /\ UNCHANGED <<handle, ringVars, locals, history>>
       \/ /\ handle
          /\ handle' = FALSE
          /\ NewRings
          /\ Return("SUCCESS")

\* The battle itself knows that it is paused.
HGameBattle_Pause ==
    /\ frame = "out"
    /\ NoHandle \/ (handle /\ Returns)
    /\ UNCHANGED <<handle, ringVars, locals, history>>

\* Resume does not look whether there is a context.
HGameBattle_Resume ==
    /\ frame = "out"
    /\ handle
    /\ Returns
    /\ UNCHANGED <<handle, ringVars, locals, history>>

\* The exports that leave the context as it is.
HGameBattle_GetBufferInfo ==
    /\ frame = "out"
    /\ NoHandle \/ (handle /\ Return("SUCCESS"))
    /\ UNCHANGED <<handle, ringVars, locals, history>>

HGameBattle_CheckStatus ==
    /\ frame = "out"
    /\ NoHandle \/ (handle /\ Return("SUCCESS"))
    /\ UNCHANGED <<handle, ringVars, locals, history>>

\* The exports without a context: configuration that is kept elsewhere.
HGameBattle_LoadConfig ==
    /\ frame = "out"
    /\ Returns
    /\ UNCHANGED <<handle, ringVars, locals, history>>

HGameBattle_GetTotalConfigHash ==
    /\ frame = "out"
    /\ Returns
    /\ UNCHANGED <<handle, ringVars, locals, history>>

HGameBattle_SetSkillJson ==
    /\ frame = "out"
    /\ Returns
    /\ UNCHANGED <<handle, ringVars, locals, history>>

HGameBattle_SetDebugDrawEnabled ==
    /\ frame = "out"
    /\ Returns
    /\ UNCHANGED <<handle, ringVars, locals, history>>

-----------------------------------------------------------------------------
(* Update                                                                  *)

\* A negative deltaTime is refused.
HGameBattle_Update ==
    /\ frame = "out"
    /\ \/ NoHandle
       \/ handle /\ Return("ERROR")
       \/ handle /\ lastErrorCode' = "SUCCESS" /\ frame' = "read"
    /\ UNCHANGED <<handle, ringVars, locals, history>>

\* A slip in ReadAll: data that goes round the end of the ring is not seen.
ReadUnwrapped ==
    /\ frame = "read"
    /\ seen' = [seen EXCEPT !["input"] = tail["input"]]
    /\ unread' = committed
    /\ frame' = IF head["input"] >= tail["input"] THEN "update" ELSE "copy"
    /\ UNCHANGED <<context, ringVars, data, offset, host, writer, sent, received, messages, committed,
                   outcomes, log>>

\* ReadAll loads the positions; there may be nothing.
ReadAll ==
    /\ frame = "read"
    /\ seen' = [seen EXCEPT !["input"] = tail["input"]]
    /\ unread' = committed
    /\ frame' = IF head["input"] = tail["input"] THEN "update" ELSE "copy"
    /\ UNCHANGED <<context, ringVars, data, offset, host, writer, sent, received, messages, committed,
                   outcomes, log>>

\* It copies what is between them.
ReadCopy ==
    /\ frame = "copy"
    /\ data' = CopyOut(cells["input"], head["input"], seen["input"])
    /\ frame' = "store"
    /\ UNCHANGED <<context, ringVars, offset, host, writer, seen, history>>

\* A slip in ReadStore: the tail is loaded again.
ReadStoreTail ==
    /\ frame = "store"
    /\ head' = [head EXCEPT !["input"] = tail["input"]]
    /\ received' = [received EXCEPT !["input"] = @ \o data]
    /\ frame' = "dispatch"
    /\ UNCHANGED <<context, tail, cells, locals, sent, messages, committed, unread, outcomes, log>>

\* And gives the space back.
ReadStore ==
    /\ frame = "store"
    /\ head' = [head EXCEPT !["input"] = seen["input"]]
    /\ received' = [received EXCEPT !["input"] = @ \o data]
    /\ frame' = "dispatch"
    /\ UNCHANGED <<context, tail, cells, locals, sent, messages, committed, unread, outcomes, log>>

\* What the loop over the data finds: a header or a body that is not whole
\* (torn), a size of 0, or a message and what comes of it.
Outcome ==
    LET kind == data[offset + 1].kind
        end == offset + 2 + BodySize[kind]
    IN  IF offset + 2 > Len(data) \/ data[offset + 1].part # 1 THEN "torn"
        ELSE IF BodySize[kind] = 0 THEN "empty"
        ELSE IF end > Len(data) \/ SubSeq(data, offset + 1, end) # Frame(kind, data[offset + 1].id) THEN "torn"
        ELSE kind

\* One iteration that the loop goes on after.
parseAndDispatchMessage ==
    /\ frame = "dispatch"
    /\ offset < Len(data) /\ Outcome = "handled"
    /\ outcomes' = Append(outcomes, "handled")
    /\ offset' = offset + 2 + BodySize["handled"]
    /\ UNCHANGED <<context, ringVars, frame, data, host, writer, seen, sent, received, messages, committed,
                   unread, log>>

Logged == IF log = <<>> THEN 0 ELSE log[Len(log)].last

\* The loop ends with the data, at what is not a message, or with an exception.
ProcessIncomingMessages ==
    /\ frame = "dispatch"
    /\ LET last == IF offset < Len(data) THEN <<Outcome>> ELSE <<>>
       IN  /\ last # <<"handled">>
           /\ log' = Append(log, [first |-> Logged + 1, last |-> unread, outcomes |-> outcomes \o last])
           /\ IF last = <<"fatal">>
              THEN Return("ERROR")
              ELSE frame' = "update" /\ UNCHANGED lastErrorCode
    /\ data' = <<>>
    /\ offset' = 0
    /\ outcomes' = <<>>
    /\ UNCHANGED <<handle, ringVars, host, writer, seen, sent, received, messages, committed, unread>>

\* battle_->doUpdateWrapper() returns or throws.
UpdateDone ==
    /\ frame = "update"
    /\ Returns
    /\ UNCHANGED <<handle, ringVars, locals, history>>

\* Or sends: it loads the positions, writes messages that fit, and commits;
\* an exception in between leaves the commit out.
OutputPrepare ==
    /\ frame = "update"
    /\ PrepareWrite("output")
    /\ frame' = "write"
    /\ UNCHANGED <<context, ringVars, data, offset, host, seen, history>>

NextOutput == MaxInput + 1 + (Len(sent["output"]) + Len(writer["output"].pending)) \div OutputSize

OutputWrite ==
    /\ frame = "write"
    /\ NextOutput <= MaxInput + MaxOutput
    /\ DoWrite("output", OutputFrame(NextOutput))
    /\ UNCHANGED <<context, head, tail, frame, data, offset, host, seen, history>>

OutputCommit ==
    /\ frame = "write"
    /\ CommitWrite("output")
    /\ frame' = "update"
    /\ UNCHANGED <<context, head, cells, data, offset, host, seen, received, messages, committed, unread,
                   outcomes, log>>

OutputThrow ==
    /\ frame = "write"
    /\ Return("ERROR")
    /\ writer' = [writer EXCEPT !["output"] = NotWriting]
    /\ UNCHANGED <<handle, ringVars, data, offset, host, seen, history>>

\* RingBuffer::Write: one load of the other position, and one commit.
Write ==
    /\ frame = "update"
    /\ NextOutput <= MaxInput + MaxOutput
    /\ LET s == OutputFrame(NextOutput)
       IN  /\ Len(s) <= AvailableSpace(head["output"], tail["output"])
           /\ cells' = [cells EXCEPT !["output"] = CopyIn(@, tail["output"], s)]
           /\ tail' = [tail EXCEPT !["output"] = (@ + Len(s)) % Capacity]
           /\ sent' = [sent EXCEPT !["output"] = @ \o s]
    /\ UNCHANGED <<context, head, frame, locals, received, messages, committed, unread, outcomes, log>>

-----------------------------------------------------------------------------
(* The host: without a context these answer an error and change nothing.   *)

HGameBattle_GetInputBufferState ==
    /\ host["input"] = "out"
    /\ handle
    /\ PrepareWrite("input")
    /\ host' = [host EXCEPT !["input"] = "write"]
    /\ UNCHANGED <<context, ringVars, frame, data, offset, seen, history>>

\* The host writes a message into the memory it was shown, if there is room.
HostWrite ==
    /\ host["input"] = "write"
    /\ Len(messages) < MaxInput
    /\ \E kind \in Kinds :
        /\ DoWrite("input", Frame(kind, Len(messages) + 1))
        /\ messages' = Append(messages,
               [kind |-> kind, start |-> Len(sent["input"]) + Len(writer["input"].pending)])
    /\ UNCHANGED <<context, head, tail, frame, data, offset, host, seen, sent, received, committed, unread,
                   outcomes, log>>

HGameBattle_CommitInputWrite ==
    /\ host["input"] = "write"
    /\ CommitWrite("input")
    /\ committed' = Len(messages)
    /\ host' = [host EXCEPT !["input"] = "out"]
    /\ UNCHANGED <<context, head, cells, frame, data, offset, seen, received, messages, unread, outcomes, log>>

HGameBattle_GetOutputBufferState ==
    /\ host["output"] = "out"
    /\ handle
    /\ seen' = [seen EXCEPT !["output"] = tail["output"]]
    /\ host' = [host EXCEPT !["output"] = "read"]
    /\ UNCHANGED <<context, ringVars, frame, data, offset, writer, history>>

HostRead ==
    /\ host["output"] = "read"
    /\ received' = [received EXCEPT !["output"] =
            @ \o CopyOut(cells["output"], head["output"], seen["output"])]
    /\ host' = [host EXCEPT !["output"] = "commit"]
    /\ UNCHANGED <<context, ringVars, frame, data, offset, writer, seen, sent, messages, committed, unread,
                   outcomes, log>>

HGameBattle_CommitOutputRead ==
    /\ host["output"] = "commit"
    /\ CommitRead("output", seen["output"])
    /\ host' = [host EXCEPT !["output"] = "out"]
    /\ UNCHANGED <<context, tail, cells, frame, data, offset, writer, seen, history>>

-----------------------------------------------------------------------------

Life == HGameBattle_Initialize \/ HGameBattle_Shutdown \/ HGameBattle_Pause \/ HGameBattle_Resume

Query == HGameBattle_GetBufferInfo \/ HGameBattle_CheckStatus

Configure == \/ HGameBattle_LoadConfig \/ HGameBattle_GetTotalConfigHash
             \/ HGameBattle_SetSkillJson \/ HGameBattle_SetDebugDrawEnabled

InUpdate == \/ ReadAll \/ ReadCopy \/ ReadStore \/ parseAndDispatchMessage \/ ProcessIncomingMessages
            \/ OutputPrepare \/ OutputWrite \/ OutputCommit \/ OutputThrow \/ Write \/ UpdateDone

Host == \/ HGameBattle_GetInputBufferState \/ HostWrite \/ HGameBattle_CommitInputWrite
        \/ HGameBattle_GetOutputBufferState \/ HostRead \/ HGameBattle_CommitOutputRead

Next == Life \/ Query \/ Configure \/ HGameBattle_Update \/ InUpdate \/ Host

\* The host calls Update frame by frame, and an Update comes to its end.
Fairness ==
    /\ WF_vars(HGameBattle_Update /\ frame' = "read")
    /\ WF_vars(InUpdate)
    /\ SF_vars(UpdateDone)

SafeSpec == Init /\ [][Next]_vars

Spec == SafeSpec /\ Fairness

-----------------------------------------------------------------------------
(* Properties                                                              *)

Input == INSTANCE FifoChannel
    WITH Messages <- AllCells, sent <- sent["input"], received <- received["input"]

Output == INSTANCE FifoChannel
    WITH Messages <- AllCells, sent <- sent["output"], received <- received["output"]

\* Both rings are channels of bytes: what is read is what was committed, in
\* order, although each side works with an old position of the other and a
\* writer is in the middle of its bytes when the reader copies its own.
RingsAreChannels == Input!ReopenedSpec /\ Output!ReopenedSpec

\* Of every batch that ReadAll took out of the ring, each message had its turn
\* in order and whole, except those behind an empty message or an exception,
\* which are gone with it: no loss has another reason, and none reaches the
\* next batch.
LossIsExplained ==
    \A b \in DOMAIN log :
        LET n == Len(log[b].outcomes)
        IN  /\ \A k \in 1..n : log[b].outcomes[k] = messages[log[b].first + k - 1].kind
            /\ log[b].first + n - 1 < log[b].last => log[b].outcomes[n] \in {"empty", "fatal"}

\* Every message the host commits is taken out by an Update, while the context lives.
InputIsRead ==
    \A n \in 1..MaxInput : (handle /\ committed >= n) ~> (Logged >= n \/ ~handle)
=============================================================================
