--------------------------- MODULE MergeChannels ----------------------------
(***************************************************************************)
(* lab0's MergeChannels and MergeChannelsOrCancel: one goroutine selects   *)
(* among two input channels (and a context), and sends what it receives to *)
(* an output channel, between producers that fill and close the inputs and *)
(* a consumer that reads the output.  A nil channel is never ready.        *)
(* MergeChannels is MergeChannelsOrCancel with a context that never ends.  *)
(***************************************************************************)
EXTENDS Splits

CONSTANTS
  Input,        \* what the producer of "a" and of "b" sends: a function to sequences
  InCap,        \* capacity of the input channels, at least 1
  OutCaps       \* capacities out may have; 0 is an unbuffered channel

Sources == {"a", "b"}

ASSUME MergeAssumption ==
  /\ Input \in [Sources -> Seq(Int)] /\ InCap \in Nat \ {0} /\ OutCaps \subseteq Nat

VARIABLES
  unsent,     \* what each producer has still to send
  buffer,     \* what is in each input channel
  closed,     \* which input channels are closed
  isNil,      \* which of the parameters a and b have been set to nil
  mPc,        \* "select", "send" or "returned"
  mVal,       \* the value to send, with its source
  outCap,     \* capacity of the output channel
  out,        \* what is in the output channel
  outClosed,
  received,   \* what the consumer has read
  reading,    \* whether the consumer still reads
  mCtxDone,
  err         \* the result: "none", "nil" or "ctx.Err()"

channels == <<outCap, unsent, buffer, closed>>
mergeVars == <<channels, isNil, mPc, mVal, out, outClosed, received, reading, mCtxDone, err>>

NoVal == [from |-> "none", value |-> 0]

MergeInit ==
  /\ unsent = Input
  /\ buffer = [s \in Sources |-> <<>>]
  /\ closed = [s \in Sources |-> FALSE]
  /\ isNil = [s \in Sources |-> FALSE]
  /\ mPc = "select" /\ mVal = NoVal
  /\ outCap \in OutCaps /\ out = <<>> /\ outClosed = FALSE
  /\ received = <<>> /\ reading = TRUE
  /\ mCtxDone = FALSE /\ err = "none"

-----------------------------------------------------------------------------
(***************************************************************************)
(* The caller's goroutines.                                                *)
(***************************************************************************)

Produce(s) ==
  /\ unsent[s] # <<>> /\ Len(buffer[s]) < InCap
  /\ unsent' = [unsent EXCEPT ![s] = Tail(@)]
  /\ buffer' = [buffer EXCEPT ![s] = Append(@, Head(unsent[s]))]
  /\ UNCHANGED <<outCap, closed, isNil, mPc, mVal, out, outClosed, received, reading, mCtxDone, err>>

CloseInput(s) ==
  /\ unsent[s] = <<>> /\ ~closed[s]
  /\ closed' = [closed EXCEPT ![s] = TRUE]
  /\ UNCHANGED <<outCap, unsent, buffer, isNil, mPc, mVal, out, outClosed, received, reading, mCtxDone, err>>

Consume ==
  /\ reading /\ out # <<>>
  /\ received' = Append(received, Head(out))
  /\ out' = Tail(out)
  /\ UNCHANGED <<channels, isNil, mPc, mVal, outClosed, reading, mCtxDone, err>>

StopReading ==
  /\ reading /\ reading' = FALSE
  /\ UNCHANGED <<channels, isNil, mPc, mVal, out, outClosed, received, mCtxDone, err>>

CancelMerge ==
  /\ ~mCtxDone /\ mCtxDone' = TRUE
  /\ UNCHANGED <<channels, isNil, mPc, mVal, out, outClosed, received, reading, err>>

-----------------------------------------------------------------------------
(***************************************************************************)
(* The merging goroutine.                                                  *)
(***************************************************************************)

\* if a == nil && b == nil: return
AfterSelect(nils) == IF \A s \in Sources : nils[s] THEN "returned" ELSE "select"

\* return, then the deferred close(out).
ReturnIf(next, result) ==
  /\ mPc' = next
  /\ outClosed' = (next = "returned")
  /\ err' = IF next = "returned" THEN result ELSE err

\* case val, ok := <-a, with ok.
Receive(s) ==
  /\ mPc = "select" /\ ~isNil[s] /\ buffer[s] # <<>>
  /\ mVal' = [from |-> s, value |-> Head(buffer[s])]
  /\ buffer' = [buffer EXCEPT ![s] = Tail(@)]
  /\ mPc' = "send"
  /\ UNCHANGED <<outCap, unsent, closed, isNil, out, outClosed, received, reading, mCtxDone, err>>

\* case val, ok := <-a, without: the channel is closed and empty.
Exhausted(s) ==
  /\ mPc = "select" /\ ~isNil[s] /\ buffer[s] = <<>> /\ closed[s]
  /\ isNil' = [isNil EXCEPT ![s] = TRUE]
  /\ ReturnIf(AfterSelect(isNil'), "nil")
  /\ UNCHANGED <<channels, mVal, out, received, reading, mCtxDone>>

\* Mutant of ContextDone: a break, which leaves the select and not the loop.
ContextDoneBreaks ==
  /\ mPc = "select" /\ mCtxDone
  /\ ReturnIf(AfterSelect(isNil), "nil")
  /\ UNCHANGED <<channels, isNil, mVal, out, received, reading, mCtxDone>>

\* case <-ctx.Done()
ContextDone ==
  /\ mPc = "select" /\ mCtxDone
  /\ ReturnIf("returned", "ctx.Err()")
  /\ UNCHANGED <<channels, isNil, mVal, out, received, reading, mCtxDone>>

\* Mutant of Send: a value that finds no room at once is dropped.
SendOrDrop ==
  /\ mPc = "send"
  /\ out' = IF Len(out) < outCap THEN Append(out, mVal) ELSE out
  /\ mVal' = NoVal
  /\ ReturnIf(AfterSelect(isNil), "nil")
  /\ UNCHANGED <<channels, isNil, received, reading, mCtxDone>>

\* out <- val: into the buffer when there is room, and on an unbuffered
\* channel straight to a reading consumer.
Send ==
  /\ mPc = "send"
  /\ \/ Len(out) < outCap /\ out' = Append(out, mVal) /\ UNCHANGED received
     \/ outCap = 0 /\ reading /\ received' = Append(received, mVal) /\ UNCHANGED out
  /\ mVal' = NoVal
  /\ ReturnIf(AfterSelect(isNil), "nil")
  /\ UNCHANGED <<channels, isNil, reading, mCtxDone>>

Merge == Send \/ ContextDone \/ \E s \in Sources : Receive(s) \/ Exhausted(s)

MergeNext ==
  \/ Merge \/ Consume \/ StopReading \/ CancelMerge
  \/ \E s \in Sources : Produce(s) \/ CloseInput(s)

\* The merging goroutine and a consumer that has not stopped keep running.
\* Nobody has to produce, to close a channel or to cancel.  Which of its ready
\* cases a select takes is up to it: inputs are finite.
MergeFairness == WF_mergeVars(Merge) /\ WF_mergeVars(Consume)

MergeSpec == MergeInit /\ [][MergeNext]_mergeVars /\ MergeFairness

-----------------------------------------------------------------------------
\* What the merging goroutine has in its hand.
InFlight == IF mPc = "send" THEN <<mVal>> ELSE <<>>

\* At every moment each source's values are, in order and once each: read by the
\* consumer, in out, in the goroutine's hand, in the input channel, or unsent.
\* Nothing is lost, not even by a cancelled merge, duplicated or reordered
\* (MergeChannels and MergeChannelsOrCancel, merge_channels.go:23-89).  Only a
\* merge that has passed on everything returns nil, cancelled or not (12-14).
NothingLost ==
  \A s \in Sources :
    /\ IsSplit(Input[s], s, received \o out \o InFlight, buffer[s] \o unsent[s])
    /\ err = "nil" => IsSplit(Input[s], s, received \o out, <<>>)

\* Once both producers have closed their channels, a consumer that goes on
\* reading comes to the end of out (merge_channels.go:12-14, "until all elements
\* have been read from both `a` and `b`, then close `out`").
MergeFinishes ==
  <>(\A s \in Sources : closed[s]) => <>(~reading \/ (outClosed /\ out = <<>>))

\* A cancelled merge returns as long as its consumer reads, even if no producer
\* ever closes its channel.
CancelReturns == mCtxDone ~> (outClosed \/ ~reading)
=============================================================================
