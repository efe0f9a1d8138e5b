-------------------------------- MODULE UsbCmd --------------------------------
(***************************************************************************)
(* The command path of the AR9170 driver: the list of commands waiting for *)
(* the interrupt-out endpoint, the locks around it, the responses of the   *)
(* device with their sequence numbers, and the caller of a synchronous     *)
(* command, who sleeps until the response has come.                        *)
(*                                                                         *)
(* The main loop issues commands and sends queued ones; pc cuts it where a *)
(* USB interrupt can come between a check and what relies on it.  Each     *)
(* interrupt handler is one action.                                        *)
(***************************************************************************)
EXTENDS Naturals, Sequences

CONSTANTS
    Sync, Async,  \* commands; one is issued again only when nobody holds it
    None,         \* a NULL buffer
    Envs,         \* the environments to consider, each a set of Conditions
    MaxQueue,     \* AR9170_MAX_CMD_BUFFER_LEN
    CmdBufs,      \* ar->fw.cmd_bufs, the modulus of sequence numbers
    MaxReplies,   \* bound: responses the device holds back
    MaxLost       \* bound: responses that are lost

(***************************************************************************)
(* What an environment may do:                                             *)
(*   Paced        callers issue a command only when none is pending, as    *)
(*                the scheduler expects (ar9170_scheduler.c:196-198)       *)
(*   IntError     a transfer ends with an error (usb_wrapper.c:471-499)    *)
(*   LostDone     the callback of a transfer is suppressed                 *)
(*                (ar9170rx.c:685-691)                                     *)
(*   UsbRace      a response overtakes the callback of its command         *)
(*   SlowUsb      a TBTT comes during a transfer                               *)
(*   TxStatus     a TX status finds both asynchronous locks set            *)
(*                (ar9170rx.c:744-760)                                     *)
(*   LostReply    a response never arrives (ar9170rx.c:399-404)            *)
(*   NoMemory     smalloc fails                                            *)
(***************************************************************************)
Conditions == {"Paced", "IntError", "LostDone", "UsbRace", "SlowUsb",
               "TxStatus", "LostReply", "NoMemory"}

ASSUME UsbCmdAssumption ==
    /\ Sync \cap Async = {} /\ None \notin Sync \cup Async
    /\ Envs \subseteq SUBSET Conditions
    /\ {MaxQueue, MaxReplies, MaxLost} \subseteq Nat /\ CmdBufs \in Nat \ {0}

Ids == Sync \cup Async

VARIABLES
    env, lost,                \* the environment, how many responses it has lost
    buffer, chunks,           \* cmd_list: the buffer at its head, those behind
    int_out, taken,           \* the transfer; the device already has its command
    cmd_async_lock, clear_cmd_async_lock,
    cmd_buf_lock,
    cmd_wait,                 \* the flag the caller sleeps on
    replies,                  \* commands the device has yet to answer
    dev_seq, cmd_seq,         \* next number of the device, expected by the host
    pc, call, cmd, walk_freed \* main loop: step, kind of call, its command,
                              \* the list cell it started to walk from is freed
list == <<buffer, chunks>>
endpoint == <<int_out, taken>>
locks == <<cmd_async_lock, clear_cmd_async_lock>>
world == <<env, lost>>
seqs == <<dev_seq, cmd_seq>>
loop == <<pc, call, cmd, walk_freed>>
vars == <<world, list, endpoint, locks, cmd_buf_lock, cmd_wait, replies, seqs,
          loop>>

Unset == CmdBufs     \* stands for cmd_seq = -1
Steps == {"idle", "write", "append", "lock", "send", "wait"}

TypeOK ==
    /\ env \in Envs
    /\ buffer \in Ids \cup {None} /\ int_out \in Ids \cup {None}
    /\ chunks \in Seq(Ids) /\ replies \in Seq(Ids)
    /\ Len(chunks) <= MaxQueue + 1 /\ Len(replies) <= MaxReplies
    /\ {taken, cmd_async_lock, clear_cmd_async_lock, cmd_buf_lock, cmd_wait,
        walk_freed} \subseteq BOOLEAN
    /\ lost \in 0 .. MaxLost
    /\ dev_seq \in 0 .. CmdBufs - 1 /\ cmd_seq \in 0 .. Unset
    /\ pc \in Steps /\ call \in {"none", "sync", "async", "queue"}
    /\ cmd \in Ids \cup {None}

Init ==
    /\ env \in Envs
    /\ buffer = None /\ chunks = <<>> /\ int_out = None /\ taken = FALSE
    /\ cmd_async_lock = FALSE /\ clear_cmd_async_lock = FALSE
    /\ cmd_buf_lock = FALSE /\ cmd_wait = FALSE
    /\ replies = <<>> /\ lost = 0 /\ dev_seq = 0 /\ cmd_seq = Unset
    /\ pc = "idle" /\ call = "none" /\ cmd = None /\ walk_freed = FALSE

InSeq(s, id) == \E i \in DOMAIN s : s[i] = id
InUse(id) == id \in {buffer, int_out, cmd} \/ InSeq(chunks, id) \/ InSeq(replies, id)

-----------------------------------------------------------------------------
(* The main loop *)

Step(next) == pc' = next /\ UNCHANGED <<call, cmd, walk_freed>>

\* The call is over; the caller of a synchronous command goes to sleep on
\* cmd_wait, whatever the result was.
Return ==
    /\ walk_freed' = FALSE
    /\ IF call = "sync" THEN pc' = "wait" /\ UNCHANGED <<call, cmd>>
       ELSE pc' = "idle" /\ call' = "none" /\ cmd' = None

\* ar9170_exec_cmd, or __ar9170_exec_cmd called directly for an asynchronous
\* command, up to the buffer of the command: without memory the call fails.
Issue(id) ==
    /\ pc = "idle" /\ ~InUse(id)
    /\ "Paced" \in env => buffer = None /\ chunks = <<>>
    /\ cmd_wait' = (cmd_wait \/ id \in Sync)
    /\ \/ /\ pc' = "write" /\ cmd' = id
          /\ call' = IF id \in Sync THEN "sync" ELSE "async"
       \/ /\ "NoMemory" \in env
          /\ IF id \in Sync THEN pc' = "wait" /\ call' = "sync" /\ cmd' = id
             ELSE UNCHANGED <<pc, call, cmd>>
    /\ UNCHANGED <<world, list, endpoint, locks, cmd_buf_lock, replies, seqs,
                   walk_freed>>

WriteRegOverHead ==
    /\ pc = "write" /\ buffer = None
    /\ buffer' = cmd /\ cmd_buf_lock' = FALSE /\ Step("lock")
    /\ UNCHANGED <<world, chunks, endpoint, locks, cmd_wait, replies, seqs>>

\* ar9170_usb_write_reg: an empty list takes the command ...
WriteReg ==
    /\ pc = "write" /\ buffer = None /\ chunks = <<>>
    /\ buffer' = cmd /\ cmd_buf_lock' = FALSE /\ Step("lock")
    /\ UNCHANGED <<world, chunks, endpoint, locks, cmd_wait, replies, seqs>>

\* ... one whose head is empty while it goes on is an error that leaves
\* cmd_buf_lock set; ...
WriteRegBroken ==
    /\ pc = "write" /\ buffer = None /\ chunks # <<>>
    /\ cmd_buf_lock' = TRUE /\ Return
    /\ UNCHANGED <<world, list, endpoint, locks, cmd_wait, replies, seqs>>

\* ... otherwise the list is walked to its tail ...
WriteRegWalk ==
    /\ pc = "write" /\ buffer # None
    /\ cmd_buf_lock' = TRUE /\ Step("append")
    /\ UNCHANGED <<world, list, endpoint, locks, cmd_wait, replies, seqs>>

\* ... and the command linked there, unless there are too many, which again
\* leaves the lock set.  A cell that was freed while it was walked over may
\* still lead to the others, or the command is linked behind it and lost.
WriteRegAppend ==
    /\ pc = "append"
    /\ \/ /\ Len(chunks) > MaxQueue
          /\ UNCHANGED <<list, cmd_buf_lock>>
       \/ /\ Len(chunks) <= MaxQueue \/ walk_freed
          /\ cmd_buf_lock' = FALSE
          /\ \/ Len(chunks) <= MaxQueue /\ chunks' = Append(chunks, cmd)
             \/ ("NoMemory" \in env \/ walk_freed) /\ UNCHANGED chunks
          /\ UNCHANGED buffer
    /\ Return
    /\ UNCHANGED <<world, endpoint, locks, cmd_wait, replies, seqs>>

AsyncCmdCheckUnlocked ==
    /\ pc = "idle" /\ buffer # None
    /\ pc' = "lock" /\ call' = "queue" /\ cmd' = buffer
    /\ UNCHANGED <<world, list, endpoint, locks, cmd_buf_lock, cmd_wait, replies,
                   seqs, walk_freed>>

\* ar9170_sch_async_cmd_check: with the lock free, the head of the list is sent
\* (again).
AsyncCmdCheck ==
    /\ pc = "idle" /\ buffer # None /\ ~cmd_async_lock
    /\ pc' = "lock" /\ call' = "queue" /\ cmd' = buffer
    /\ UNCHANGED <<world, list, endpoint, locks, cmd_buf_lock, cmd_wait, replies,
                   seqs, walk_freed>>

\* ar9170_usb_send_cmd takes the lock ...
SendCmdLock ==
    /\ pc = "lock" /\ cmd_async_lock' = TRUE /\ Step("send")
    /\ UNCHANGED <<world, list, endpoint, clear_cmd_async_lock, cmd_buf_lock,
                   cmd_wait, replies, seqs>>

\* ... and starts the transfer, which a busy endpoint refuses: the lock stays.
SendCmd ==
    /\ pc = "send" /\ Return
    /\ IF int_out = None THEN int_out' = cmd /\ taken' = FALSE
       ELSE UNCHANGED endpoint
    /\ UNCHANGED <<world, list, locks, cmd_buf_lock, cmd_wait, replies, seqs>>

\* __wait_for_completion
WaitOver ==
    /\ pc = "wait" /\ ~cmd_wait
    /\ pc' = "idle" /\ call' = "none" /\ cmd' = None
    /\ UNCHANGED <<world, list, endpoint, locks, cmd_buf_lock, cmd_wait, replies,
                   seqs, walk_freed>>

Running ==
    \/ WriteReg \/ WriteRegBroken \/ WriteRegWalk \/ WriteRegAppend
    \/ AsyncCmdCheck \/ SendCmdLock \/ SendCmd \/ WaitOver

-----------------------------------------------------------------------------
(* Interrupts *)

\* The device gets the command of the transfer.
Taken ==
    IF taken THEN UNCHANGED replies
    ELSE Len(replies) < MaxReplies /\ replies' = Append(replies, int_out)

DeviceTakes ==
    /\ "UsbRace" \in env /\ int_out # None /\ ~taken
    /\ Taken /\ taken' = TRUE
    /\ UNCHANGED <<world, list, int_out, locks, cmd_buf_lock, cmd_wait, seqs, loop>>

IntOutDoneKeepsHead ==
    /\ int_out # None /\ Taken
    /\ int_out' = None /\ taken' = FALSE /\ cmd_async_lock' = FALSE
    /\ UNCHANGED <<world, list, clear_cmd_async_lock, cmd_buf_lock, cmd_wait,
                   seqs, loop>>

\* ar9170_interrupt_out_transfer_done: the head is freed, the next command
\* becomes the head, the lock is released; a mark to clear it stays.
IntOutDone ==
    /\ int_out # None /\ Taken
    /\ int_out' = None /\ taken' = FALSE /\ cmd_async_lock' = FALSE
    /\ IF buffer = None THEN UNCHANGED <<list, walk_freed>>
       ELSE IF chunks = <<>> THEN buffer' = None /\ UNCHANGED <<chunks, walk_freed>>
       ELSE /\ buffer' = Head(chunks) /\ chunks' = Tail(chunks)
            /\ walk_freed' = (pc = "append")
    /\ UNCHANGED <<world, clear_cmd_async_lock, cmd_buf_lock, cmd_wait, seqs, pc,
                   call, cmd>>

\* ... with an error status it does nothing: command and lock stay.
IntOutError ==
    /\ "IntError" \in env /\ int_out # None /\ ~taken
    /\ int_out' = None
    /\ UNCHANGED <<world, list, taken, locks, cmd_buf_lock, cmd_wait, replies,
                   seqs, loop>>

LoseIntOutDone ==
    /\ "LostDone" \in env /\ int_out # None /\ Taken
    /\ int_out' = None /\ taken' = FALSE
    /\ UNCHANGED <<world, list, locks, cmd_buf_lock, cmd_wait, seqs, loop>>

Following(seq) == (seq + 1) % CmdBufs

\* ar9170_check_sequence: whatever is not the expected number is dropped, and
\* the number expected stays the same.
InSequence == cmd_seq \in {Unset, dev_seq}

NumberAlways ==
    /\ dev_seq' = Following(dev_seq)
    /\ cmd_seq' = Following(IF cmd_seq = Unset THEN dev_seq ELSE cmd_seq)

NumberFromZero ==
    /\ dev_seq' = Following(dev_seq)
    /\ cmd_seq' = IF cmd_seq = Unset THEN 0
                  ELSE IF InSequence THEN Following(dev_seq) ELSE cmd_seq

Number ==
    /\ dev_seq' = Following(dev_seq)
    /\ cmd_seq' = IF InSequence THEN Following(dev_seq) ELSE cmd_seq

\* A response to a command; that to a synchronous one ends the wait of whoever
\* sleeps (ar9170_cmd_callback).
Reply ==
    /\ replies # <<>> /\ replies' = Tail(replies) /\ Number
    /\ cmd_wait' = (cmd_wait /\ ~(InSequence /\ Head(replies) \in Sync))
    /\ UNCHANGED <<world, list, endpoint, locks, cmd_buf_lock, loop>>

\* A lock still set at a TBTT is marked, and cleared at the second.
ClearLock ==
    /\ cmd_async_lock' = (cmd_async_lock /\ ~clear_cmd_async_lock)
    /\ clear_cmd_async_lock' =
         IF cmd_async_lock THEN ~clear_cmd_async_lock ELSE clear_cmd_async_lock

\* AR9170_RSP_PRETBTT, which is dropped out of sequence like any response
PreTbtt ==
    /\ "SlowUsb" \notin env => int_out = None /\ pc # "send"
    /\ Number /\ IF InSequence THEN ClearLock ELSE UNCHANGED locks
    /\ UNCHANGED <<world, list, endpoint, cmd_buf_lock, cmd_wait, replies, loop>>

\* AR9170_RSP_TXCOMP that finds tx_async_lock set
TxStatus ==
    /\ "TxStatus" \in env /\ Number
    /\ IF InSequence /\ cmd_async_lock
       THEN cmd_async_lock' = FALSE /\ clear_cmd_async_lock' = FALSE
       ELSE UNCHANGED locks
    /\ UNCHANGED <<world, list, endpoint, cmd_buf_lock, cmd_wait, replies, loop>>

\* A response, or a trap like the two above, never arrives.
LoseReply ==
    /\ "LostReply" \in env /\ lost < MaxLost /\ lost' = lost + 1
    /\ replies' \in {replies, IF replies = <<>> THEN <<>> ELSE Tail(replies)}
    /\ dev_seq' = Following(dev_seq)
    /\ UNCHANGED <<env, list, endpoint, locks, cmd_buf_lock, cmd_wait, cmd_seq,
                   loop>>

Transfer == IntOutDone \/ IntOutError \/ LoseIntOutDone

Next ==
    \/ Running \/ \E id \in Ids : Issue(id)
    \/ Transfer \/ DeviceTakes
    \/ Reply \/ PreTbtt \/ TxStatus \/ LoseReply

Spec == Init /\ [][Next]_vars

\* The main loop runs on and comes by ar9170_sch_async_cmd_check in every pass,
\* transfers end and not always with an error, the device answers and its
\* beacon timer goes on; commands come when they come.
FairSpec ==
    /\ Spec
    /\ WF_vars(Running) /\ SF_vars(AsyncCmdCheck) /\ WF_vars(Transfer)
    /\ SF_vars(IntOutDone) /\ WF_vars(Reply) /\ SF_vars(PreTbtt)

-----------------------------------------------------------------------------
(* Properties *)

\* The command on the endpoint is the head of the list, so that the callback
\* frees what was sent and nothing is sent from freed memory.  Releasing the
\* lock under a transfer breaks this, which takes a slow transfer or a TX
\* status (usb_wrapper.c:454-469, ar9170rx.c:744-760).
Unhurried == env \cap {"SlowUsb", "TxStatus"} = {}
HeadInFlight == Unhurried /\ int_out # None => buffer = int_out

\* The wait of a caller ends with the response to its own command, not with
\* that to a command sent twice (usb_cmd_wrapper.c:202-240).
OwnReply ==
    [][Unhurried /\ "LostDone" \notin env /\ cmd_wait /\ ~cmd_wait' =>
         Head(replies) = cmd]_vars

\* A list that has lost its head but not the rest never recovers: every later
\* command is refused (usb_wrapper.c:681-684).
Broken == buffer = None /\ chunks # <<>>
BrokenForGood == [][Broken => Broken']_vars

\* After a lost response the sequence numbers meet again: the responses that
\* are dropped until then are at most a round of numbers
\* (ar9170rx.c:386-415).
SequenceKept == "LostReply" \notin env => InSequence
SequenceRecovers == []SequenceKept /\ []<>InSequence

\* A pending command is sent, or the main loop sleeps for another; without
\* such a sleeper a transfer that failed is repeated.
CommandsSent == \A id \in Ids : buffer = id ~> (buffer # id \/ pc = "wait")

\* Where callers wait for one command before they issue the next, and nothing
\* goes wrong, a synchronous command returns (usb_cmd_wrapper.h:58).
SyncReturns == (cmd_wait /\ env = {"Paced"}) ~> ~cmd_wait

\* A synchronous command blocks until its response has come, also behind
\* another command (usb_cmd_wrapper.h:58, usb_wrapper.c:701-703).
SyncReturnsAlways == (cmd_wait /\ env = {}) ~> ~cmd_wait
=============================================================================
