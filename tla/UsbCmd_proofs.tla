----------------------------- MODULE UsbCmd_proofs -----------------------------
(***************************************************************************)
(* Theorems about UsbCmd, for every set of commands, every environment and *)
(* all bounds.                                                             *)
(***************************************************************************)
EXTENDS UsbCmd, SequenceTheorems, TLAPS

-----------------------------------------------------------------------------
(* Types *)

\* A step of the loop that needs a command has one.
Holding == pc # "idle" => cmd \in Ids
TInv == TypeOK /\ Holding

\* Sequence numbers stay below their modulus.
LEMMA FollowingType ==
  ASSUME NEW seq \in 0 .. CmdBufs - 1 PROVE Following(seq) \in 0 .. CmdBufs - 1
  <1>1. CmdBufs \in Nat \ {0} /\ seq + 1 \in Nat
    BY UsbCmdAssumption
  <1>2. \A a \in Nat, b \in Nat \ {0} : a % b \in 0 .. b - 1
    OBVIOUS
  <1> QED
    BY <1>1, <1>2 DEF Following

LEMMA NumberType ==
  ASSUME TypeOK, Number
  PROVE  dev_seq' \in 0 .. CmdBufs - 1 /\ cmd_seq' \in 0 .. Unset
  <1>1. Following(dev_seq) \in 0 .. CmdBufs - 1
    BY FollowingType DEF TypeOK
  <1>2. CmdBufs \in Nat \ {0}
    BY UsbCmdAssumption
  <1> QED
    BY <1>1, <1>2 DEF TypeOK, Number, Unset

\* The queues keep their elements and their bounds.
LEMMA TailType ==
  ASSUME NEW S, NEW s \in Seq(S), s # <<>>
  PROVE  /\ Head(s) \in S /\ Tail(s) \in Seq(S)
         /\ Len(Tail(s)) = Len(s) - 1 /\ Len(s) \in Nat
  BY HeadTailProperties, LenProperties

LEMMA AppendType ==
  ASSUME NEW S, NEW s \in Seq(S), NEW e \in S
  PROVE  /\ Append(s, e) \in Seq(S) /\ Len(Append(s, e)) = Len(s) + 1
         /\ Len(s) \in Nat /\ Append(s, e) # <<>>
  BY AppendProperties, LenProperties

\* An accepted command leaves at most one answer more, and room for it.
LEMMA TakenType ==
  ASSUME TypeOK, int_out # None, Taken
  PROVE  replies' \in Seq(Ids) /\ Len(replies') <= MaxReplies
  <1>1. int_out \in Ids /\ replies \in Seq(Ids) /\ Len(replies) <= MaxReplies
    BY DEF TypeOK
  <1>2. \/ replies' = replies
        \/ replies' = Append(replies, int_out) /\ Len(replies) < MaxReplies
    BY DEF Taken
  <1>3. CASE replies' = replies
    BY <1>1, <1>3
  <1>4. CASE replies' = Append(replies, int_out) /\ Len(replies) < MaxReplies
    <2>1. /\ Append(replies, int_out) \in Seq(Ids)
          /\ Len(Append(replies, int_out)) = Len(replies) + 1
          /\ Len(replies) \in Nat
      BY <1>1, AppendType
    <2>2. MaxReplies \in Nat
      BY UsbCmdAssumption
    <2> QED
      BY <1>4, <2>1, <2>2
  <1> QED
    BY <1>2, <1>3, <1>4

\* A command appended to the list leaves it within one of its bound.
LEMMA WriteRegAppendType ==
  ASSUME TypeOK, Holding, WriteRegAppend
  PROVE  chunks' \in Seq(Ids) /\ Len(chunks') <= MaxQueue + 1
  <1>1. chunks \in Seq(Ids) /\ Len(chunks) <= MaxQueue + 1 /\ cmd \in Ids
    BY DEF TypeOK, Holding, WriteRegAppend
  <1>2. \/ chunks' = chunks
        \/ chunks' = Append(chunks, cmd) /\ Len(chunks) <= MaxQueue
    BY DEF WriteRegAppend, list
  <1>3. CASE chunks' = chunks
    BY <1>1, <1>3
  <1>4. CASE chunks' = Append(chunks, cmd) /\ Len(chunks) <= MaxQueue
    <2>1. /\ Append(chunks, cmd) \in Seq(Ids)
          /\ Len(Append(chunks, cmd)) = Len(chunks) + 1
          /\ Len(chunks) \in Nat
      BY <1>1, AppendType
    <2>2. MaxQueue \in Nat
      BY UsbCmdAssumption
    <2> QED
      BY <1>4, <2>1, <2>2
  <1> QED
    BY <1>2, <1>3, <1>4

\* A lost answer leaves the others.
LEMMA LoseReplyType ==
  ASSUME TypeOK, LoseReply
  PROVE  replies' \in Seq(Ids) /\ Len(replies') <= MaxReplies
  <1>1. replies \in Seq(Ids) /\ Len(replies) <= MaxReplies
    BY DEF TypeOK
  <1>2. \/ replies' = replies
        \/ replies # <<>> /\ replies' = Tail(replies)
    BY DEF LoseReply
  <1>3. CASE replies' = replies
    BY <1>1, <1>3
  <1>4. CASE replies # <<>> /\ replies' = Tail(replies)
    <2>1. /\ Tail(replies) \in Seq(Ids)
          /\ Len(Tail(replies)) = Len(replies) - 1 /\ Len(replies) \in Nat
      BY <1>1, <1>4, TailType
    <2>2. MaxReplies \in Nat
      BY UsbCmdAssumption
    <2> QED
      BY <1>1, <1>4, <2>1, <2>2
  <1> QED
    BY <1>2, <1>3, <1>4

LEMMA TypeInit == Init => TInv
  <1>1. <<>> \in Seq(Ids) /\ Len(<<>>) = 0
    BY EmptySeq
  <1>2. /\ MaxQueue \in Nat /\ MaxReplies \in Nat /\ MaxLost \in Nat
        /\ CmdBufs \in Nat \ {0}
    BY UsbCmdAssumption
  <1> SUFFICES ASSUME Init PROVE TInv
    OBVIOUS
  <1>3. env \in Envs /\ buffer \in Ids \cup {None} /\ int_out \in Ids \cup {None}
        /\ cmd \in Ids \cup {None}
    BY DEF Init
  <1>4. chunks \in Seq(Ids) /\ replies \in Seq(Ids)
        /\ Len(chunks) <= MaxQueue + 1 /\ Len(replies) <= MaxReplies
    BY <1>1, <1>2 DEF Init
  <1>5. {taken, cmd_async_lock, clear_cmd_async_lock, cmd_buf_lock, cmd_wait,
         walk_freed} \subseteq BOOLEAN
    BY Zenon DEF Init
  <1>6. lost \in 0 .. MaxLost /\ dev_seq \in 0 .. CmdBufs - 1
        /\ cmd_seq \in 0 .. Unset
    BY <1>2 DEF Init, Unset
  <1>7. pc \in Steps /\ call \in {"none", "sync", "async", "queue"} /\ Holding
    BY DEF Init, Holding, Steps
  <1> QED
    BY <1>3, <1>4, <1>5, <1>6, <1>7 DEF TInv, TypeOK

LEMMA TypeStep == TInv /\ [Next]_vars => TInv'
  <1> SUFFICES ASSUME TInv, [Next]_vars PROVE TInv'
    OBVIOUS
  <1> USE DEF TInv, TypeOK, Holding, Steps, Ids
  <1>a. MaxQueue \in Nat /\ MaxReplies \in Nat /\ MaxLost \in Nat
        /\ CmdBufs \in Nat \ {0} /\ None \notin Ids
    BY UsbCmdAssumption
  <1>1. ASSUME NEW id \in Ids, Issue(id) PROVE TInv'
    BY <1>1 DEF Issue, world, list, endpoint, locks, seqs
  <1>2. CASE Running
    <2>1. CASE WriteReg \/ WriteRegBroken \/ WriteRegWalk
      BY <2>1 DEF WriteReg, WriteRegBroken, WriteRegWalk, Return, Step, world,
                  list, endpoint, locks, seqs
    <2>2. CASE WriteRegAppend
      <3>1. Len(chunks) \in Nat /\ chunks' \in Seq(Ids)
            /\ Len(chunks') <= MaxQueue + 1
        BY <2>2, WriteRegAppendType
      <3> QED
        BY <2>2, <3>1
           DEF WriteRegAppend, Return, world, list, endpoint, locks, seqs
    <2>3. CASE AsyncCmdCheck \/ SendCmdLock \/ SendCmd \/ WaitOver
      BY <2>3 DEF AsyncCmdCheck, SendCmdLock, SendCmd, WaitOver, Return, Step,
                  world, list, endpoint, locks, seqs
    <2> QED
      BY <1>2, <2>1, <2>2, <2>3 DEF Running
  <1>3. ASSUME int_out # None, Taken
        PROVE  replies' \in Seq(Ids) /\ Len(replies') <= MaxReplies
    BY <1>3, TakenType
  <1>4. CASE Transfer \/ DeviceTakes
    <2>1. replies' \in Seq(Ids) /\ Len(replies') <= MaxReplies
      BY <1>3, <1>4 DEF Transfer, DeviceTakes, IntOutDone, IntOutError,
                        LoseIntOutDone
    <2>2. chunks' \in Seq(Ids) /\ Len(chunks') <= MaxQueue + 1
          /\ buffer' \in Ids \cup {None}
      <3>1. CASE UNCHANGED list
        BY <3>1 DEF list
      <3>2. CASE buffer' = None /\ chunks' = chunks
        BY <3>2
      <3>3. CASE chunks # <<>> /\ buffer' = Head(chunks) /\ chunks' = Tail(chunks)
        BY <1>a, <3>3, TailType
      <3> QED
        BY <1>4, <3>1, <3>2, <3>3
           DEF Transfer, DeviceTakes, IntOutDone, IntOutError, LoseIntOutDone,
               list
    <2> QED
      BY <1>4, <2>1, <2>2
         DEF Transfer, DeviceTakes, IntOutDone, IntOutError, LoseIntOutDone,
             world, list, endpoint, locks, seqs, loop
  <1>5. CASE Reply
    <2>1. replies' \in Seq(Ids) /\ Len(replies') <= MaxReplies
      BY <1>a, <1>5, TailType DEF Reply
    <2> QED
      BY <1>5, <2>1, NumberType
         DEF Reply, world, list, endpoint, locks, loop
  <1>6. CASE PreTbtt \/ TxStatus
    BY <1>6, NumberType
       DEF PreTbtt, TxStatus, ClearLock, world, list, endpoint, locks, loop
  <1>7. CASE LoseReply
    <2>1. replies' \in Seq(Ids) /\ Len(replies') <= MaxReplies
      BY <1>7, LoseReplyType
    <2>2. dev_seq' \in 0 .. CmdBufs - 1
      BY <1>7, FollowingType DEF LoseReply
    <2> QED
      BY <1>a, <1>7, <2>1, <2>2 DEF LoseReply, list, endpoint, locks, loop
  <1>8. CASE UNCHANGED vars
    BY <1>8 DEF vars, world, list, endpoint, locks, seqs, loop
  <1> QED
    BY <1>1, <1>2, <1>4, <1>5, <1>6, <1>7, <1>8 DEF Next

\* Every variable keeps its type, and the list of commands its limit.
THEOREM UsbTypeOK == Spec => []TypeOK
  <1>1. TInv => TypeOK
    BY DEF TInv
  <1> QED
    BY <1>1, TypeInit, TypeStep, PTL DEF Spec

-----------------------------------------------------------------------------
(* The command on the endpoint *)

\* As long as nothing releases the lock early, a free lock means an idle
\* endpoint, and what the loop is about to send is the head of the list.
FInv ==
    Unhurried =>
      /\ int_out # None => buffer = int_out /\ cmd_async_lock
      /\ pc \in {"lock", "send"} => int_out = None /\ buffer = cmd
      /\ pc = "send" => cmd_async_lock

LEMMA FlightInit == Init => FInv
  BY DEF Init, FInv

LEMMA InFlightStep == TInv /\ FInv /\ [Next]_vars => FInv'
  <1> SUFFICES ASSUME TInv, FInv, [Next]_vars PROVE FInv'
    OBVIOUS
  <1> USE DEF FInv, Unhurried
  <1>1. ASSUME NEW id \in Ids, Issue(id) PROVE FInv'
    BY <1>1 DEF Issue, world, list, endpoint, locks
  <1>2. CASE Running
    <2>1. None \notin Ids /\ (pc # "idle" => cmd \in Ids)
      BY UsbCmdAssumption DEF TInv, Holding, Ids
    <2>2. CASE WriteReg \/ WriteRegBroken \/ WriteRegWalk
      BY <2>1, <2>2 DEF WriteReg, WriteRegBroken, WriteRegWalk, Return, Step,
                        world, list, endpoint, locks
    <2>3. CASE WriteRegAppend
      BY <2>3 DEF WriteRegAppend, Return, world, list, endpoint, locks
    <2>4. CASE AsyncCmdCheck \/ SendCmdLock \/ SendCmd \/ WaitOver
      BY <2>4 DEF AsyncCmdCheck, SendCmdLock, SendCmd, WaitOver, Return, Step,
                  world, list, endpoint, locks
    <2> QED
      BY <1>2, <2>2, <2>3, <2>4 DEF Running
  <1>3. CASE Transfer \/ DeviceTakes
    BY <1>3 DEF Transfer, DeviceTakes, IntOutDone, IntOutError, LoseIntOutDone,
                world, list, endpoint, locks, loop
  <1>4. CASE Reply \/ PreTbtt \/ TxStatus \/ LoseReply
    BY <1>4 DEF Reply, PreTbtt, ClearLock, TxStatus, LoseReply, world, list,
                endpoint, locks, loop
  <1>5. CASE UNCHANGED vars
    BY <1>5 DEF vars, world, list, endpoint, locks, loop
  <1> QED
    BY <1>1, <1>2, <1>3, <1>4, <1>5 DEF Next

\* Whatever fails or is lost, as long as no TBTT and no TX status comes in the
\* middle of a transfer, the command on the endpoint is the head of the list:
\* the callback frees what was sent (usb_wrapper.c:442-475).
THEOREM HeadInFlightHolds == Spec => []HeadInFlight
  <1>1. Init => FInv
    BY FlightInit
  <1>2. FInv => HeadInFlight
    BY DEF FInv, HeadInFlight
  <1> QED
    BY <1>1, <1>2, TypeInit, TypeStep, InFlightStep, PTL DEF Spec

-----------------------------------------------------------------------------
(* A broken list *)

\* Once the head of the list is empty and the rest is not, no command of any
\* caller, no callback and no TBTT mends it (usb_wrapper.c:681-684).
THEOREM BrokenForGoodHolds == Spec => BrokenForGood
  <1>1. TInv /\ [Next]_vars => [Broken => Broken']_vars
    <2> SUFFICES ASSUME TInv, Next, Broken PROVE Broken'
      BY DEF Broken, vars, list
    <2> USE DEF Broken
    <2>1. ASSUME NEW id \in Ids, Issue(id) PROVE Broken'
      BY <2>1 DEF Issue, list
    <2>2. CASE Running
      <3>1. CASE WriteRegAppend
        <4>1. chunks' = chunks \/ chunks' = Append(chunks, cmd)
          BY <3>1 DEF WriteRegAppend, list
        <4>2. chunks \in Seq(Ids) /\ cmd \in Ids
          BY <3>1 DEF WriteRegAppend, TInv, TypeOK, Holding
        <4>3. chunks' # <<>>
          BY <4>1, <4>2, AppendType
        <4> QED
          BY <3>1, <4>3 DEF WriteRegAppend, list
      <3> QED
        BY <2>2, <3>1
           DEF Running, WriteReg, WriteRegBroken, WriteRegWalk, AsyncCmdCheck,
               SendCmdLock, SendCmd, WaitOver, list
    <2>3. CASE Transfer \/ DeviceTakes \/ Reply \/ PreTbtt \/ TxStatus
               \/ LoseReply
      BY <2>3 DEF Transfer, DeviceTakes, IntOutDone, IntOutError,
                  LoseIntOutDone, Reply, PreTbtt, TxStatus, LoseReply, list
    <2> QED
      BY <2>1, <2>2, <2>3 DEF Next
  <1> QED
    BY <1>1, TypeInit, TypeStep, PTL DEF Spec, BrokenForGood

-----------------------------------------------------------------------------
(* The response to one's own command *)

\* A command of which the device has not heard.
Unsent(id) == InSeq(chunks, id) \/ (buffer = id /\ ~(int_out # None /\ taken))

Once(s, id) == \A i, j \in DOMAIN s : s[i] = id /\ s[j] = id => i = j

\* A synchronous command exists once, from its caller's buffer over the list and
\* the endpoint to the device's responses, and only as long as its caller
\* sleeps: a transfer that fails leaves it on the list, and nobody but its
\* caller could send it again.
RInv ==
    Unhurried /\ "LostDone" \notin env =>
      /\ \A id \in Sync : Unsent(id) \/ InSeq(replies, id) => id = cmd /\ cmd_wait
      /\ cmd \in Sync =>
           /\ Once(chunks, cmd) /\ Once(replies, cmd)
           /\ ~(Unsent(cmd) /\ InSeq(replies, cmd))
           /\ buffer = cmd => ~InSeq(chunks, cmd)
           /\ pc \in {"write", "append"} =>
                buffer # cmd /\ ~InSeq(chunks, cmd) /\ ~InSeq(replies, cmd)
      /\ cmd \in Sync /\ pc \in {"write", "append"} => cmd_wait
      /\ call = "sync" <=> cmd \in Sync
      /\ pc = "idle" => cmd = None
      /\ pc \in {"write", "append"} => call # "queue"

\* What a queue holds, and how often, after one of the two things done to it.
LEMMA TailHolds ==
  ASSUME NEW S, NEW s \in Seq(S), s # <<>>, NEW id
  PROVE  /\ InSeq(s, id) <=> (id = Head(s) \/ InSeq(Tail(s), id))
         /\ Once(s, id) => Once(Tail(s), id)
         /\ Once(s, id) /\ id = Head(s) => ~InSeq(Tail(s), id)
  <1>1. /\ Len(s) \in Nat /\ Len(s) >= 1 /\ DOMAIN s = 1 .. Len(s) /\ s[1] = Head(s)
        /\ DOMAIN Tail(s) = 1 .. Len(s) - 1
        /\ \A i \in 1 .. Len(s) - 1 : Tail(s)[i] = s[i + 1]
    BY HeadTailProperties, LenProperties, EmptySeq
  <1>2. ASSUME InSeq(s, id), id # Head(s) PROVE InSeq(Tail(s), id)
    <2>1. PICK i \in 1 .. Len(s) : s[i] = id
      BY <1>1, <1>2 DEF InSeq
    <2>2. i # 1
      BY <1>1, <1>2, <2>1
    <2>3. i - 1 \in 1 .. Len(s) - 1 /\ (i - 1) + 1 = i
      BY <1>1, <2>2
    <2>4. Tail(s)[i - 1] = id
      BY <1>1, <2>1, <2>3
    <2> QED
      BY <1>1, <2>3, <2>4 DEF InSeq
  <1>3. ASSUME InSeq(Tail(s), id) PROVE InSeq(s, id)
    <2>1. PICK i \in 1 .. Len(s) - 1 : Tail(s)[i] = id
      BY <1>1, <1>3 DEF InSeq
    <2> QED
      BY <1>1, <2>1 DEF InSeq
  <1>4. id = Head(s) => InSeq(s, id)
    BY <1>1 DEF InSeq
  <1>5. ASSUME Once(s, id) PROVE Once(Tail(s), id)
    BY <1>1, <1>5 DEF Once
  <1>6. ASSUME Once(s, id), id = Head(s), InSeq(Tail(s), id) PROVE FALSE
    <2>1. PICK i \in 1 .. Len(s) - 1 : Tail(s)[i] = id
      BY <1>1, <1>6 DEF InSeq
    <2>2. i + 1 \in DOMAIN s /\ 1 \in DOMAIN s /\ i + 1 # 1 /\ s[i + 1] = id /\ s[1] = id
      BY <1>1, <1>6, <2>1
    <2> QED
      BY <1>6, <2>2 DEF Once
  <1> QED
    BY <1>2, <1>3, <1>4, <1>5, <1>6

LEMMA AppendHolds ==
  ASSUME NEW S, NEW s \in Seq(S), NEW e \in S, NEW id
  PROVE  /\ InSeq(Append(s, e), id) <=> (InSeq(s, id) \/ id = e)
         /\ Once(s, id) /\ (id = e => ~InSeq(s, id)) => Once(Append(s, e), id)
  <1>1. /\ Len(s) \in Nat /\ DOMAIN s = 1 .. Len(s)
        /\ DOMAIN Append(s, e) = 1 .. Len(s) + 1
        /\ \A i \in 1 .. Len(s) : Append(s, e)[i] = s[i]
        /\ Append(s, e)[Len(s) + 1] = e
    BY AppendProperties, LenProperties
  <1>2. InSeq(s, id) => InSeq(Append(s, e), id)
    BY <1>1 DEF InSeq
  <1>3. InSeq(Append(s, e), e)
    BY <1>1 DEF InSeq
  <1>4. InSeq(Append(s, e), id) => InSeq(s, id) \/ id = e
    BY <1>1 DEF InSeq
  <1>5. ASSUME Once(s, id), id = e => ~InSeq(s, id) PROVE Once(Append(s, e), id)
    BY <1>1, <1>5 DEF Once, InSeq
  <1> QED
    BY <1>2, <1>3, <1>4, <1>5


LEMMA EmptyHolds == \A id : ~InSeq(<<>>, id) /\ Once(<<>>, id)
  BY DEF InSeq, Once

\* The conclusion of RInv, and the conditions under which it is claimed.
Calm == Unhurried /\ "LostDone" \notin env

\* The environment stays what it is.
LEMMA SameEnv == [Next]_vars => env' = env
  <1> SUFFICES ASSUME [Next]_vars PROVE env' = env
    OBVIOUS
  <1>1. ASSUME NEW id \in Ids, Issue(id) PROVE env' = env
    BY <1>1 DEF Issue, world
  <1>2. CASE Running
    BY <1>2 DEF Running, WriteReg, WriteRegBroken, WriteRegWalk, WriteRegAppend,
                AsyncCmdCheck, SendCmdLock, SendCmd, WaitOver, world
  <1>3. CASE Transfer \/ DeviceTakes
    BY <1>3 DEF Transfer, IntOutDone, IntOutError, LoseIntOutDone, DeviceTakes,
                world
  <1>4. CASE Reply \/ PreTbtt \/ TxStatus \/ LoseReply \/ UNCHANGED vars
    BY <1>4 DEF Reply, PreTbtt, TxStatus, LoseReply, world, vars
  <1> QED
    BY <1>1, <1>2, <1>3, <1>4 DEF Next

LEMMA ReplyStep == TInv /\ FInv /\ RInv /\ [Next]_vars => RInv'
  <1> SUFFICES ASSUME TInv, FInv, RInv, [Next]_vars, Calm PROVE RInv'
    BY SameEnv DEF RInv, Calm, Unhurried
  <1>a. /\ None \notin Ids /\ Sync \cap Async = {} /\ Sync \subseteq Ids
        /\ chunks \in Seq(Ids) /\ replies \in Seq(Ids)
        /\ cmd_wait \in BOOLEAN /\ (pc # "idle" => cmd \in Ids)
    BY UsbCmdAssumption DEF TInv, TypeOK, Holding, Ids
  <1>b. int_out # None => buffer = int_out
    BY DEF FInv, Calm
  <1> USE DEF RInv, Calm, Unhurried
  <1>1. ASSUME NEW id \in Ids, Issue(id) PROVE RInv'
    <2>1. /\ UNCHANGED <<chunks, buffer, int_out, taken, replies>>
          /\ buffer # id /\ ~InSeq(chunks, id) /\ ~InSeq(replies, id)
          /\ cmd = None /\ (cmd_wait \/ id \in Sync => cmd_wait')
      BY <1>1 DEF Issue, InUse, list, endpoint
    <2>2. /\ \A x \in Sync : Unsent(x)' <=> Unsent(x)
          /\ \A x \in Sync : ~Unsent(x) /\ ~InSeq(replies, x)
      BY <1>a, <2>1 DEF Unsent
    <2>3. ~InSeq(chunks', id) /\ ~InSeq(replies', id) /\ buffer' # id
          /\ Once(chunks', id) /\ Once(replies', id) /\ ~Unsent(id)'
      BY <2>1 DEF InSeq, Once, Unsent
    <2>4. \/ cmd' = id /\ pc' = "write" /\ call' = (IF id \in Sync THEN "sync" ELSE "async")
          \/ cmd' = id /\ pc' = "wait" /\ call' = "sync" /\ id \in Sync
          \/ UNCHANGED <<pc, call, cmd>>
      BY <1>1 DEF Issue
    <2> QED
      BY <1>a, <2>1, <2>2, <2>3, <2>4
  <1>2. CASE Running
    <2>1. CASE WriteReg
      <3>1. /\ buffer' = cmd /\ chunks = <<>> /\ buffer = None /\ pc = "write"
            /\ pc' = "lock" /\ cmd \in Ids
            /\ UNCHANGED <<chunks, int_out, taken, replies, call, cmd, cmd_wait>>
        BY <1>a, <2>1 DEF WriteReg, Step, endpoint
      <3>2. int_out = None
        BY <1>a, <1>b, <3>1
      <3>3. \A x \in Sync : Unsent(x)' <=> x = cmd
        BY <3>1, <3>2, EmptyHolds DEF Unsent
      <3>4. cmd \in Sync => cmd_wait
        BY <3>1
      <3> QED
        BY <3>1, <3>3, <3>4, EmptyHolds
    <2>2. CASE WriteRegBroken \/ WriteRegWalk \/ SendCmdLock
      BY <1>a, <2>2 DEF WriteRegBroken, WriteRegWalk, SendCmdLock, Return, Step,
                        list, endpoint, Unsent
    <2>3. CASE WriteRegAppend
      <3>1. /\ pc = "append" /\ cmd \in Ids
            /\ UNCHANGED <<buffer, int_out, taken, replies, cmd_wait>>
            /\ \/ pc' = "wait" /\ call = "sync" /\ UNCHANGED <<call, cmd>>
               \/ pc' = "idle" /\ call # "sync" /\ call' = "none" /\ cmd' = None
            /\ chunks' = chunks \/ chunks' = Append(chunks, cmd)
        BY <1>a, <2>3 DEF WriteRegAppend, Return, list, endpoint
      <3>2. CASE chunks' = chunks
        <4>1. \A x \in Sync : Unsent(x)' <=> Unsent(x)
          BY <3>1, <3>2 DEF Unsent
        <4> QED
          BY <1>a, <3>1, <3>2, <4>1
      <3>3. CASE chunks' = Append(chunks, cmd)
        <4>1. \A x : InSeq(chunks', x) <=> InSeq(chunks, x) \/ x = cmd
          BY <1>a, <3>1, <3>3, AppendHolds
        <4>2. \A x : Once(chunks, x) /\ (x = cmd => ~InSeq(chunks, x)) => Once(chunks', x)
          BY <1>a, <3>1, <3>3, AppendHolds
        <4>3. \A x \in Sync : Unsent(x)' <=> Unsent(x) \/ x = cmd
          BY <3>1, <4>1 DEF Unsent
        <4>4. cmd \in Sync => cmd_wait
          BY <3>1
        <4> QED
          BY <1>a, <3>1, <4>1, <4>2, <4>3, <4>4
      <3> QED
        BY <3>1, <3>2, <3>3
    <2>4. CASE AsyncCmdCheck
      <3>1. /\ pc = "idle" /\ buffer # None /\ int_out = None
            /\ pc' = "lock" /\ call' = "queue" /\ cmd' = buffer
            /\ UNCHANGED <<buffer, chunks, int_out, taken, replies, cmd_wait>>
        BY <2>4 DEF AsyncCmdCheck, list, endpoint, FInv
      <3>2. \A x \in Sync : Unsent(x)' <=> Unsent(x)
        BY <3>1 DEF Unsent
      <3>3. Unsent(buffer)
        BY <3>1 DEF Unsent
      <3>4. buffer \notin Sync
        BY <1>a, <3>1, <3>3
      <3> QED
        BY <1>a, <3>1, <3>2, <3>4
    <2>5. CASE SendCmd
      <3>1. /\ pc = "send" /\ int_out = None /\ int_out' = cmd /\ taken' = FALSE
            /\ UNCHANGED <<buffer, chunks, replies, cmd_wait>>
            /\ \/ pc' = "wait" /\ call = "sync" /\ UNCHANGED <<call, cmd>>
               \/ pc' = "idle" /\ call # "sync" /\ call' = "none" /\ cmd' = None
        BY <2>5 DEF SendCmd, Return, list, FInv
      <3>2. \A x \in Sync : Unsent(x)' <=> Unsent(x)
        BY <3>1 DEF Unsent
      <3> QED
        BY <1>a, <3>1, <3>2
    <2>6. CASE WaitOver
      <3>1. /\ pc = "wait" /\ ~cmd_wait /\ pc' = "idle" /\ call' = "none" /\ cmd' = None
            /\ UNCHANGED <<buffer, chunks, int_out, taken, replies, cmd_wait>>
        BY <2>6 DEF WaitOver, list, endpoint
      <3>2. \A x \in Sync : ~Unsent(x)' /\ ~InSeq(replies', x)
        BY <3>1 DEF Unsent
      <3> QED
        BY <1>a, <3>1, <3>2
    <2> QED
      BY <1>2, <2>1, <2>2, <2>3, <2>4, <2>5, <2>6 DEF Running
  <1>3. CASE DeviceTakes
    <2>1. /\ int_out # None /\ ~taken /\ taken' = TRUE /\ replies' = Append(replies, int_out)
          /\ UNCHANGED <<buffer, chunks, int_out, cmd_wait, pc, call, cmd>>
      BY <1>3 DEF DeviceTakes, Taken, list, loop
    <2>2. int_out \in Ids /\ buffer = int_out /\ Unsent(int_out)
      BY <1>b, <2>1 DEF Unsent, TInv, TypeOK
    <2>3. \A x : InSeq(replies', x) <=> InSeq(replies, x) \/ x = int_out
      BY <1>a, <2>1, <2>2, AppendHolds
    <2>4. \A x : Once(replies, x) /\ (x = int_out => ~InSeq(replies, x)) => Once(replies', x)
      BY <1>a, <2>1, <2>2, AppendHolds
    <2>5. \A x : Unsent(x)' <=> InSeq(chunks, x)
      BY <2>1 DEF Unsent
    <2>6. \A x : Unsent(x)' => Unsent(x)
      BY <2>5 DEF Unsent
    <2> QED
      BY <1>a, <2>1, <2>2, <2>3, <2>4, <2>5, <2>6
  <1>4. CASE IntOutDone
    <2>1. /\ int_out # None /\ int_out' = None /\ taken' = FALSE
          /\ UNCHANGED <<cmd_wait, pc, call, cmd>>
          /\ buffer = int_out /\ int_out \in Ids
      BY <1>b, <1>4 DEF IntOutDone, TInv, TypeOK
    <2>2. \/ taken /\ replies' = replies
          \/ ~taken /\ replies' = Append(replies, int_out)
      BY <1>4 DEF IntOutDone, Taken
    <2>a. \A x : /\ InSeq(Append(replies, int_out), x) <=> InSeq(replies, x) \/ x = int_out
                 /\ Once(replies, x) /\ (x = int_out => ~InSeq(replies, x))
                      => Once(Append(replies, int_out), x)
      BY <1>a, <2>1, AppendHolds
    <2>3. \A x : InSeq(replies', x) <=> InSeq(replies, x) \/ (~taken /\ x = int_out)
      BY <2>2, <2>a
    <2>4. \A x : Once(replies, x) /\ (~taken /\ x = int_out => ~InSeq(replies, x))
               => Once(replies', x)
      BY <2>2, <2>a
    <2>5. \/ chunks = <<>> /\ buffer' = None /\ chunks' = chunks
          \/ chunks # <<>> /\ buffer' = Head(chunks) /\ chunks' = Tail(chunks)
      BY <1>a, <1>4, <2>1 DEF IntOutDone
    <2>6. /\ \A x \in Ids : Unsent(x)' <=> InSeq(chunks, x)
          /\ \A x : Once(chunks, x) => Once(chunks', x)
          /\ \A x : InSeq(chunks', x) => InSeq(chunks, x)
          /\ \A x \in Ids : buffer' = x => InSeq(chunks, x)
          /\ \A x \in Ids : Once(chunks, x) /\ buffer' = x => ~InSeq(chunks', x)
      <3>1. CASE chunks = <<>> /\ buffer' = None /\ chunks' = chunks
        BY <1>a, <2>1, <3>1, EmptyHolds DEF Unsent
      <3>2. CASE chunks # <<>> /\ buffer' = Head(chunks) /\ chunks' = Tail(chunks)
        <4>1. \A x : /\ InSeq(chunks, x) <=> (x = buffer' \/ InSeq(chunks', x))
                     /\ Once(chunks, x) => Once(chunks', x)
                     /\ Once(chunks, x) /\ x = buffer' => ~InSeq(chunks', x)
          BY <1>a, <3>2, TailHolds
        <4> QED
          BY <2>1, <4>1 DEF Unsent
      <3> QED
        BY <2>5, <3>1, <3>2
    <2>7. \A x : InSeq(chunks, x) => Unsent(x)
      BY DEF Unsent
    <2>8. ~taken => Unsent(int_out)
      BY <2>1 DEF Unsent
    <2> QED
      BY <1>a, <2>1, <2>3, <2>4, <2>6, <2>7, <2>8
  <1>5. CASE IntOutError
    <2>1. /\ int_out # None /\ ~taken /\ int_out' = None /\ ~taken'
          /\ UNCHANGED <<buffer, chunks, replies, cmd_wait, pc, call, cmd>>
      BY <1>5 DEF IntOutError, list, loop
    <2>2. \A x : Unsent(x)' <=> Unsent(x)
      BY <2>1 DEF Unsent
    <2> QED
      BY <2>1, <2>2
  <1>6. CASE Reply
    <2>1. /\ replies # <<>> /\ replies' = Tail(replies)
          /\ UNCHANGED <<buffer, chunks, int_out, taken, pc, call, cmd>>
          /\ cmd_wait' = (cmd_wait /\ ~(InSequence /\ Head(replies) \in Sync))
      BY <1>6 DEF Reply, list, endpoint, loop
    <2>2. \A x : /\ InSeq(replies, x) <=> (x = Head(replies) \/ InSeq(replies', x))
                 /\ Once(replies, x) => Once(replies', x)
                 /\ Once(replies, x) /\ x = Head(replies) => ~InSeq(replies', x)
      BY <1>a, <2>1, TailHolds
    <2>3. \A x : Unsent(x)' <=> Unsent(x)
      BY <2>1 DEF Unsent
    <2>4. CASE cmd_wait' = cmd_wait
      BY <2>1, <2>2, <2>3, <2>4
    <2>5. CASE cmd_wait' # cmd_wait
      <3>1. Head(replies) \in Sync /\ Head(replies) = cmd
        BY <1>a, <2>1, <2>2, <2>5
      <3>2. \A x \in Sync : ~Unsent(x) /\ ~InSeq(replies', x)
        BY <2>2, <3>1
      <3> QED
        BY <2>1, <2>2, <2>3, <3>2
    <2> QED
      BY <2>4, <2>5
  <1>7. CASE LoseReply
    <2>1. /\ \/ replies' = replies
             \/ replies # <<>> /\ replies' = Tail(replies)
          /\ UNCHANGED <<buffer, chunks, int_out, taken, pc, call, cmd, cmd_wait>>
      BY <1>7 DEF LoseReply, list, endpoint, loop
    <2>2. \A x : /\ InSeq(replies', x) => InSeq(replies, x)
                 /\ Once(replies, x) => Once(replies', x)
      BY <1>a, <2>1, TailHolds
    <2>3. \A x : Unsent(x)' <=> Unsent(x)
      BY <2>1 DEF Unsent
    <2> QED
      BY <2>1, <2>2, <2>3
  <1>8. CASE PreTbtt \/ TxStatus \/ UNCHANGED vars
    <2>1. UNCHANGED <<buffer, chunks, int_out, taken, pc, call, cmd, cmd_wait, replies>>
      BY <1>8 DEF PreTbtt, TxStatus, vars, list, endpoint, loop
    <2>2. \A x : Unsent(x)' <=> Unsent(x)
      BY <2>1 DEF Unsent
    <2> QED
      BY <2>1, <2>2
  <1>9. ~LoseIntOutDone
    BY DEF LoseIntOutDone
  <1> QED
    BY <1>1, <1>2, <1>3, <1>4, <1>5, <1>6, <1>7, <1>8, <1>9 DEF Next, Transfer

\* A caller is woken by the response to its own command, whatever fails or is
\* lost and however many commands are queued, as long as callbacks come and no
\* TBTT or TX status in the middle of a transfer (usb_cmd_wrapper.c:202-240).
THEOREM OwnReplyHolds == Spec => OwnReply
  <1>1. Init => RInv
    BY UsbCmdAssumption, EmptyHolds DEF Init, RInv, Unsent, Ids
  <1>2. TInv /\ RInv /\ [Next]_vars =>
          [Unhurried /\ "LostDone" \notin env /\ cmd_wait /\ ~cmd_wait' =>
             Head(replies) = cmd]_vars
    <2> SUFFICES ASSUME TInv, RInv, Next, Calm, cmd_wait, ~cmd_wait'
                 PROVE  Head(replies) = cmd
      BY DEF Calm
    <2>1. Reply
      BY DEF Next, Issue, Running, WriteReg, WriteRegBroken, WriteRegWalk,
             WriteRegAppend, AsyncCmdCheck, SendCmdLock, SendCmd, WaitOver,
             Transfer, IntOutDone, IntOutError, LoseIntOutDone, DeviceTakes,
             PreTbtt, TxStatus, LoseReply
    <2>2. replies # <<>> /\ Head(replies) \in Sync
      BY <2>1 DEF Reply
    <2>3. InSeq(replies, Head(replies))
      BY <2>2, TailHolds DEF TInv, TypeOK
    <2> QED
      BY <2>2, <2>3 DEF RInv, Calm
  <1> QED
    BY <1>1, <1>2, TypeInit, TypeStep, FlightInit, InFlightStep, ReplyStep, PTL
       DEF Spec, OwnReply

-----------------------------------------------------------------------------
(* The numbers of the responses *)

LEMMA FollowingIs ==
  ASSUME NEW seq \in 0 .. CmdBufs - 1
  PROVE  Following(seq) = IF seq = CmdBufs - 1 THEN 0 ELSE seq + 1
  <1>1. CmdBufs \in Nat \ {0}
    BY UsbCmdAssumption
  <1>2. CASE seq = CmdBufs - 1
    BY <1>1, <1>2, SMT DEF Following
  <1>3. CASE seq # CmdBufs - 1
    BY <1>1, <1>3, SMT DEF Following
  <1> QED
    BY <1>2, <1>3

\* What a step does to the numbers.
LEMMA NumbersStep ==
  ASSUME [Next]_vars
  PROVE  \/ Number
         \/ "LostReply" \in env /\ dev_seq' = Following(dev_seq) /\ cmd_seq' = cmd_seq
         \/ UNCHANGED seqs
  <1>1. ASSUME NEW id \in Ids, Issue(id) PROVE UNCHANGED seqs
    BY <1>1 DEF Issue
  <1>2. CASE Running
    BY <1>2 DEF Running, WriteReg, WriteRegBroken, WriteRegWalk, WriteRegAppend,
                AsyncCmdCheck, SendCmdLock, SendCmd, WaitOver
  <1>3. CASE Transfer \/ DeviceTakes
    BY <1>3 DEF Transfer, IntOutDone, IntOutError, LoseIntOutDone, DeviceTakes
  <1>4. CASE Reply \/ PreTbtt \/ TxStatus \/ LoseReply \/ UNCHANGED vars
    BY <1>4 DEF Reply, PreTbtt, TxStatus, LoseReply, vars
  <1> QED
    BY <1>1, <1>2, <1>3, <1>4 DEF Next

\* Without a loss no response is ever dropped: each carries the number that is
\* expected, from the first one on, which sets it (ar9170rx.c:386-415).
THEOREM SequenceKeptHolds == Spec => []SequenceKept
  <1>1. Init => SequenceKept
    BY DEF Init, SequenceKept, InSequence
  <1>2. SequenceKept /\ [Next]_vars => SequenceKept'
    <2> SUFFICES ASSUME SequenceKept, [Next]_vars, "LostReply" \notin env
                 PROVE  InSequence'
      BY SameEnv DEF SequenceKept
    <2>1. CASE Number
      BY <2>1 DEF Number, SequenceKept, InSequence
    <2>2. CASE UNCHANGED seqs
      BY <2>2 DEF seqs, SequenceKept, InSequence
    <2> QED
      BY <2>1, <2>2, NumbersStep
  <1> QED
    BY <1>1, <1>2, PTL DEF Spec

\* How many numbers the device is short of the one that is expected.
Missing ==
    IF cmd_seq >= dev_seq THEN cmd_seq - dev_seq ELSE cmd_seq + CmdBufs - dev_seq

\* After losses the number expected stays, and every response brings the device's
\* one nearer to it: fewer responses are dropped than there are numbers, whatever
\* else is lost meanwhile (ar9170rx.c:386-415).
THEOREM FewResponsesDropped ==
  Spec => [][~InSequence => /\ Missing \in 1 .. CmdBufs - 1
                            /\ cmd_seq' = cmd_seq
                            /\ Missing' \in {Missing - 1, Missing}
                            /\ Number => Missing' = Missing - 1]_vars
  <1>1. TInv /\ [Next]_vars =>
          [~InSequence => /\ Missing \in 1 .. CmdBufs - 1
                          /\ cmd_seq' = cmd_seq
                          /\ Missing' \in {Missing - 1, Missing}
                          /\ Number => Missing' = Missing - 1]_vars
    <2> SUFFICES ASSUME TInv, [Next]_vars, ~InSequence
                 PROVE  /\ Missing \in 1 .. CmdBufs - 1
                        /\ cmd_seq' = cmd_seq
                        /\ Missing' \in {Missing - 1, Missing}
                        /\ Number => Missing' = Missing - 1
      OBVIOUS
    <2>1. /\ CmdBufs \in Nat \ {0} /\ dev_seq \in 0 .. CmdBufs - 1
          /\ cmd_seq \in 0 .. CmdBufs - 1 /\ cmd_seq # dev_seq
      <3>1. CmdBufs \in Nat \ {0}
        BY UsbCmdAssumption
      <3>2. dev_seq \in 0 .. CmdBufs - 1 /\ cmd_seq \in 0 .. CmdBufs
        BY DEF TInv, TypeOK, Unset
      <3> QED
        BY <3>1, <3>2 DEF InSequence, Unset
    <2>2. Missing \in 1 .. CmdBufs - 1
      BY <2>1 DEF Missing
    <2>3. ASSUME dev_seq' = Following(dev_seq), cmd_seq' = cmd_seq
          PROVE  Missing' = Missing - 1
      <3>1. dev_seq' = IF dev_seq = CmdBufs - 1 THEN 0 ELSE dev_seq + 1
        BY <2>1, <2>3, FollowingIs
      <3> QED
        BY <2>1, <2>3, <3>1 DEF Missing
    <2>4. Number => dev_seq' = Following(dev_seq) /\ cmd_seq' = cmd_seq
      BY DEF Number
    <2>5. UNCHANGED seqs => Missing' = Missing /\ cmd_seq' = cmd_seq
      BY DEF seqs, Missing
    <2> QED
      BY <2>2, <2>3, <2>4, <2>5, NumbersStep
  <1> QED
    BY <1>1, TypeInit, TypeStep, PTL DEF Spec
=============================================================================
