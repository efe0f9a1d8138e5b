------------------------------- MODULE Kernel -------------------------------
(***************************************************************************)
(* The kernel of Contiki that everything else runs on: processes, events   *)
(* and polls (core/sys/process.c) and event timers (core/sys/etimer.c).    *)
(*                                                                         *)
(* There is one C stack.  A handler of a process may call the kernel,      *)
(* which calls handlers of other processes: the model keeps that stack     *)
(* explicitly, one frame per kernel function or process thread that has    *)
(* not returned.  Interrupts come between any two steps.  The process list *)
(* is kept as the code keeps it, by next pointers: a walk over it goes on  *)
(* from a process that has been unlinked meanwhile.                        *)
(*                                                                         *)
(* What a thread does is not the kernel's business: an application's       *)
(* thread makes any sequence of kernel calls, then yields or ends.         *)
(***************************************************************************)
EXTENDS Naturals, Sequences, FiniteSets

CONSTANTS
    Apps,         \* the processes other than the event timer process
    Timers,       \* the struct etimers of the applications
    NumEvents,    \* PROCESS_CONF_NUMEVENTS, the length of the event queue
    MaxInterval,  \* bound: the longest time a timer is set for, in ticks
    MaxNesting,   \* bound: the depth of the stack at which threads make no
                  \* further call that runs another thread
    Etimer,       \* etimer_process
    First,         \* stands for the variable process_list
    NoProc,       \* a null pointer, PROCESS_NONE
    Broadcast     \* PROCESS_BROADCAST

ASSUME KernelAssumption ==
    /\ NumEvents \in Nat \ {0}
    /\ MaxInterval \in Nat \ {0}
    /\ MaxNesting \in Nat
    /\ Etimer \notin {First, NoProc, Broadcast}
    /\ First \notin {NoProc, Broadcast} /\ NoProc # Broadcast
    /\ Apps \cap {Etimer, First, NoProc, Broadcast} = {}

Procs == Apps \cup {Etimer}

VARIABLES
    nxt,             \* next pointers; nxt[First] is process_list
    state,           \* p->state: "none", "running" or "called"
    needspoll,       \* p->needspoll
    poll_requested,
    events,          \* the ring of events that wait, oldest first
    process_current,
    timerlist,       \* the list of etimers, first to last
    timer_p,         \* timer->p
    left,            \* ticks until the timer expires (0: expired)
    stack,           \* frames, innermost first
    phase,           \* where process_run is when the stack is empty
    asked            \* history: polls accepted and not yet served

vars == <<nxt, state, needspoll, poll_requested, events, process_current,
          timerlist, timer_p, left, stack, phase, asked>>

listVars  == <<nxt, state>>
pollVars  == <<needspoll, poll_requested, asked>>
timerVars == <<timerlist, timer_p, left>>

-----------------------------------------------------------------------------
(* The process list *)

\* A set of processes that goes on with each process to the next one.
Closed(S) == \A q \in S : nxt[q] \in S \cup {NoProc}

\* The processes that a walk over the list at x has still to reach: those that
\* no such set which holds the next one can do without.
Ahead(x) ==
    {p \in Procs : \A S \in SUBSET Procs :
                       nxt[x] \in S \cup {NoProc} /\ Closed(S) => p \in S}

Listed(p) == p \in Ahead(First)

\* Variant: the rest of the list goes with the process that is removed.
UnlinkedWithRest(p) ==
    [q \in DOMAIN nxt |-> IF nxt[q] = p THEN NoProc ELSE nxt[q]]

Unlinked(p) ==
    [q \in DOMAIN nxt |->
        IF nxt[q] = p /\ (q = First \/ Listed(q)) THEN nxt[p] ELSE nxt[q]]

-----------------------------------------------------------------------------
(* Frames.  kind says which function it is, p the process it is about:     *)
(*   "poll"   do_poll, at process p of its walk                            *)
(*   "bcast"  the loop of do_event for a broadcast, at process p           *)
(*   "deliver" the same, having polled, before it calls p                  *)
(*   "thread" call_process(p, ev, q); back is the caller to be restored by *)
(*            process_post_synch, NoProc for a plain call                  *)
(*   "exit"   exit_process(p, from), its walk being at q                   *)
(*   "bye"    the thread of p, called by exit_process with EXIT            *)
(*   "unlink" the end of exit_process(p)                                   *)

Frame(kind, p, q, ev, back) ==
    [kind |-> kind, p |-> p, q |-> q, ev |-> ev, back |-> back]

Top      == stack[1]
Running(kind) == stack # <<>> /\ Top.kind = kind
InThread == stack # <<>> /\ Top.kind \in {"thread", "bye"}

\* p's thread has been called and has not returned.
OnStack(p) ==
    \E i \in DOMAIN stack : stack[i].kind \in {"thread", "bye"} /\ stack[i].p = p

\* call_process(p, ev, q) on top of the frames rest, given the states st.
CallProcess(p, ev, q, back, rest, st) ==
    IF st[p] = "running"
    THEN /\ state' = [st EXCEPT ![p] = "called"]
         /\ process_current' = p
         /\ stack' = <<Frame("thread", p, q, ev, back)>> \o rest
    ELSE /\ state' = st
         /\ stack' = rest
         /\ UNCHANGED process_current

\* exit_process(p, from), whose end sets process_current to back.
ExitProcess(p, from, back, rest) ==
    IF ~Listed(p)
    THEN /\ stack' = rest
         /\ process_current' = back
         /\ UNCHANGED listVars
    ELSE IF state[p] = "none"
    THEN /\ nxt' = Unlinked(p)
         /\ stack' = rest
         /\ process_current' = back
         /\ UNCHANGED state
    ELSE /\ state' = [state EXCEPT ![p] = "none"]
         /\ stack' = <<Frame("exit", p, First, from, back)>> \o rest
         /\ UNCHANGED <<nxt, process_current>>

\* process_poll(p)
PollProcess(p) ==
    IF state[p] # "none"
    THEN /\ needspoll' = [needspoll EXCEPT ![p] = TRUE]
         /\ poll_requested' = TRUE
         /\ asked' = [asked EXCEPT ![p] = TRUE]
    ELSE UNCHANGED pollVars

-----------------------------------------------------------------------------
(* The main loop *)

\* process_run, up to its call of do_event.
ProcessRun ==
    /\ stack = <<>> /\ phase = "poll"
    /\ phase' = "event"
    /\ IF poll_requested
       THEN /\ poll_requested' = FALSE
            /\ stack' = <<Frame("poll", First, NoProc, "-", NoProc)>>
       ELSE UNCHANGED <<poll_requested, stack>>
    /\ UNCHANGED <<listVars, needspoll, asked, events, process_current, timerVars>>

\* Variant: the request is taken back at the end of the walk.
DoPollForgets ==
    /\ Running("poll")
    /\ LET p    == nxt[Top.p]
           rest == <<[Top EXCEPT !.p = p]>> \o Tail(stack)
       IN  IF p = NoProc
           THEN /\ stack' = Tail(stack)
                /\ poll_requested' = FALSE
                /\ UNCHANGED <<state, needspoll, asked, process_current>>
           ELSE /\ IF needspoll[p]
                   THEN /\ needspoll' = [needspoll EXCEPT ![p] = FALSE]
                        /\ asked' = [asked EXCEPT ![p] = FALSE]
                        /\ CallProcess(p, "POLL", NoProc, NoProc, rest, state)
                   ELSE /\ stack' = rest
                        /\ UNCHANGED <<state, needspoll, asked, process_current>>
                /\ UNCHANGED poll_requested
    /\ UNCHANGED <<nxt, events, timerVars, phase>>

\* do_poll: the next process of the walk is called if it needs a poll.
DoPoll ==
    /\ Running("poll")
    /\ LET p    == nxt[Top.p]
           rest == <<[Top EXCEPT !.p = p]>> \o Tail(stack)
       IN  IF p = NoProc
           THEN /\ stack' = Tail(stack)
                /\ UNCHANGED <<state, needspoll, asked, process_current>>
           ELSE IF needspoll[p]
           THEN /\ needspoll' = [needspoll EXCEPT ![p] = FALSE]
                /\ asked' = [asked EXCEPT ![p] = FALSE]
                /\ CallProcess(p, "POLL", NoProc, NoProc, rest,
                               [state EXCEPT ![p] = "running"])
           ELSE /\ stack' = rest
                /\ UNCHANGED <<state, needspoll, asked, process_current>>
    /\ UNCHANGED <<nxt, poll_requested, events, timerVars, phase>>

\* do_event: the oldest event is taken, and delivered if it has one receiver.
DoEvent ==
    /\ stack = <<>> /\ phase = "event"
    /\ phase' = "poll"
    /\ IF events = <<>>
       THEN UNCHANGED <<state, process_current, stack, events>>
       ELSE LET e == events[1] IN
            /\ events' = Tail(events)
            /\ IF e.p = Broadcast
               THEN /\ stack' = <<Frame("bcast", First, NoProc, e.ev, NoProc)>>
                    /\ UNCHANGED <<state, process_current>>
               ELSE CallProcess(e.p, e.ev, NoProc, NoProc, <<>>, state)
    /\ UNCHANGED <<nxt, pollVars, timerVars>>

\* do_event for a broadcast: polls come before each delivery.
BroadcastPolls ==
    /\ Running("bcast")
    /\ LET p    == nxt[Top.p]
           here == [Top EXCEPT !.p = p, !.kind = "deliver"]
       IN  IF p = NoProc
           THEN stack' = Tail(stack) /\ UNCHANGED poll_requested
           ELSE /\ poll_requested' = FALSE
                /\ stack' = (IF poll_requested
                             THEN <<Frame("poll", First, NoProc, "-", NoProc)>>
                             ELSE <<>>) \o <<here>> \o Tail(stack)
    /\ UNCHANGED <<listVars, needspoll, asked, events, process_current, timerVars, phase>>

BroadcastDelivers ==
    /\ Running("deliver")
    /\ CallProcess(Top.p, Top.ev, NoProc, NoProc,
                   <<[Top EXCEPT !.kind = "bcast"]>> \o Tail(stack), state)
    /\ UNCHANGED <<nxt, pollVars, events, timerVars, phase>>

-----------------------------------------------------------------------------
(* exit_process *)

\* Every other process is told that p exits; then p itself, if it is not the
\* one that asked.
ExitWalk ==
    /\ Running("exit")
    /\ LET p    == Top.p
           q    == nxt[Top.q]
           rest == <<[Top EXCEPT !.q = q]>> \o Tail(stack)
           end  == Frame("unlink", p, NoProc, "-", Top.back)
       IN  IF q = NoProc
           THEN /\ UNCHANGED state
                /\ IF Top.ev # p
                   THEN /\ process_current' = p
                        /\ stack' = <<Frame("bye", p, NoProc, "EXIT", NoProc), end>>
                                    \o Tail(stack)
                   ELSE /\ stack' = <<end>> \o Tail(stack)
                        /\ UNCHANGED process_current
           ELSE IF q # p
           THEN CallProcess(q, "EXITED", p, NoProc, rest, state)
           ELSE /\ stack' = rest
                /\ UNCHANGED <<state, process_current>>
    /\ UNCHANGED <<nxt, pollVars, events, timerVars, phase>>

Unlink ==
    /\ Running("unlink")
    /\ nxt' = Unlinked(Top.p)
    /\ process_current' = Top.back
    /\ stack' = Tail(stack)
    /\ UNCHANGED <<state, pollVars, events, timerVars, phase>>

-----------------------------------------------------------------------------
(* What the thread of a process does *)

\* A thread returns: call_process goes on after the call.
Returns(p, ended) ==
    IF Top.kind = "bye"
    THEN /\ stack' = Tail(stack)
         /\ UNCHANGED <<listVars, process_current>>
    ELSE LET back == IF Top.back = NoProc THEN process_current ELSE Top.back
         IN  IF ended \/ Top.ev = "EXIT"
             THEN ExitProcess(p, p, back, Tail(stack))
             ELSE /\ state' = [state EXCEPT ![p] = "running"]
                  /\ stack' = Tail(stack)
                  /\ process_current' = back
                  /\ UNCHANGED nxt

AppRuns(p) == InThread /\ Top.p = p /\ p \in Apps

Yield(p) ==
    /\ AppRuns(p)
    /\ Returns(p, FALSE)
    /\ UNCHANGED <<pollVars, events, timerVars, phase>>

End(p) ==
    /\ AppRuns(p)
    /\ Returns(p, TRUE)
    /\ UNCHANGED <<pollVars, events, timerVars, phase>>

\* p makes a call into the kernel.  The handlers of EXITED in the tree
\* (etimer.c:91, tcpip.c:380) and the exit handlers make none.
Calls(p) == AppRuns(p) /\ Top.kind = "thread" /\ Top.ev # "EXITED"

\* process_post: an event that finds the queue full is dropped.
Post(p, to, ev) ==
    /\ Calls(p)
    /\ Len(events) < NumEvents
    /\ events' = Append(events, [p |-> to, ev |-> ev])
    /\ UNCHANGED <<listVars, pollVars, process_current, timerVars, stack, phase>>

\* process_post_synch
PostSynch(p, to) ==
    /\ Calls(p) /\ Len(stack) < MaxNesting
    /\ CallProcess(to, "CONTINUE", NoProc, process_current, stack, state)
    /\ UNCHANGED <<nxt, pollVars, events, timerVars, phase>>

\* process_start: nothing happens if the process is on the list.
ProcessStart(p, r) ==
    /\ Calls(p) /\ Len(stack) < MaxNesting
    /\ ~Listed(r)
    /\ nxt' = [nxt EXCEPT ![r] = nxt[First], ![First] = r]
    /\ CallProcess(r, "INIT", NoProc, process_current, stack,
                   [state EXCEPT ![r] = "running"])
    /\ asked' = [asked EXCEPT ![r] = FALSE]
    /\ UNCHANGED <<needspoll, poll_requested, events, timerVars, phase>>

\* process_exit, of a process whose thread is not being executed (the callers,
\* timesynch.c:95 and resolv.c:500, restart a process other than their own).
ProcessExit(p, r) ==
    /\ Calls(p) /\ Len(stack) < MaxNesting
    /\ ~OnStack(r)
    /\ ExitProcess(r, process_current, process_current, stack)
    /\ UNCHANGED <<pollVars, events, timerVars, phase>>

ProcessPoll(p, r) ==
    /\ Calls(p)
    /\ PollProcess(r)
    /\ UNCHANGED <<listVars, events, process_current, timerVars, stack, phase>>

-----------------------------------------------------------------------------
(* Event timers *)

InList(t) == \E i \in DOMAIN timerlist : timerlist[i] = t

\* The list without the timers in T.
Without(T) ==
    LET rest[i \in 0 .. Len(timerlist)] ==
            IF i = 0 THEN <<>>
            ELSE IF timerlist[i] \in T THEN rest[i - 1]
            ELSE Append(rest[i - 1], timerlist[i])
    IN  rest[Len(timerlist)]

\* etimer_set.
EtimerSet(p, t, interval) ==
    /\ Calls(p)
    /\ left' = [left EXCEPT ![t] = interval]
    /\ timer_p' = [timer_p EXCEPT ![t] = process_current]
    /\ timerlist' = IF timer_p[t] # NoProc /\ InList(t)
                    THEN timerlist
                    ELSE <<t>> \o timerlist
    /\ PollProcess(Etimer)
    /\ UNCHANGED <<listVars, events, process_current, stack, phase>>

EtimerStop(p, t) ==
    /\ Calls(p)
    /\ timerlist' = Without({t})
    /\ timer_p' = [timer_p EXCEPT ![t] = NoProc]
    /\ UNCHANGED <<listVars, pollVars, events, process_current, left, stack, phase>>

Expired == {i \in DOMAIN timerlist : left[timerlist[i]] = 0}

EtimerRuns(ev) == Running("thread") /\ Top.p = Etimer /\ Top.ev = ev

\* etimer_process, PROCESS_EVENT_POLL: the first timer that has expired is
\* handed to its process, and the scan starts again.
EtimerExpires ==
    /\ EtimerRuns("POLL")
    /\ Expired # {} /\ Len(events) < NumEvents
    /\ LET i == CHOOSE i \in Expired : \A j \in Expired : i <= j
           t == timerlist[i]
       IN  /\ events' = Append(events, [p |-> timer_p[t], ev |-> "TIMER"])
           /\ timer_p' = [timer_p EXCEPT ![t] = NoProc]
           /\ timerlist' = Without({t})
    /\ UNCHANGED <<listVars, pollVars, process_current, left, stack, phase>>

\* The scan ends.  If the queue was full the poll is asked for again.
EtimerScanned ==
    /\ EtimerRuns("POLL")
    /\ Expired = {} \/ Len(events) = NumEvents
    /\ IF Expired # {} THEN PollProcess(Etimer) ELSE UNCHANGED pollVars
    /\ Returns(Etimer, FALSE)
    /\ UNCHANGED <<events, timerVars, phase>>

\* etimer_process, PROCESS_EVENT_EXITED: the timers of the process that exits
\* leave the list.  Their p field is not touched.
OfProcess(q) == {t \in Timers : timer_p[t] = q}

\* Variant: only the timers at the front of the list are removed.
EtimerExitedFront ==
    /\ EtimerRuns("EXITED")
    /\ \E n \in 0 .. Len(timerlist) :
          /\ \A i \in 1 .. n : timer_p[timerlist[i]] = Top.q
          /\ n < Len(timerlist) => timer_p[timerlist[n + 1]] # Top.q
          /\ timerlist' = SubSeq(timerlist, n + 1, Len(timerlist))
    /\ Returns(Etimer, FALSE)
    /\ UNCHANGED <<pollVars, events, timer_p, left, phase>>

EtimerExited ==
    /\ EtimerRuns("EXITED")
    /\ timerlist' = Without(OfProcess(Top.q))
    /\ Returns(Etimer, FALSE)
    /\ UNCHANGED <<pollVars, events, timer_p, left, phase>>

\* Other events mean nothing to it.
EtimerIgnores ==
    /\ Running("thread") /\ Top.p = Etimer /\ Top.ev \notin {"POLL", "EXITED"}
    /\ Returns(Etimer, FALSE)
    /\ UNCHANGED <<pollVars, events, timerVars, phase>>

-----------------------------------------------------------------------------
(* Interrupts *)

\* SysTick_Handler
Tick ==
    /\ left' = [t \in Timers |-> IF left[t] = 0 THEN 0 ELSE left[t] - 1]
    /\ IF timerlist # <<>> THEN PollProcess(Etimer) ELSE UNCHANGED pollVars
    /\ UNCHANGED <<listVars, events, process_current, timerlist, timer_p, stack, phase>>

\* Drivers poll their process: slip.c:389, serial-line.c:83.
InterruptPolls(p) ==
    /\ PollProcess(p)
    /\ UNCHANGED <<listVars, events, process_current, timerVars, stack, phase>>

-----------------------------------------------------------------------------
\* After the start-up code: the event timer process and the applications run.
Init ==
    /\ \E order \in [Procs \cup {First} -> Procs \cup {NoProc}] :
          /\ nxt = order
          /\ \A p \in Procs : Listed(p)
          /\ order[Etimer] = NoProc
    /\ state = [p \in Procs |-> "running"]
    /\ needspoll = [p \in Procs |-> FALSE]
    /\ poll_requested = FALSE
    /\ events = <<>>
    /\ process_current = NoProc
    /\ timerlist = <<>>
    /\ timer_p = [t \in Timers |-> NoProc]
    /\ left = [t \in Timers |-> 0]
    /\ stack = <<>>
    /\ phase = "poll"
    /\ asked = [p \in Procs |-> FALSE]

AppStep(p) ==
    \/ Yield(p)
    \/ End(p)
    \/ \E to \in Apps, ev \in {"EXIT", "CONTINUE"} : Post(p, to, ev)
    \/ Post(p, Broadcast, "CONTINUE")
    \/ \E r \in Apps :
          \/ PostSynch(p, r)
          \/ ProcessStart(p, r)
          \/ ProcessExit(p, r)
          \/ ProcessPoll(p, r)
    \/ \E t \in Timers : EtimerStop(p, t)
    \/ \E t \in Timers, i \in 0 .. MaxInterval : EtimerSet(p, t, i)

MainStep ==
    \/ ProcessRun
    \/ DoPoll
    \/ DoEvent
    \/ BroadcastPolls
    \/ BroadcastDelivers
    \/ ExitWalk
    \/ Unlink
    \/ EtimerExpires
    \/ EtimerScanned
    \/ EtimerExited
    \/ EtimerIgnores

Next ==
    \/ MainStep
    \/ \E p \in Apps : AppStep(p)
    \/ Tick
    \/ \E p \in Apps : InterruptPolls(p)

Spec == Init /\ [][Next]_vars

-----------------------------------------------------------------------------
(* Properties *)

Position == Procs \cup {First, NoProc}

TypeOK ==
    /\ nxt \in [Procs \cup {First} -> Procs \cup {NoProc}]
    /\ state \in [Procs -> {"none", "running", "called"}]
    /\ needspoll \in [Procs -> BOOLEAN]
    /\ poll_requested \in BOOLEAN
    /\ Len(events) <= NumEvents
    /\ process_current \in Procs \cup {NoProc}
    /\ Len(timerlist) <= Cardinality(Timers)
    /\ timer_p \in [Timers -> Procs \cup {NoProc}]
    /\ left \in [Timers -> 0 .. MaxInterval]
    /\ \A i \in DOMAIN stack : stack[i].p \in Position /\ stack[i].q \in Position
    /\ phase \in {"poll", "event"}
    /\ asked \in [Procs -> BOOLEAN]

\* A poll that was accepted for a process that has not exited since is not
\* lost, whenever it came: either do_poll will run again, or the walk it is
\* on has yet to reach the process (process.c:224-238 and 370-381).
PollNotLost ==
    \A p \in Procs :
        asked[p] /\ Listed(p) /\ state[p] # "none" =>
            /\ needspoll[p]
            /\ \/ poll_requested
               \/ \E i \in DOMAIN stack : stack[i].kind = "poll" /\ p \in Ahead(stack[i].p)

\* The list and the states agree: a process that can be called is on the
\* list, so that it can exit and be started again (process.c:98-172).
RunningIsListed ==
    \A p \in Procs : state[p] # "none" => Listed(p)

\* The EXITED walk of p has yet to reach etimer_process.
ExitPending(p) ==
    \E i \in DOMAIN stack :
        /\ stack[i].kind = "exit" /\ stack[i].p = p
        /\ \/ Etimer \in Ahead(stack[i].q)
           \/ \E j \in 1 .. i - 1 :
                 stack[j].kind = "thread" /\ stack[j].p = Etimer /\ stack[j].q = p

\* No timer outlives its process, whatever order timers were set, stopped and
\* set again in: a timer is on the list once, and belongs to a process that
\* runs, or that is exiting and whose timers are about to be removed
\* (etimer.c:91-107, process.c:142-151).
TimersOfTheLiving ==
    /\ \A i, j \in DOMAIN timerlist : timerlist[i] = timerlist[j] => i = j
    /\ \A i \in DOMAIN timerlist :
          LET p == timer_p[timerlist[i]]
          IN  p # NoProc /\ (state[p] # "none" \/ ExitPending(p))

\* What the comment at process.c:142-146 says: when a process exits all other
\* processes are told.
AllInformed ==
    [][ LET q == nxt[Top.q]
        IN  Running("exit") /\ q \notin {Top.p, NoProc} /\ state[q] # "none"
               /\ stack' # stack
            => stack'[1].kind = "thread" /\ stack'[1].p = q ]_vars
=============================================================================
