--------------------------------- MODULE Metrics ---------------------------------
(***************************************************************************)
(* The I/O metrics of the `nesquic` process: nesquic/src/main.rs,          *)
(* nesquic/src/metrics/mod.rs and the eBPF programs of metrics.bpf.c.      *)
(*                                                                         *)
(* Three parties run at the same time.  The programs run inside every      *)
(* system call of every process; they put an event for each call of the    *)
(* monitored process in a ring buffer of bounded size.  The polling task   *)
(* moves events to SYSCALL_VOLUMES, 100 ms after it last found none.  The  *)
(* main task waits for a signal, detaches the programs, and pushes or      *)
(* prints what SYSCALL_VOLUMES holds; when it returns, the process ends.   *)
(*                                                                         *)
(* A system call is [syscall, msgs]: a sequence of messages, each a        *)
(* sequence of buffer lengths.  Calls without a vector have one message of *)
(* one buffer.                                                             *)
(***************************************************************************)
EXTENDS Naturals, Sequences

CONSTANTS
  Calls,      \* the system calls that processes make
  Capacity,   \* the events that fit in the ring buffer
  MaxCalls,   \* bound: the calls made while programs are attached
  Word,       \* 2^32, the range of an event's length
  Faults      \* TRUE: a program may fail to read the caller's memory

ASSUME CapacityAssumption == Capacity \in Nat \ {0}
ASSUME BoundAssumption == MaxCalls \in Nat
ASSUME WordAssumption == Word \in Nat \ {0}
ASSUME FaultsAssumption == Faults \in BOOLEAN

VARIABLES
  main,       \* "attaching", "signal", "detach", "output", "posting", "exited", "killed"
  job,        \* --job is given
  influx,     \* the INFLUX_ variables are set
  attached,   \* how many programs are attached, in the order of AttachOrder
  poller,     \* "absent", "polls" or "sleeps"
  ring,       \* the ring buffer: events [syscall, len]
  volumes,    \* SYSCALL_VOLUMES
  output,     \* what was taken from it for a request or printed
  outcome,    \* "none", "pushed", "lost", "empty" or "printed"
  calls,      \* history: the number of calls made
  accepted    \* history: the lengths that entered the ring, by system call

vars == <<main, job, influx, attached, poller, ring, volumes, output, outcome,
          calls, accepted>>

AttachOrder == <<"read", "write", "writev", "readv", "recvfrom", "recvmsg",
                 "recvmmsg", "sendto", "sendmsg", "sendmmsg">>

Syscalls == {AttachOrder[i] : i \in DOMAIN AttachOrder}

ASSUME CallsAssumption ==
  \A call \in Calls :
    /\ call.syscall \in Syscalls
    /\ call.msgs \in Seq(Seq(Nat)) /\ call.msgs # <<>>

Nothing == [s \in Syscalls |-> <<>>]

Init ==
  /\ main = "attaching" /\ job \in BOOLEAN /\ influx \in BOOLEAN
  /\ attached = 0 /\ poller = "absent" /\ ring = <<>>
  /\ volumes = Nothing /\ output = Nothing /\ outcome = "none"
  /\ calls = 0 /\ accepted = Nothing

Running == main \notin {"exited", "killed"}

-----------------------------------------------------------------------------
(***************************************************************************)
(* The eBPF programs.                                                      *)
(***************************************************************************)

\* count_iovec_len: k is an u32.
count_iovec_len(vec) ==
  LET k[i \in 0 .. Len(vec)] == IF i = 0 THEN 0 ELSE (k[i - 1] + vec[i]) % Word
  IN k[Len(vec)]

\* The vectors that the program of a call counts, one after the other: those of
\* the messages of sendmmsg and recvmmsg, and for a single message its vector once
\* for each of its buffers.
Vectors(call) ==
  CASE call.syscall \in {"sendmsg", "recvmsg"} ->
         [i \in DOMAIN call.msgs[1] |-> call.msgs[1]]
    [] call.syscall \in {"sendmmsg", "recvmmsg"} -> call.msgs
    [] OTHER -> <<call.msgs[1]>>

\* The length of the event.  A vector of which a buffer's entry cannot be read
\* counts as nothing; lost are the indices of these.
EventLen(call, lost) ==
  LET vecs == Vectors(call)
  IN count_iovec_len([i \in DOMAIN vecs |-> IF i \in lost THEN 0 ELSE count_iovec_len(vecs[i])])

\* The programs that read the caller's memory, and those that read a message
\* header there: if they cannot there is no event at all.
Vectored == {"writev", "readv", "sendmsg", "recvmsg", "sendmmsg", "recvmmsg"}
HasHeader == Vectored \ {"writev", "readv"}

Unreadable(call) ==
  IF Faults /\ call.syscall \in Vectored THEN SUBSET DOMAIN Vectors(call) ELSE {{}}

EventsOf(call) ==
  {<<[syscall |-> call.syscall, len |-> EventLen(call, lost)]>> : lost \in Unreadable(call)}
  \cup (IF Faults /\ call.syscall \in HasHeader THEN {<<>>} ELSE {})

Attached(s) == \E i \in 1 .. attached : AttachOrder[i] = s

\* Variant: the calls of every process are counted.
PidGuardOff(own) == TRUE

\* pid_guard.
PidGuard(own) == own

\* Variant: an event is submitted although no room could be reserved.
_submit_event_anyway(e) == ring \o e

\* _submit_event: no room, no event.
_submit_event(e) == IF Len(ring) = Capacity THEN ring ELSE ring \o e

\* A process, the monitored one if `own`, enters a system call.
SysEnter(call, own) ==
  /\ Running
  /\ calls < MaxCalls
  /\ Attached(call.syscall)
  /\ calls' = calls + 1
  /\ IF PidGuard(own)
     THEN \E e \in EventsOf(call) : ring' = _submit_event(e)
     ELSE UNCHANGED ring
  /\ accepted' = [accepted EXCEPT ![call.syscall] =
       IF own /\ Len(ring') > Len(ring) THEN Append(@, ring'[Len(ring')].len) ELSE @]
  /\ UNCHANGED <<main, job, influx, attached, poller, volumes, output, outcome>>

-----------------------------------------------------------------------------
(***************************************************************************)
(* The polling task.                                                       *)
(***************************************************************************)

\* ringbuf.poll calls process on one event ...
process ==
  /\ Running /\ poller = "polls"
  /\ ring # <<>>
  /\ volumes' = [volumes EXCEPT ![Head(ring).syscall] = Append(@, Head(ring).len)]
  /\ ring' = Tail(ring)
  /\ UNCHANGED <<main, job, influx, attached, poller, output, outcome, calls, accepted>>

\* Variant: the loop ends when the ring buffer is empty.
PollEndsLoop ==
  /\ Running /\ poller = "polls"
  /\ ring = <<>>
  /\ poller' = "absent"
  /\ UNCHANGED <<main, job, influx, attached, ring, volumes, output, outcome, calls, accepted>>

\* ... until there is none; the task then sleeps for 100 ms.
PollEnds ==
  /\ Running /\ poller = "polls"
  /\ ring = <<>>
  /\ poller' = "sleeps"
  /\ UNCHANGED <<main, job, influx, attached, ring, volumes, output, outcome, calls, accepted>>

PollerWakes ==
  /\ Running /\ poller = "sleeps"
  /\ poller' = "polls"
  /\ UNCHANGED <<main, job, influx, attached, ring, volumes, output, outcome, calls, accepted>>

-----------------------------------------------------------------------------
(***************************************************************************)
(* The main task.                                                          *)
(***************************************************************************)
Main(from, to) ==
  /\ main = from /\ main' = to
  /\ UNCHANGED <<job, influx, ring, calls, accepted>>

\* monitor_io: the programs are attached one after the other ...
AttachNext ==
  /\ attached < Len(AttachOrder)
  /\ Main("attaching", "attaching")
  /\ attached' = attached + 1
  /\ UNCHANGED <<poller, volumes, output, outcome>>

\* ... and the polling task is spawned.
SpawnPoller ==
  /\ attached = Len(AttachOrder)
  /\ Main("attaching", "signal")
  /\ poller' = "polls"
  /\ UNCHANGED <<attached, volumes, output, outcome>>

\* An error of monitor_io is a panic; a signal that comes before the handlers
\* are installed ends the process too.
StartupEnds ==
  /\ Main("attaching", "killed")
  /\ attached' = 0
  /\ UNCHANGED <<poller, volumes, output, outcome>>

\* SIGINT or SIGTERM.  With --job but without INFLUX_ variables main returns.
Signal ==
  /\ Main("signal", IF job /\ ~influx THEN "exited" ELSE "detach")
  /\ UNCHANGED <<attached, poller, volumes, output, outcome>>

\* self.links.take().
Detach ==
  /\ Main("detach", "output")
  /\ attached' = 0
  /\ UNCHANGED <<poller, volumes, output, outcome>>

\* Variant: the volumes are read but not drained.
VolumesLeftKept == volumes

\* What collect_line_protocol leaves in SYSCALL_VOLUMES.
VolumesLeft == Nothing

\* Variant: it waits for the first volume.
collect_line_protocol_waiting ==
  /\ job /\ volumes # Nothing
  /\ Main("output", "posting")
  /\ output' = volumes
  /\ volumes' = VolumesLeft
  /\ UNCHANGED <<attached, poller, outcome>>

\* push_all drains the volumes into the body of a request, if there are any.
collect_line_protocol ==
  /\ job
  /\ Main("output", IF volumes = Nothing THEN "exited" ELSE "posting")
  /\ output' = volumes
  /\ volumes' = VolumesLeft
  /\ outcome' = IF volumes = Nothing THEN "empty" ELSE outcome
  /\ UNCHANGED <<attached, poller>>

\* The answer: success, or an error that ends the process all the same.
Posted ==
  /\ Main("posting", "exited")
  /\ outcome' \in {"pushed", "lost"}
  /\ UNCHANGED <<attached, poller, volumes, output>>

\* report prints the volumes and leaves them where they are.
report ==
  /\ ~job
  /\ Main("output", "exited")
  /\ output' = volumes
  /\ outcome' = "printed"
  /\ UNCHANGED <<attached, poller, volumes>>

-----------------------------------------------------------------------------
Poller == process \/ PollEnds \/ PollerWakes

MainTask == AttachNext \/ SpawnPoller \/ Detach \/ collect_line_protocol \/ report

Next ==
  \/ \E call \in Calls, own \in BOOLEAN : SysEnter(call, own)
  \/ Poller
  \/ MainTask \/ Posted \/ StartupEnds \/ Signal

Spec == Init /\ [][Next]_vars

\* The two tasks run on the threads of the runtime.  Nothing says that InfluxDB
\* ever answers: the request has no time limit.
FairSpec == Spec /\ WF_vars(process) /\ WF_vars(PollerWakes) /\ WF_vars(MainTask)

-----------------------------------------------------------------------------
\* Type invariant of the three parties.
TypeOK ==
  /\ main \in {"attaching", "signal", "detach", "output", "posting", "exited", "killed"}
  /\ {job, influx} \subseteq BOOLEAN
  /\ attached \in 0 .. Len(AttachOrder)
  /\ poller \in {"absent", "polls", "sleeps"}
  /\ ring \in Seq([syscall : Syscalls, len : 0 .. Word - 1])
  /\ Len(ring) <= Capacity
  /\ {volumes, output, accepted} \subseteq [Syscalls -> Seq(0 .. Word - 1)]
  /\ outcome \in {"none", "pushed", "lost", "empty", "printed"}
  /\ calls \in 0 .. MaxCalls

\* The lengths of the events of s that are still in the ring buffer.
Lengths(events, s) ==
  LET of[i \in 0 .. Len(events)] ==
        IF i = 0 THEN <<>>
        ELSE IF events[i].syscall = s THEN Append(of[i - 1], events[i].len) ELSE of[i - 1]
  IN of[Len(events)]

InRing(s) == Lengths(ring, s)

\* Every event that the ring buffer accepted for a call of the monitored process
\* is in exactly one place, in order, and there are no others: it has been put in
\* a request, is in SYSCALL_VOLUMES (where printing leaves it) or in the ring.
EachEventOnce ==
  \A s \in Syscalls :
    accepted[s] =
      (IF outcome = "printed" THEN volumes[s] ELSE output[s] \o volumes[s]) \o InRing(s)

\* What is pushed or printed for a system call are its first events, none left
\* out and none twice, however the polling task interleaves with main.
OutputIsPrefix ==
  \A s \in Syscalls :
    /\ Len(output[s]) <= Len(accepted[s])
    /\ output[s] = SubSeq(accepted[s], 1, Len(output[s]))

\* Once the calls stop, the polling task catches up with the ring buffer, unless
\* the process ends first.
PollerCatchesUp == []<>(ring = <<>> \/ ~Running)

\* A signal ends the process: whatever has been collected, and whatever the
\* polling task does meanwhile, main prints and returns, or has nothing to push and
\* returns, or awaits the answer of InfluxDB, for which it would wait forever.
SignalEnds == main = "detach" ~> main \in {"exited", "posting"}

\* When main reads SYSCALL_VOLUMES, the ring buffer is empty (metrics/mod.rs,
\* push_all: "Dropping links flushes the ring buffer").
DetachFlushes == main \in {"output", "posting"} => ring = <<>>
=============================================================================
