-------------------------------- MODULE MCMetrics --------------------------------
(* Instances of Metrics for TLC. *)
EXTENDS Metrics

\* A datagram of two buffers is sent, and a buffer is read.
TwoBuffers == [syscall |-> "sendmsg", msgs |-> <<<<1, 2>>>>]
OneRead == [syscall |-> "read", msgs |-> <<<<2>>>>]

\* Two datagrams in one call, and a receive into one buffer.
TwoDatagrams == [syscall |-> "sendmmsg", msgs |-> <<<<1>>, <<3, 2>>>>]
OneReceive == [syscall |-> "recvmsg", msgs |-> <<<<3>>>>]

SomeCalls == {TwoBuffers, OneRead}
AllCalls == SomeCalls \cup {TwoDatagrams, OneReceive}
=============================================================================
