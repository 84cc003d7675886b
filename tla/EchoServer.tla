----------------------------- MODULE EchoServer -----------------------------
(***************************************************************************)
(* The TCP echo program of vitis/eth_echo: the main loop of main.c with    *)
(* its two timer flags, and the callbacks of echo_server.c, over the lwIP  *)
(* stack, a timer interrupt and a client on the PC (eth_echo_test.py).     *)
(*                                                                         *)
(* The bytes of the stream are units 1, 2, 3 ... in the order the client   *)
(* sends them.  A pbuf chain is the set of its pbufs' ends, counted from   *)
(* the start of the chain: an empty pbuf, which echo_recv skips, adds none.*)
(* echoed is never shortened: acked, returned and output point into it.    *)
(*                                                                         *)
(* lwIP, the interrupt and the PC are external and modelled by what the    *)
(* program relies on.  Both directions of TCP are reliable and in order,   *)
(* by retransmission; a segment of the client acknowledges what the client *)
(* had received when it sent the segment.                                  *)
(***************************************************************************)
EXTENDS Integers, Sequences, FiniteSetsExt

CONSTANTS
    Total,      \* bound: units the client sends
    MaxEchoed,  \* bound: units echoed, beyond which nothing is delivered again
    SndBuf,     \* units tcp_write can hold: TCP_SND_BUF, or less if memory is
    RcvWnd      \* the receive window, TCP_WND

ASSUME EchoAssumption ==
    /\ Total \in Nat \ {0} /\ MaxEchoed \in Nat
    /\ SndBuf \in Nat \ {0} /\ RcvWnd \in Nat \ {0}

VARIABLES
    loop,            \* where main is: boot, fast, fast_clear, ..., input, exit
    TcpFastTmrFlag, TcpSlowTmrFlag,
    pcb,             \* none, open, closing
    consumed,        \* units handed to echo_recv
    window,          \* units the client may still transmit
    echoed,          \* the units tcp_write took, in order
    refused          \* the chain a failed echo_recv left with the stack

VARIABLES
    transmitted, ack_of, client_closed, \* the client: per unit the acknowledgement sent with it
    acked, returned, output,        \* of echoed: acknowledged, received, put on the wire
    lost,                           \* what was on the wire was lost
    excess, broken                  \* history

boardVars == <<loop, TcpFastTmrFlag, TcpSlowTmrFlag, pcb, consumed, window, echoed, refused>>
pcVars == <<transmitted, ack_of, client_closed>>
wireVars == <<acked, returned, output, lost>>
echoVars == <<boardVars, pcVars, wireVars, excess, broken>>

NoChain == [at |-> 0, ends |-> {}]
Junk == 0   \* a byte of a buffer that was freed and used again
Larger(a, b) == IF a >= b THEN a ELSE b
Smaller(a, b) == IF a <= b THEN a ELSE b
-----------------------------------------------------------------------------
\* main: the interface, the listening socket and the interrupts, or the exit.
Boot ==
    /\ loop = "boot"
    /\ loop' \in {"fast", "exit"}
    /\ UNCHANGED <<TcpFastTmrFlag, TcpSlowTmrFlag, pcb, consumed, window, echoed, refused,
                   pcVars, wireVars, excess, broken>>

\* The timer interrupt, at any moment once interrupts are enabled.
Tick ==
    /\ loop \notin {"boot", "exit"}
    /\ \/ TcpFastTmrFlag' = TRUE /\ UNCHANGED TcpSlowTmrFlag
       \/ TcpSlowTmrFlag' = TRUE /\ UNCHANGED TcpFastTmrFlag
    /\ UNCHANGED <<loop, pcb, consumed, window, echoed, refused, pcVars, wireVars,
                   excess, broken>>

unacked == Len(echoed) - acked'

\* What tcp_write accepts of a chain, pbuf by pbuf until one does not fit.
\* Mutant: only the first pbuf of the chain is written.
FirstPbufOnly(ends) == IF unacked + Min(ends) <= SndBuf THEN Min(ends) ELSE 0
Written(ends) == Max({0} \cup {e \in ends : unacked + e <= SndBuf})

\* tcp_recved, up to the whole window.
\* Mutant: the window is not opened again.
NotRecved(free, n) == free
Recved(free, n) == Smaller(free + n, RcvWnd)

\* echo_recv with a chain whose first byte is data[1].  The bytes are
\* acknowledged first, then echoed, and the chain is freed in any case; a
\* result other than ERR_OK makes the stack keep what it takes for its own.
\* tcp_output is taken to return ERR_OK: from within tcp_input it sends later.
EchoRecv(data, ends, at, free) ==
    LET written == Written(ends)
        ok == written = Max(ends)
    IN  /\ window' = Recved(free, Max(ends))
        /\ echoed' = echoed \o SubSeq(data, 1, written)
        /\ output' = IF ok THEN Len(echoed') ELSE output
        /\ refused' = IF ok THEN NoChain ELSE [at |-> at, ends |-> ends]

\* echo_recv without a chain: the client has closed.  The result of tcp_close
\* is ignored.  The stack sends what tcp_write took before it closes, unless
\* data was not taken by the application: then it resets the connection.
EchoClose ==
    /\ pcb' = IF window = RcvWnd /\ refused = NoChain THEN "closing" ELSE "none"
    /\ broken' = (broken \/ pcb' = "none")
    /\ UNCHANGED <<consumed, window, echoed, refused, wireVars>>

\* The chain that was freed comes back with what is in its buffers by now.
refused_pending ==
    pcb = "open" /\ refused # NoChain /\ Len(echoed) + Max(refused.ends) <= MaxEchoed
Redeliver ==
    /\ refused_pending
    /\ UNCHANGED <<pcb, consumed, acked, returned, lost, broken>>
    /\ \E data \in {[i \in 1 .. Max(refused.ends) |-> refused.at + i],
                    [i \in 1 .. Max(refused.ends) |-> Junk]} :
           EchoRecv(data, refused.ends, refused.at, window)

NothingToDo == UNCHANGED <<pcb, consumed, window, echoed, refused, wireVars, broken>>
-----------------------------------------------------------------------------
\* tcp_fasttmr retries refused data.
FastTimer ==
    /\ loop = "fast"
    /\ IF TcpFastTmrFlag
       THEN /\ loop' = "fast_clear"
            /\ IF refused_pending THEN Redeliver ELSE NothingToDo
       ELSE /\ loop' = "slow"
            /\ NothingToDo
    /\ UNCHANGED <<TcpFastTmrFlag, TcpSlowTmrFlag, pcVars, excess>>

\* The flag is cleared after the handler: a tick in between is lost.
FastClear ==
    /\ loop = "fast_clear" /\ loop' = "slow"
    /\ TcpFastTmrFlag' = FALSE
    /\ NothingToDo
    /\ UNCHANGED <<TcpSlowTmrFlag, pcVars, excess>>

\* tcp_slowtmr sends again what was lost.
SlowTimer ==
    /\ loop = "slow"
    /\ loop' = IF TcpSlowTmrFlag THEN "slow_clear" ELSE "input"
    /\ lost' = (lost /\ ~TcpSlowTmrFlag)
    /\ UNCHANGED <<TcpFastTmrFlag, TcpSlowTmrFlag, pcb, consumed, window, echoed, refused,
                   pcVars, acked, returned, output, excess, broken>>

SlowClear ==
    /\ loop = "slow_clear" /\ loop' = "input"
    /\ TcpSlowTmrFlag' = FALSE
    /\ NothingToDo
    /\ UNCHANGED <<TcpFastTmrFlag, pcVars, excess>>

\* xemacif_input hands at most one frame to the stack.
Input ==
    /\ loop = "input" /\ loop' = "fast"
    /\ UNCHANGED <<TcpFastTmrFlag, TcpSlowTmrFlag, pcVars, excess>>

NoFrame == Input /\ NothingToDo

\* A connection request: echo_accept, or an error that makes the stack drop it.
Connected ==
    /\ Input
    /\ pcb = "none" /\ ~broken /\ ~client_closed
    /\ pcb' \in {"open", "none"}
    /\ broken' = (pcb' = "none")
    /\ UNCHANGED <<consumed, window, echoed, refused, wireVars>>

\* Data in order, as a chain of pbufs.
Data ==
    /\ Input
    /\ pcb = "open" /\ refused = NoChain
    /\ \E n \in 1 .. Smaller(transmitted - consumed, window) :
           /\ acked' = Larger(acked, ack_of[consumed + n])
           /\ \E ends \in SUBSET (1 .. n) :
                  /\ n \in ends
                  /\ EchoRecv([i \in 1 .. n |-> consumed + i], ends, consumed, window - n)
           /\ consumed' = consumed + n
    /\ UNCHANGED <<pcb, returned, lost, broken>>

Retried == Input /\ Redeliver

\* An acknowledgement; the stack goes on with what it has not sent.
Ack ==
    /\ Input
    /\ pcb # "none"
    /\ acked' = returned
    /\ output' = Len(echoed)
    /\ UNCHANGED <<pcb, consumed, window, echoed, refused, returned, lost, broken>>

\* The client's FIN comes after all its data.
Fin ==
    /\ Input
    /\ pcb = "open" /\ client_closed /\ consumed = transmitted /\ refused = NoChain
    /\ EchoClose

\* The connection breaks: echo_error only reports it.
Reset ==
    /\ Input
    /\ pcb # "none"
    /\ pcb' = "none" /\ broken' = TRUE
    /\ UNCHANGED <<consumed, window, echoed, refused, wireVars>>
-----------------------------------------------------------------------------
\* A client within its budget has at most a send buffer of the board's to come
\* back.
ClientSend ==
    /\ pcb = "open" /\ ~client_closed /\ transmitted < Total
    /\ transmitted' = transmitted + 1
    /\ ack_of' = Append(ack_of, returned)
    /\ excess' = (excess \/ transmitted' - returned > SndBuf)
    /\ UNCHANGED <<boardVars, client_closed, wireVars, broken>>

ClientReceive ==
    /\ pcb # "none" /\ returned < output /\ ~lost
    /\ returned' = returned + 1
    /\ UNCHANGED <<boardVars, pcVars, acked, output, lost, excess, broken>>

ClientClose ==
    /\ pcb = "open" /\ ~client_closed
    /\ client_closed' = TRUE
    /\ UNCHANGED <<boardVars, transmitted, ack_of, wireVars, excess, broken>>

\* What is on the wire to the client is lost, and nothing behind it is of use
\* before it is sent again.
Loss ==
    /\ returned < output
    /\ lost' = TRUE
    /\ UNCHANGED <<boardVars, pcVars, acked, returned, output, excess, broken>>
-----------------------------------------------------------------------------
EchoInit ==
    /\ loop = "boot" /\ TcpFastTmrFlag = FALSE /\ TcpSlowTmrFlag = FALSE
    /\ pcb = "none" /\ consumed = 0 /\ window = RcvWnd /\ echoed = <<>>
    /\ refused = NoChain
    /\ transmitted = 0 /\ ack_of = <<>> /\ client_closed = FALSE
    /\ acked = 0 /\ returned = 0 /\ output = 0 /\ lost = FALSE
    /\ excess = FALSE /\ broken = FALSE

MainLoop ==
    \/ FastTimer \/ FastClear \/ SlowTimer \/ SlowClear
    \/ NoFrame \/ Connected \/ Data \/ Retried \/ Ack \/ Fin \/ Reset
Client == ClientSend \/ ClientReceive \/ ClientClose

EchoNext == Boot \/ MainLoop \/ Tick \/ Client \/ Loss

EchoSpec == EchoInit /\ [][EchoNext]_echoVars

\* The processor runs, the timer ticks, and frames get through in the end: a
\* frame the client has sent is read some day, and what is sent to it again and
\* again reaches it.
EchoFairSpec ==
    /\ EchoSpec
    /\ WF_echoVars(MainLoop)
    /\ WF_echoVars(Tick /\ TcpSlowTmrFlag')
    /\ SF_echoVars(Data) /\ SF_echoVars(ClientReceive)
-----------------------------------------------------------------------------
\* "A server that returns the data as it is" (echo_server.h:6): what tcp_write
\* took is what the program consumed, unit by unit.
EchoedAsSent == echoed = [i \in 1 .. consumed |-> i]

\* A client that never has more on the way than the board can hold for sending
\* gets back exactly what it sent: however the bytes are cut into segments and
\* pbufs, and whatever is acknowledged late or lost on the way back, no write
\* of echo_recv fails.
EchoIsExact == ~excess => EchoedAsSent /\ refused = NoChain

\* Every unit such a client sends comes back, also after it has closed its
\* side, unless the connection breaks: the window is opened again for every
\* unit consumed and the timers send again what was lost.
AllEchoed ==
    \A n \in 1 .. Total : (transmitted >= n) ~> (returned >= n \/ excess \/ broken)
=============================================================================
