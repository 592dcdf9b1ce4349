---------------------------- MODULE MCMicCall ----------------------------
(***************************************************************************)
(* Instances of MicCall for TLC: which thread gets which requests.         *)
(***************************************************************************)
EXTENDS MicCall

CONSTANTS h1, h2, btn

OneHandler == {h1}

TwoHandlers == {h1, h2}

Instance(atH1, atH2, atButton) ==
    [t \in Threads |-> CASE t = btn -> atButton [] t = h1 -> atH1 [] OTHER -> atH2]

\* Every request and button event there is.
Everything == Instance(HttpJobs, HttpJobs, ButtonJobs)

\* Calls that start and stop, a listener of a call, and streams that acquire and release the
\* microphone before, during and after one.
CallsAndStreams == Instance({"call_start", "call_stop", "stream"},
                            {"call_start", "call_rx", "stream"}, {})

\* Only the port fails.
WriteFaults == {"write"}

\* A client listens while another plays a sound.
Playback == Instance({"stream", "tone"}, {"stream", "tone"}, {})

\* Two clients start and stop calls.
StartStop == Instance({"call_start", "call_stop"}, {"call_start", "call_stop"}, {})

=============================================================================
