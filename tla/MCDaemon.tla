------------------------------ MODULE MCDaemon ------------------------------
EXTENDS DaemonLifecycle, DaemonEnv

\* Nothing set; the limit lowered and a CPU; typing errors; the limit disabled and the batch
\* size with the switch; the limit raised, everything else pinned, a GPU.
const_Shell ==
    {Bare, [Bare EXCEPT !.limit = 600, !.device = Cpu],
     [Bare EXCEPT !.limit = Garbled, !.batch = 256],
     [Bare EXCEPT !.limit = 0, !.nodes = 0, !.batch = 256, !.explicit = 1],
     [Bare EXCEPT !.limit = 8000, !.chunks = 70000, !.cache = 3000, !.bm25 = 0, !.device = Gpu]}

\* Just too little, just enough, and the first of the second tier.
const_Ram == {16383, 16384, 32768}

\* Two parts side by side: the processes of several starts and stops, and the
\* environment of one daemon after the other; one moves only while the other is at
\* its beginning. The flag asks for a CPU or for nothing.
MCInit == Init /\ EnvInit
LifeAtStart ==
    /\ \A p \in Proc : phase[p] = "off"
    /\ \A s \in Stopper : stop[s] = "idle"
    /\ \A c \in Client : client[c] = "idle"
    /\ foreign = {} /\ changes = 0
MCNext ==
    \/ EnvInit /\ agent = Bare /\ ram = 16383 /\ Next /\ UNCHANGED evars
    \/ LifeAtStart /\ EnvNext /\ flag' # Gpu /\ UNCHANGED vars
MCSpec == MCInit /\ [][MCNext]_<<vars, evars>> /\ Fairness
=============================================================================
