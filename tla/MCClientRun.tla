----------------------------- MODULE MCClientRun -----------------------------
(***************************************************************************)
(* Small instances of ClientRun.                                           *)
(***************************************************************************)
EXTENDS ClientRun

\* Load only, run only and both, with equal and unequal shares of records,
\* operations and warmup, with and without scans.  Without the status thread,
\* which polls for as long as a phase lasts, there is a load phase only.
BothPhases ==
  {[load |-> l, run |-> r, records |-> 3, ops |-> o, warmup |-> w,
    status |-> s, scans |-> z] :
      l \in BOOLEAN, r \in BOOLEAN, o \in {4, 5}, w \in {0, 1, 2},
      s \in BOOLEAN, z \in BOOLEAN}
MCConfigs ==
  {c \in BothPhases : /\ c.load \/ c.run
                      /\ ~c.run => c.warmup = 0
                      /\ ~c.status => ~c.run
                      /\ ~c.scans => c.run /\ ~c.load /\ c.warmup > 0}

\* One thread has no operation left after its warmup.
UnevenConfig ==
  {[load |-> FALSE, run |-> TRUE, records |-> 2, ops |-> 3, warmup |-> 2,
    status |-> TRUE, scans |-> TRUE]}

\* Two threads that share one warmup operation each
WarmupConfig ==
  {[load |-> FALSE, run |-> TRUE, records |-> 2, ops |-> 6, warmup |-> 2,
    status |-> FALSE, scans |-> TRUE]}
=============================================================================
