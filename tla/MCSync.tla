------------------------------- MODULE MCSync -------------------------------
(* WGSync on small instances. *)
EXTENDS WGSync

\* What the rest of a behaviour can depend on.  The registers saved for the
\* current thread are overwritten before they are read again, and those of a
\* FREE or EXITED slot are never read; neither is their history.
LiveRegs(t) ==
    IF t = sched.cur \/ sched.st[t] \in {"FREE", "EXITED"}
    THEN NewContext(t) ELSE sched.regs[t]

LiveView ==
    <<[sched EXCEPT !.regs = [t \in Slots |-> LiveRegs(t)]],
      [t \in Slots |-> IF sched.st[t] = "EXITED" THEN 0 ELSE done[t]],
      estate, evNext, evSig, evManual, iocp, nsdPause, exiting>>
=============================================================================
