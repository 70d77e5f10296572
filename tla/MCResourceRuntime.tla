-------------------------- MODULE MCResourceRuntime --------------------------
(* Small instances of ResourceRuntime for TLC. *)
EXTENDS ResourceRuntime, TLC

HeavyKinds == [cls : {"heavy"}, mode : {"legacy"}]

TickLimits == [mw : MinWorkers..MaxWorkers, mh : {0, MaxHeavy}]

Quiet == [cpu |-> "low", rss |-> "low", level |-> "healthy"]

QuietHosts == {Quiet}
CpuHosts   == {Quiet, [Quiet EXCEPT !.cpu = "hard"]}

\* One host for each way a tick can go.
AllHosts == CpuHosts \cup {[Quiet EXCEPT !.cpu = "mid"],
                           [Quiet EXCEPT !.cpu = "soft"],
                           [Quiet EXCEPT !.rss = "hard"],
                           [Quiet EXCEPT !.level = "critical"]}
=============================================================================
