---------------------------- MODULE MCServices ----------------------------
(***************************************************************************)
(* Instances for TLC of the services around the lifecycle of models: the   *)
(* configuration overlay, the autoscaler, alerts, router keys, downloads.  *)
(* None reads the state of another, so a behaviour is one of one part, and *)
(* the state of the others stays put.                                      *)
(***************************************************************************)
EXTENDS ConfigOverlay, Autoscaler, Alerts, KeyAuth, Downloads

CONSTANTS r1, r2, m1, policy, q1, q2, s1, s2

VARIABLE part

serviceVars == <<part, confVars, scaleVars, alertVars, keyVars, downloadVars>>

\* One instance that config.yaml does not define, and one backup; value 2 stands
\* for parameters whose engine has no launcher.
NoBase == [i \in {m1, policy} |-> Absent]
OneBackup == {[i \in {m1, policy} |-> 1]}
RequestKinds ==
    [file |-> [q \in Request |-> IF q = q1 THEN {"create", "import", "rollback"}
                                ELSE {"update", "delete", "autoscale", "fallback",
                                      "embedding", "force"}],
     store |-> [q \in Request |-> IF q = q1 THEN {"import"} ELSE {"create"}]]

Floors == [s \in {s1, s2} |-> IF s = s1 THEN 2 ELSE 0]

\* The parts that do not play begin, and stay, in one state.
ServicesInit ==
    /\ part \in {"conf", "scale", "alert", "key", "download"}
    /\ ConfInit /\ (part # "conf" => mode = "file")
    /\ ScaleInit /\ (part # "scale" => ~enabled /\ load = "none" /\ state[1] = "stopped")
    /\ AlertInit
    /\ KeyInit /\ (part # "key" => cred.as = "key")
    /\ DownloadInit /\ (part # "download" => kind = "perf")

\* In a fleet the two requests come to different backends, and nothing starts.
Bounded ==
    mode = "store" => /\ count'.starts = 0
                      /\ req'[q1].at \in {Absent, r1} /\ req'[q2].at \in {Absent, r2}

Conf(A) == part = "conf" /\ A /\ UNCHANGED <<part, scaleVars, alertVars, keyVars, downloadVars>>
Scale(A) == part = "scale" /\ A /\ UNCHANGED <<part, confVars, alertVars, keyVars, downloadVars>>
Alert(A) == part = "alert" /\ A /\ UNCHANGED <<part, confVars, scaleVars, keyVars, downloadVars>>
Auth(A) == part = "key" /\ A /\ UNCHANGED <<part, confVars, scaleVars, alertVars, downloadVars>>
Fetch(A) == part = "download" /\ A /\ UNCHANGED <<part, confVars, scaleVars, alertVars, keyVars>>

ServicesNext ==
    Conf(ConfNext /\ Bounded) \/ Scale(ScaleNext) \/ Alert(AlertNext) \/ Auth(KeyNext) \/ Fetch(DownloadNext)

\* ConfFairness and ScaleFairness, of the part that plays.
ServicesFairness ==
    /\ \A q \in Request : WF_serviceVars(Conf(RequestStep(q) /\ UNCHANGED mode))
    /\ \A r \in Backend : WF_serviceVars(Conf((SyncReads(r) \/ SyncApplies(r)) /\ UNCHANGED mode))
    /\ WF_serviceVars(Scale(Poll)) /\ WF_serviceVars(Scale(Decide)) /\ WF_serviceVars(Scale(Apply))
    /\ \A i \in Member : WF_serviceVars(Scale(Readies(i)))

ServicesSpec == ServicesInit /\ [][ServicesNext]_serviceVars /\ ServicesFairness
=============================================================================
