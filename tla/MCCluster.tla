------------------------------ MODULE MCCluster ------------------------------
(* The processes of a run: its start and its end, or the tasks of a few      *)
(* workers in between.  One of the two is chosen at first; the other stays   *)
(* in one of its initial states.                                             *)
EXTENDS DistributedExecutor, Startup

VARIABLE program

ClusterInit ==
  /\ program \in {"executor", "startup"}
  /\ Init /\ (program = "executor" \/ nodes = {CHOOSE w \in Workers : TRUE})
  /\ StartupInit /\ (program = "startup" \/ (code = "none" /\ packages = "writable"))

ClusterNext ==
  \/ program = "executor" /\ Next /\ UNCHANGED <<program, startupVars>>
  \/ program = "startup" /\ StartupNext /\ UNCHANGED <<program, vars>>

\* The fairness of both, each in its own program.
ClusterFairness ==
  /\ \A t \in Tasks : /\ WF_vars(program = "executor" /\ NoNodes(t))
                      /\ WF_vars(program = "executor" /\ Dispatch(t))
  /\ \A w \in Workers : /\ WF_vars(program = "executor" /\ Round(w))
                        /\ WF_vars(program = "executor" /\ WorkerStep(w))
  /\ WF_startupVars(program = "startup" /\ BossStep)
  /\ WF_startupVars(program = "startup" /\ Terminated)
  /\ \A w \in Ranks : WF_startupVars(program = "startup" /\ RankStep(w))
  /\ \A t \in {"queue", "eval"} : WF_startupVars(program = "startup" /\ BossUnlocks(t))

ClusterSpec == ClusterInit /\ [][ClusterNext]_<<program, vars, startupVars>> /\ ClusterFairness

=============================================================================
