---------------------------- MODULE TaskService -----------------------------
(***************************************************************************)
(* What the job scheduler promises its clients (MQTT dispatcher, web       *)
(* controller, status reporter), with none of its threads: commands are    *)
(* accepted in some order and start in exactly that order, at most one per *)
(* server, each once.                                                      *)
(***************************************************************************)
EXTENDS Naturals, Sequences

CONSTANTS Task, Server, NoTask

VARIABLES accepted,   \* the commands in the order they were accepted
          nStarted,   \* how many of them have started
          serving,    \* the command each server is executing
          answered,   \* the commands whose execution is over
          open        \* FALSE once the service is being closed

svcVars == <<accepted, nStarted, serving, answered, open>>

Init ==
    /\ accepted = <<>>
    /\ nStarted = 0
    /\ serving = [s \in Server |-> NoTask]
    /\ answered = {}
    /\ open = TRUE

Accept(t) ==
    /\ \A i \in 1 .. Len(accepted) : accepted[i] # t
    /\ accepted' = Append(accepted, t)
    /\ UNCHANGED <<nStarted, serving, answered, open>>

\* The next command in order goes to a free server.
Start(s) ==
    /\ nStarted < Len(accepted)
    /\ serving[s] = NoTask
    /\ nStarted' = nStarted + 1
    /\ serving' = [serving EXCEPT ![s] = accepted[nStarted + 1]]
    /\ UNCHANGED <<accepted, answered, open>>

Answer(s) ==
    /\ serving[s] # NoTask
    /\ answered' = answered \cup {serving[s]}
    /\ serving' = [serving EXCEPT ![s] = NoTask]
    /\ UNCHANGED <<accepted, nStarted, open>>

Close ==
    /\ open
    /\ open' = FALSE
    /\ UNCHANGED <<accepted, nStarted, serving, answered>>

Next ==
    \/ \E t \in Task : Accept(t)
    \/ \E s \in Server : Start(s) \/ Answer(s)
    \/ Close

Safety == Init /\ [][Next]_svcVars
=============================================================================
