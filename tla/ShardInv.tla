------------------------------ MODULE ShardInv -------------------------------
(***************************************************************************)
(* Why a configuration number means one configuration and no answer is     *)
(* stale: what has to hold of the log, the servers and the calls in flight *)
(* for each step to keep it.                                               *)
(***************************************************************************)
EXTENDS ShardMaster

\* A history of configurations goes on from another one.
continues(old, new) == \A k \in DOMAIN old : k \in DOMAIN new /\ new[k] = old[k]

\* Each entry of the log was executed once; configurations are only added, and
\* the number of a clerk's last command only grows.
ReplayFollowsLog ==
    /\ Len(replay) = Len(log) + 1
    /\ replay[1] = [state |-> freshState, last |-> noCommand]
    /\ \A n \in DOMAIN log : replay[n + 1] = once(replay[n], log[n])
    /\ \A m, n \in DOMAIN replay : m <= n =>
           /\ continues(replay[m].state.configs, replay[n].state.configs)
           /\ \A c \in Clerk : replay[m].last[c] <= replay[n].last[c]

\* A server holds what its part of the log makes, whatever the order in which it
\* iterated over its maps.
ReplicasAgree ==
    \A s \in Server : /\ state[s] = replay[applied[s] + 1].state
                      /\ lastCommittedCommandCount[s] = replay[applied[s] + 1].last

\* The nth command of the log is new where it stands and violates an assertion.
Fatal(n) == /\ replay[n].last[log[n].clerk] < log[n].id
            /\ panics(replay[n].state, log[n].op)

\* A server has stopped exactly when the last command it read is such a one.
StopsAtFatal ==
    \A s \in Server :
        /\ s \in panicked => applied[s] > 0 /\ Fatal(applied[s])
        /\ \A n \in 1..applied[s] : Fatal(n) => n = applied[s] /\ s \in panicked

\* What every command keeps of a state.
ConfigsSound ==
    \A n \in DOMAIN replay :
        /\ Indexed(replay[n].state)
        /\ \A k \in DOMAIN replay[n].state.configs : covers(replay[n].state.configs[k])

\* No number is in use that a clerk has not given out.
NumbersIssued ==
    /\ \A n \in DOMAIN replay : \A c \in Clerk : replay[n].last[c] < nextCommandN[c]
    /\ \A p \in calls : p.cmd.id < nextCommandN[p.cmd.clerk]
    /\ \A c \in Clerk : current[c] # Nil => current[c].clerk = c

newest == replay[Len(replay)].state

Known(config) == \E k \in DOMAIN newest.configs : config = newest.configs[k]

\* What a clerk was told, or is about to be told, was made by the log.
AnswersKnown ==
    /\ \A config \in published : Known(config)
    /\ \A p \in calls : p.at = "replied" =>
           /\ open(p)
           /\ p.seen <= getLastConfigNumber(newest)
           /\ p.value # Nil => Known(p.value.config) /\ freshAs(p.value, since[p.cmd.clerk])

\* A command is executed on configurations as new as any that was acknowledged
\* when its operation began.
BegunAfter ==
    /\ acknowledged <= getLastConfigNumber(newest)
    /\ \A c \in Clerk :
           /\ since[c] <= getLastConfigNumber(newest)
           /\ current[c] # Nil => \A n \in DOMAIN replay :
                  replay[n].last[c] >= current[c].id =>
                      since[c] <= getLastConfigNumber(replay[n].state)

\* The inductive invariant: together with TypeOK it is kept by every step.
ShardInv ==
    /\ ReplayFollowsLog
    /\ ReplicasAgree
    /\ StopsAtFatal
    /\ ConfigsSound
    /\ NumbersIssued
    /\ AnswersKnown
    /\ BegunAfter
    /\ QueryFresh
=============================================================================
